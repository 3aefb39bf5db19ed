CONSTANTS
    j1 = j1
    j2 = j2
    j3 = j3
    j4 = j4
    Jobs <- FourJobs
    MaxConcurrent = 2
    MaxQueue = 1
SPECIFICATION Spec
VIEW WithoutOrder
SYMMETRY Symmetry
INVARIANTS
    ActiveIsInFlight
    WithinLimits
    ReportedOnce
    CancelReachesTools
    QueueInvariant
CHECK_DEADLOCK FALSE
