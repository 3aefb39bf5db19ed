CONSTANTS
    s1 = s1
    s2 = s2
    i1 = i1
    i2 = i2
    Schedules <- OneSchedule
    Instances <- TwoInstances
    Batch = 1
    Period = 3
    Lease = 2
    MaxTick = 1
    MaxClock = 5
    MaxEdits = 1
    MaxScans = 2
    MaxCopies = 0
SYMMETRY InstanceSymmetry
SPECIFICATION Spec
INVARIANTS
    TypeOK
    OneHolder
    OneScanPerSlot
PROPERTIES
    PausedStaysQuiet
CHECK_DEADLOCK FALSE
