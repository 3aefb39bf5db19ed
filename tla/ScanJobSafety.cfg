CONSTANTS
    r1 = r1
    r2 = r2
    Plan <- ShortPlan
    Readers <- TwoReaders
    TTL = 2
    PdfLimit = 1
    MaxCrashes = 1
SPECIFICATION FairSpec
INVARIANTS
    TypeOK
    StopReachesChild
    CancelHeeded
    ReportIsComplete
    RetainedUntilDelivered
PROPERTIES
    JobSettles
    DirectoryGoes
CHECK_DEADLOCK FALSE
