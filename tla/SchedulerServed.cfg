CONSTANTS
    s1 = s1
    s2 = s2
    i1 = i1
    i2 = i2
    Schedules <- TwoSchedules
    Instances <- OneInstance
    Batch = 1
    Period = 3
    Lease = 2
    MaxTick = 1
    MaxClock = 3
    MaxEdits = 1
    MaxScans = 1
    MaxCopies = 1
SPECIFICATION FairSpec
INVARIANTS
    AlertWasSent
PROPERTIES
    DueIsServed
CHECK_DEADLOCK FALSE
