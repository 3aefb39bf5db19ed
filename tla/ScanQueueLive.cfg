CONSTANTS
    j1 = j1
    j2 = j2
    j3 = j3
    j4 = j4
    Jobs <- ThreeJobs
    MaxConcurrent = 1
    MaxQueue = 2
SPECIFICATION FairSpec
PROPERTIES
    ImplementsPool
    NoResurrection
    DrainedMeansDone
    EveryJobReported
CHECK_DEADLOCK FALSE
