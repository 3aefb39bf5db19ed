SPECIFICATION Spec
CONSTANTS
    Plans <- MCPlans
    FullPlan <- MCFullPlan
    Pools <- ArchiveOnly
    MaxScans = 2
CHECK_DEADLOCK FALSE
INVARIANTS
    SupportIsObserved
