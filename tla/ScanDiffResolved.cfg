SPECIFICATION Spec
CONSTANTS
    Plans <- MCPlans
    FullPlan <- MCFullPlan
    Pools <- SoftwareOnly
    MaxScans = 2
CHECK_DEADLOCK FALSE
INVARIANTS
    FailedIsNotResolved
