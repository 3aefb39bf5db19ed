SPECIFICATION Spec
CONSTANTS
    Plans <- MCPlans
    FullPlan <- MCFullPlan
    Pools <- MCPools
    MaxScans = 2
CHECK_DEADLOCK FALSE
INVARIANTS
    ResolvedIsGone
    ReportedIsReal
    RoadmapComplete
    EvidenceShown
