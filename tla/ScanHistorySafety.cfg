CONSTANTS
    s1 = s1
    s2 = s2
    Scans <- TwoScans
    MaxActive = 1
    MaxAttempts = 2
SPECIFICATION FairSpec
INVARIANTS
    AppliedIsFinal
    ShownIsTrue
    HistoryInvariant
PROPERTIES
    ClosedStaysClosed
    OpenRowsClose
CHECK_DEADLOCK FALSE
