CONSTANTS
    r1 = r1
    r2 = r2
    c1 = c1
    c2 = c2
    s1 = s1
    Requests <- TwoRequests
    Challenges <- TwoChallenges
    Sessions <- OneSession
    MaxAttempts = 2
    SessionTTL = 2
    IdleTTL = 1
    MaxResets = 1
SPECIFICATION Spec
SYMMETRY Symmetry
INVARIANTS
    ChallengesHold
    ResetSignsOut
    SessionsEnd
CHECK_DEADLOCK FALSE
