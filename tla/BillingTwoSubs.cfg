CONSTANTS
    sub1 = sub1
    sub2 = sub2
    d1 = d1
    d2 = d2
    Subs <- TwoSubs
    Slots <- OneSlot
    MaxVersion = 2
    MaxDuplicates = 0
    MaxCrashes = 0
SPECIFICATION Spec
INVARIANTS
    PayingIsPremium
CHECK_DEADLOCK FALSE
