CONSTANTS
    sub1 = sub1
    sub2 = sub2
    d1 = d1
    d2 = d2
    Subs <- OneSub
    Slots <- TwoSlots
    MaxVersion = 3
    MaxDuplicates = 1
    MaxCrashes = 1
SPECIFICATION FairSpec
INVARIANTS
    EntitlementBacked
    SettledAccess
    BillingInvariant
    GoneLeavesNothing
PROPERTIES
    EventsAnswered
    PendingDeletes
CHECK_DEADLOCK FALSE
