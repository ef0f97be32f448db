CONSTANTS
    w = w
    p = p
    r1 = r1
    o1 = o1
    Owners <- MCOwners
    RecurringIds <- MCRecurringIds
    OneShotIds <- MCOneShotIds
    OwnerOf <- MCOwnerOf
    LegacyIds = {}
    MaxTime = 4
    Grace = 1
    InitTimeout = 2
    MaxSaves = 3
    MaxRestarts = 2
    RemoteFails = FALSE
    InOrder = TRUE

SPECIFICATION Spec
INVARIANT OneShotAgreesWithIntent
