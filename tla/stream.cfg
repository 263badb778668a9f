SPECIFICATION FairSpec
CONSTANTS
    Client = {c1}
    Waiter = {w1}
    MaxLens <- EveryLimit
    Unlimited = Unlimited
    MaxEvents = 4
INVARIANTS
    TypeOK
    InOrder
    SkipsOnlyTrimmed
PROPERTIES
    EndReachesReaders
CHECK_DEADLOCK FALSE
