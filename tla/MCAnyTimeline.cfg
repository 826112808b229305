CONSTANTS
    NoAgent = NoAgent
    Gnb = Gnb
    Primary = Primary
    Secondary = Secondary
    RecoveryDelay = 20
    Slots = {10, 15, 30, 32}
    Calls = 3
SPECIFICATION TrackedSpec
INVARIANT TypeOK
INVARIANT NoCheckFails
INVARIANT RestorationPending
INVARIANT TwinCountsItsOwn
INVARIANT BadgesExpire
PROPERTY OnlyPartitionOrphans
PROPERTY ImplementsContinuity
