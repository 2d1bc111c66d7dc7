CONSTANTS
    MaxBlocks = 3
    BlockSize = 2
    MaxPop = 2
    MayFail = FALSE
    Reorders = FALSE
    MaxPush = 10
SPECIFICATION FairSpec
CHECK_DEADLOCK FALSE
INVARIANTS
    TypeOK
    RingKept
PROPERTIES
    QueueSpec
    EventsLeave
