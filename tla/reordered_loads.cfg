CONSTANTS
    MaxBlocks = 2
    BlockSize = 2
    MaxPop = 2
    MayFail = FALSE
    Reorders = TRUE
    MaxPush = 4
SPECIFICATION Spec
CHECK_DEADLOCK FALSE
INVARIANT
    InOrder
