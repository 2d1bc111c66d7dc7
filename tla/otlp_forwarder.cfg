CONSTANTS
    c1 = c1
    c2 = c2
    Client = {c1, c2}
    Frames <- MCFrames
    QueueSize = 2
    Levels = 2
    MaxOutages = 1
SPECIFICATION FairSpec
CHECK_DEADLOCK FALSE
INVARIANTS
    TypeOK
    InOrder
    NothingLost
PROPERTIES
    FramesLeave
    StopEnds
