CONSTANTS
    Procs = {p1}
    Clis = {c1}
    NoPid = NoPid
    MaxProcs = 1
    MaxObjects = 3
    MaxTime = 1
    MaxCommands = 3
    MaxCrashes = 1
SPECIFICATION FairSpec
CHECK_DEADLOCK FALSE
INVARIANTS
    ListedFollow
PROPERTIES
    CommandsReturn
    StartReturns
