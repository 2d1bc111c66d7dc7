CONSTANTS
    Procs = {p1}
    Clis = {c1}
    NoPid = NoPid
    MaxProcs = 1
    MaxObjects = 2
    MaxTime = 0
    MaxCommands = 2
    MaxCrashes = 0
SPECIFICATION Spec
CHECK_DEADLOCK FALSE
INVARIANT
    NoOrphans
