CONSTANTS
    Procs = {p1, p2}
    Clis = {c1}
    NoPid = NoPid
    MaxProcs = 2
    MaxObjects = 2
    MaxTime = 0
    MaxCommands = 2
    MaxCrashes = 1
SPECIFICATION Spec
SYMMETRY Symmetry
CHECK_DEADLOCK FALSE
INVARIANTS
    TypeOK
    SegmentExclusion
    RegistrationKept
    ListedFollow
