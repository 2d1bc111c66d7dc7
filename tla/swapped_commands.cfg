CONSTANTS
    Thread = {u1, w}
    User = {u1}
    Main = u1
    Worker = w
    MaxPop = 2
    Limited = FALSE
    MaxEvents = 0
    MaxRequests = 2
    MaxEdits = 0
SPECIFICATION Spec
INVARIANT
    FileAlwaysFollows
