CONSTANTS
    Thread = {u1, w}
    User = {u1}
    Main = u1
    Worker = w
    MaxPop = 1
    Limited = TRUE
    MaxEvents = 1
    MaxRequests = 1
    MaxEdits = 1
SPECIFICATION FairSpec
INVARIANTS
    TypeOK
    NoneStranded
    FileFollows
PROPERTIES
    StartsAsked
    RequestsAnswered
    EventsExecuted
