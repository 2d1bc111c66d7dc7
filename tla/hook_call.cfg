CONSTANTS
    c1 = c1
    c2 = c2
    c3 = c3
    Call = {c1, c2, c3}
    MaxFailures = 2
SYMMETRY Calls
SPECIFICATION CallSpec
CHECK_DEADLOCK FALSE
INVARIANTS
    RunOnce
    OwnOutcome
    GivenUp
