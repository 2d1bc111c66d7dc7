CONSTANTS
    c1 = c1
    Call = {c1}
    MaxFailures = 2
SPECIFICATION CallSpec
CHECK_DEADLOCK FALSE
INVARIANT NeverAgain
