CONSTANTS
    Setups <- MCSetups
    Params = {"p1", "bad"}
    Default = "p1"
    Infeasible = {"bad"}
    WaitTime = 2
    MonitorTime = 2
    RetryNumber = 2
    MaxFaults = 1
    MaxProposals = 2
    MaxBest = 1
    MaxTunes = 1
    MaxPrograms = 2
SPECIFICATION FairSpec
CHECK_DEADLOCK FALSE
INVARIANTS
    RowsOwn
    NoneLeft
PROPERTIES
    Ends
