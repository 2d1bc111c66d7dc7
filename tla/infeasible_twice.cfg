CONSTANTS
    Setups <- MCSetups
    Params = {"p1", "bad"}
    Default = "p1"
    Infeasible = {"bad"}
    WaitTime = 2
    MonitorTime = 2
    RetryNumber = 2
    MaxFaults = 0
    MaxProposals = 2
    MaxBest = 1
    MaxTunes = 1
    MaxPrograms = 2
SPECIFICATION Spec
CHECK_DEADLOCK FALSE
PROPERTY SearchSurvives
