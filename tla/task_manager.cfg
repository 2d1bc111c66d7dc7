CONSTANTS
    Order <- MCOrder
    NextTasks <- MCNextTasks
    Calls <- MCCalls
    MaxProcs <- MCMaxProcs
    MaxErrors = 2
    MaxKills = 1
SPECIFICATION FairSpec
CHECK_DEADLOCK FALSE
INVARIANTS
    AnswersMatch
    StagesApart
    ErrorsSpread
PROPERTIES
    Ends
