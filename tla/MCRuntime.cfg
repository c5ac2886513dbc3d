CONSTANTS
    MaxTasks = 4
SPECIFICATION RtFairSpec
INVARIANTS
    TablesAgree
    RoundSeparation
PROPERTIES
    RunsOnce
    FailureIsFinal
    RunAllDrains
    EveryCallReturns
CHECK_DEADLOCK FALSE
