CONSTANTS
    MaxTasks = 4
SPECIFICATION FairSpec
INVARIANTS
    TypeOK
    NoThrow
    QueuedOnce
    ClosureAfterFamily
    DependencyOrder
    StuckOnlyInCycle
PROPERTIES
    ImplementsTaskGraph
    EverythingCompletes
CHECK_DEADLOCK FALSE
