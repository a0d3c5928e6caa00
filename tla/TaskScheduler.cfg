SPECIFICATION FairSpec
CONSTANTS
    MaxTasks = 3
    MaxTime = 2
    MaxHandlers = 2
    SliceBudget = 2
    Values = {v1}
    Nil = nil
    ErrorValue = err
INVARIANTS
    TypeOK
    QueueExact
    NoLostWakeup
    StuckMeansCycle
    ScriptResultHonest
PROPERTIES
    SettledIsFinal
    ImplementsFutures
    NobodyStarves
CHECK_DEADLOCK FALSE
