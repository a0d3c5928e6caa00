SPECIFICATION Spec
CONSTANTS
    MaxTasks = 3
    MaxTime = 1
    MaxHandlers = 1
    SliceBudget = 2
    Values = {v1}
    Nil = nil
    ErrorValue = err
INVARIANTS
    EntryFailureReported
CHECK_DEADLOCK FALSE
