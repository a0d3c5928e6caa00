SPECIFICATION Spec
CONSTANTS
    MaxCells = 3
    MaxRefs = 1
    WorkLimit = 2
    MinorLimit = 2
    BaseYoung = 2
    BaseFull = 2
    SlackYoung = 1
    SlackFull = 1
INVARIANTS
    WellFormed
    StopTheWorldIsSafe
    MarksAreCleared
PROPERTIES
    GcCollectIsExact
CHECK_DEADLOCK FALSE
