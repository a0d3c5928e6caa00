SPECIFICATION PoolSpec
CONSTANTS
    Clients = {c1, c2}
    WorkerCount = 2
    MaxJobs = 2
INVARIANTS
    PoolWellFormed
    DestroyedMeansDrained
PROPERTIES
    AcceptedJobsSettle
    CallsReturn
CHECK_DEADLOCK FALSE
