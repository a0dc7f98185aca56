SPECIFICATION FavourableSpec
CONSTANTS
    w1 = w1
    w2 = w2
    Task <- MCTask
    Priority <- MCPriority
    Worker = {w1, w2}
    FetchLimit = 1
    HighWater = 0
    QueueMax = 1
    StaleTimeout = 1
    MaxRetry = 1
INVARIANTS
    ExclusiveExecution
    SnapshotIsCurrent
PROPERTIES
    ImplementsLifecycle
    Completion
CHECK_DEADLOCK FALSE
