SPECIFICATION LiveSpec
CONSTANTS
    w1 = w1
    w2 = w2
    Task <- MCTask
    Priority <- MCPriority
    Worker = {w1}
    FetchLimit = 2
    HighWater = 0
    QueueMax = 2
    StaleTimeout = 1
    MaxRetry = 1
INVARIANTS
    TypeOK
    PutNeverBlocks
    RunningIsRecoverable
    WaitingIsNotStarted
PROPERTIES
    LetGoIsFinal
    NoStranding
CHECK_DEADLOCK FALSE
