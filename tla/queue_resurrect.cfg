SPECIFICATION Spec
CONSTANTS
    w1 = w1
    w2 = w2
    Task <- MCTask
    Priority <- MCPriority
    Worker = {w1, w2}
    FetchLimit = 2
    HighWater = 0
    QueueMax = 2
    StaleTimeout = 1
    MaxRetry = 1
PROPERTIES
    TerminalIsFinal
CHECK_DEADLOCK FALSE
