SPECIFICATION LiveSpec
CONSTANTS
    a1 = a1
    a2 = a2
    w1 = w1
    w2 = w2
    Account = {a1}
    Worker = {w1, w2}
    Boot = boot
    Nobody = nobody
    NoAccount = none
    MaxConcurrent = 1
    BanLen = 2
INVARIANTS
    TypeOK
    NoDoubleConnect
    ConnectedIsRunning
PROPERTIES
    Served
    BanIsLifted
    ImplementsSessions
CHECK_DEADLOCK FALSE
