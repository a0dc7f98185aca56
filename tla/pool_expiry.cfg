SPECIFICATION Spec
CONSTANTS
    a1 = a1
    a2 = a2
    w1 = w1
    w2 = w2
    Account = {a1}
    Worker = {w1}
    Boot = boot
    Nobody = nobody
    NoAccount = none
    MaxConcurrent = 1
    BanLen = 1
PROPERTY
    OnlyExpiredBansEnd
CHECK_DEADLOCK FALSE
