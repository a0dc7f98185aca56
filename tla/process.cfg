SPECIFICATION LiveSpec
CONSTANTS
    m = m
    s = s
    g1 = g1
    g2 = g2
    w1 = w1
    Account = {m, s}
    MonitorRole = {m}
    Group = {g1, g2}
    NoAccount = none
    Worker = {w1}
INVARIANTS
    TypeOK
    OneHandler
    PauseBound
    ClientsAreClosed
PROPERTIES
    EndedMeansIdle
    HandlerFollows
    StopEndsProcess
