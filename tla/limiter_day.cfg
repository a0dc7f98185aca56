SPECIFICATION LiveSpec
CONSTANTS
    w1 = w1
    w2 = w2
    Worker = {w1, w2}
    DayLen = 4
    HourLen = 2
    Night = {1}
    DayCap = 2
    HourCap = 1
    WorkLens = {1, 2}
    RestLens = {1, 2}
    FloodMax = 2
    FloodReset = 2
    BanLen = 1
INVARIANTS
    TypeOK
    DayBound
    HourBound
    FloodPause
PROPERTIES
    RestIsServed
    GrantedAgain
