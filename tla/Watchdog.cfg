SPECIFICATION WdSpec
CONSTANTS
    Slots = 3
    WordSize = 64
    LowPeriod = 64
    ReapRate = 4
    Handlers = {WdEvaluate}
    Reaper = Reaper
    Null = Null
    Delays = {2}
    Rates = {2}
    MaxStall = 1
    MaxTick = 16
    TickDevice = 0
    WdEvaluate = WdEvaluate
    WdRate = 2
    WD_HU_LIMIT = 5
    WD_HU_LIMIT_KMAIN = 2
    MaxNotify = 2
INVARIANTS
    HangupsExplained
    PanicInTime
PROPERTY
    HungKmainPanics
CHECK_DEADLOCK FALSE
