SPECIFICATION Spec
CONSTANTS
    Slots = 3
    WordSize = 32
    LowPeriod = 3
    ReapRate = 3
    Handlers = {h1, h2}
    Reaper = Reaper
    Null = Null
    Delays = {2, 3}
    Rates = {0, 2}
    MaxStall = 1
    MaxTick = 8
    TickDevice = 2
SYMMETRY HandlerSymmetry
INVARIANTS
    TypeOK
    NullCallOnlyInDeregister
    ExpiredSlotFreedInTime
PROPERTY
    NoTimerLost
CHECK_DEADLOCK FALSE
