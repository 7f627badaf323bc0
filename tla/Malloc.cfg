SPECIFICATION Spec
CONSTANTS
    SizeT = 2
    MetaSize = 2
    PageSize = 8
    HeapStart = 2
    FirstStep = 1
    HeapLimit = 19
    WordSize = 64
    Sizes = {1, 6}
    Counts <- SmallCounts
INVARIANTS
    HeapTiled
    AllocationsDisjoint
    FullyCoalesced
PROPERTY
    CallsReturn
CHECK_DEADLOCK FALSE
