SPECIFICATION MemSpec
CONSTANTS
    PageSize = 4
    TableSize = 8
    PlaceStarts = {11, 12, 16, 18, 22, 24}
    BitmapSize = 5
    DirSize = 9
    FrameAmount = 64
    Requests = {1}
    AddrSpace = 64
    KernelEnd = 11
    HeapSize = 16
    Prealloc = 3
    Types = {1, 3}
    Starts = {0, 11, 28, 36, 40}
    SigSizes = {0, 4, 12}
    ResizeSizes = {4, 9, 16}
    MaxRegions = 4
INVARIANTS
    IdentityMapped
    HeapMapped
    TablesMapped
    RegionsApart
PROPERTY
    SbrkContiguous
CHECK_DEADLOCK FALSE
