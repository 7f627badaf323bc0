SPECIFICATION Spec
CONSTANTS
    PageSize = 4
    TableSize = 8
    PlaceStarts = {11, 12, 13, 14, 15, 16, 18, 20, 22, 24}
    BitmapSize = 5
    DirSize = 9
    FrameAmount = 96
    Requests = {1}
INVARIANT
    TablesApart
CHECK_DEADLOCK FALSE
