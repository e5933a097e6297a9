SPECIFICATION FairSessionSpecUpToContents
CONSTANTS
    Val = {a, b}
    Blank = Blank
    MaxSize = 2
    Sizes = {1, 2}
    BROADCAST_CAPACITY = 1
    FULL_FRAME_DIRTY_RATIO_NUM = 1
    FULL_FRAME_DIRTY_RATIO_DEN = 1
    MaxChanges = 1
    MaxTroubles = 2
    BulkRoom = 1
INVARIANTS
    ScreenTracked
PROPERTIES
    ClientCatchesUp
    ResizeExclusive
CHECK_DEADLOCK FALSE
