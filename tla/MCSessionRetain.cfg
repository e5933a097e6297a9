SPECIFICATION SessionSpec
CONSTANTS
    Val = {a, b}
    Blank = Blank
    MaxSize = 2
    Sizes = {1, 2}
    BROADCAST_CAPACITY = 4
    FULL_FRAME_DIRTY_RATIO_NUM = 1
    FULL_FRAME_DIRTY_RATIO_DEN = 1
    MaxChanges = 1
    MaxTroubles = 1
    BulkRoom = 2
INVARIANTS
    RetainedFrameCovers
CHECK_DEADLOCK FALSE
