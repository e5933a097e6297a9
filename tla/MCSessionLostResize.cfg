SPECIFICATION SessionSpec
CONSTANTS
    Val = {a, b}
    Blank = Blank
    MaxSize = 2
    Sizes = {1, 2}
    BROADCAST_CAPACITY = 2
    FULL_FRAME_DIRTY_RATIO_NUM = 1
    FULL_FRAME_DIRTY_RATIO_DEN = 1
    MaxChanges = 0
    MaxTroubles = 2
    BulkRoom = 2
INVARIANTS
    ViewFollows
CHECK_DEADLOCK FALSE
