SPECIFICATION SessionSpec
CONSTANTS
    Val = {a, b}
    Blank = Blank
    MaxSize = 2
    Sizes = {1, 2}
    BROADCAST_CAPACITY = 1
    FULL_FRAME_DIRTY_RATIO_NUM = 1
    FULL_FRAME_DIRTY_RATIO_DEN = 1
    MaxChanges = 0
    MaxTroubles = 0
    BulkRoom = 1
INVARIANTS
    LateSubscriberPaints
CHECK_DEADLOCK FALSE
