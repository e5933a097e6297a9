SPECIFICATION AudioAndInputSpec
CONSTANTS
    Focuses = {"path", "channel", "scheduler", "input"}
    io = io
    rdpsnd = rdpsnd
    drdynvc = drdynvc
    frame = frame
    Channel <- MCChannel
    Bytes <- MCBytes
    MaxPending = 1
    BLOCKS = 4
    MAX_UNACKED_BLOCKS = 2
    MIN_PLAYBACK_RTT_MS = 2
    MAX_PLAUSIBLE_HOLD_MS = 4
    TARGET_HOLD_MS = 2
    U16 = 8
    U32 = 64
    ChunkMs = 1
    MaxChunks = 2
    MaxClock = 3
    MaxHold = 5
    MaxWaves = 4
    MaxResizes = 1
    InputConn = {c1, c2}
    InputScancode <- MCScancode
    Repertoire <- MCRepertoire
    MaxCount = 3
INVARIANTS
    AudioPathSafe
    AudioWindowSafe
    SchedulerSafe
    HoldsExact
PROPERTIES
    RoundRobinFair
CHECK_DEADLOCK FALSE
