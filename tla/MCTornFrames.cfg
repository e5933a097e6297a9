SPECIFICATION ProtocolsSpec
CONSTANTS
    Focuses = {"framing"}
    io = io
    rdpsnd = rdpsnd
    display = display
    audio = audio
    Channel <- MCChannel
    Sender <- MCSender
    Bytes <- MCBytes
    AudioChannel = rdpsnd
    LATENCY_QUEUE_CAP = 1
    BULK_QUEUE_CAP = 2
    MaxChunks = 2
    MaxFrames = 3
    MaxChannels = 2
    MAX_CONFIRM_ACTIVE_LEN = 2
    MaxBatch = 3
    Cases <- WireCases
    Lengths = {0, 1, 1590, 1591, 1600, 1601, 3201}
    MaxChunked = 2
    ZGFX_MAX_SEGMENT_PAYLOAD = 8
    Streams <- MCStreams
    MaxTears = 1
    Display = {d1, d2}
    NoDisplay = NoDisplay
    POOL = 3
    MinKeycode = 253
    MaxKeycode = 255
    MaxTyped = 4
    Name = {"a", "b"}
    TempNames <- MCTempNames
    MaxDepth = 2
    Trees <- MCTrees
    MaxOps = 5
    MaxFaults = 1
INVARIANT FramesAlwaysWhole
CHECK_DEADLOCK FALSE
