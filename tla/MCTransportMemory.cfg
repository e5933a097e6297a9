SPECIFICATION TransportSpec
CONSTANTS
    io = io
    rdpsnd = rdpsnd
    display = display
    audio = audio
    Channel <- MCOneChannel
    Sender <- MCOneSender
    Bytes <- MCBytes
    AudioChannel = io
    LATENCY_QUEUE_CAP = 1
    BULK_QUEUE_CAP = 1
    MaxChunks = 1
    MaxFrames = 6
INVARIANT
    MemoryBounded
CHECK_DEADLOCK FALSE
