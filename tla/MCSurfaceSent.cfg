SPECIFICATION ChannelsSpec
CONSTANTS
    ClipConn = {c1}
    ClipSession = {s1, s2}
    ClientText = {text, big}
    OversizedText = {big}
    NoText = NoText
    ClipUses <- MCClipUses
    DvcName = {rdpgfx, audin}
    MaxDvcMessage = 2
    MaxLength = 3
    MaxMessages = 2
    PulseServer = {greeter, user}
    NoServer = NoServer
    MaxBacklog = 1
    GfxSizes = {1, 2}
    MAX_FRAMES_IN_FLIGHT = 2
    IDR_INTERVAL_FRAMES = 3
    ENCODE_FAIL_FALLBACK = 2
    GfxRoom = 1
    GfxBudgets <- MCGfxBudgets
    Focuses = {"graphics"}
    t1 = t1
    t2 = t2
    FuseThread <- MCThreads
    Device = {1}
    MAX_PENDING_OPS = 2
    MAX_DEVICES = 1
    MaxEntries = 2
    Scenarios <- MCScenarios
    MountConn = {c1, c2}
    MountDevice = {1, 2}
    DosName = {"C"}
    SanitizedName <- MCSanitizedName
    MountUses <- MCMountUses
INVARIANT
    SurfaceSent
CHECK_DEADLOCK FALSE
