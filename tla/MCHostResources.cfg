SPECIFICATION FairSpec
CONSTANTS
    First = 4
    Limit = 8
    HandleType = {"process", "pipe", "conn", "window", "file", "directory", "menu", "tray", "instance", "adapter", "device", "gsurface", "texture", "encoder", "gpu", "other"}
    Starts <- MCStarts
    Modes <- MCModes
    Transports = {"tcp", "tls", "quic"}
    MaxSent = 4
    MaxCap = 2
    RingSize = 2
    RecordSize = 2
    MaxWindows = 2
    MaxTrays = 1
    Token <- MCToken
    MenuMax = 2
    Address = {"a1", "a2"}
    MaxPending = 2
    MaxDepth = 2
INVARIANTS TypeOK ObjectsOwned ReceivedInOrder RequestsKept
PROPERTY CallReturns
