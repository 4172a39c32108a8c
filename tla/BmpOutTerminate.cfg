SPECIFICATION FairSpec
CONSTANTS
    Peers = {p1}
    Prefixes = {x1}
    Values = {v1}
    NoRoute = NoRoute
    Clients = {c1}
    StatsEmitter = StatsEmitter
    None = None
    MaxBufferEntries = 2
    MaxBufferBytes = 5
    LiveQueueDepth = 2
    Fastpath = FALSE
    RawPeers = {}
    StatsPeers = {}
    GcPeers = {}
    RibMayLack = FALSE
    DumpDeadline = FALSE
    MayTerminate = TRUE
    MaxMessages = 3
PROPERTY Terminates
CHECK_DEADLOCK FALSE
