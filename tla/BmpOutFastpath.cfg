SPECIFICATION Spec
CONSTANTS
    Peers = {p1}
    Prefixes = {x1}
    Values = {v1}
    NoRoute = NoRoute
    Clients = {c1}
    StatsEmitter = StatsEmitter
    None = None
    MaxBufferEntries = 3
    MaxBufferBytes = 5
    LiveQueueDepth = 2
    Fastpath = TRUE
    RawPeers = {p1}
    StatsPeers = {}
    GcPeers = {}
    RibMayLack = FALSE
    DumpDeadline = FALSE
    MayTerminate = FALSE
    MaxMessages = 4
INVARIANT Synced
CHECK_DEADLOCK FALSE
