SPECIFICATION Spec
CONSTANTS
    Peers = {p1, p2}
    Prefixes = {x1}
    Values = {v1}
    NoRoute = NoRoute
    Clients = {c1}
    StatsEmitter = StatsEmitter
    None = None
    MaxBufferEntries = 3
    MaxBufferBytes = 5
    LiveQueueDepth = 2
    Fastpath = FALSE
    RawPeers = {p1}
    StatsPeers = {}
    GcPeers = {}
    RibMayLack = TRUE
    DumpDeadline = TRUE
    MayTerminate = TRUE
    MaxMessages = 4
INVARIANTS
    NoZombiePeer
    Synced
    
CHECK_DEADLOCK FALSE
