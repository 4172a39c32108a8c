SPECIFICATION FairSpec
CONSTANTS
    Peers = {p1}
    Prefixes = {x1}
    Values = {v1}
    NoRoute = NoRoute
    Clients = {c1}
    StatsEmitter = StatsEmitter
    None = None
    MaxBufferEntries = 2
    MaxBufferBytes = 3
    LiveQueueDepth = 1
    Fastpath = FALSE
    RawPeers = {p1}
    StatsPeers = {p1}
    GcPeers = {p1}
    RibMayLack = FALSE
    DumpDeadline = FALSE
    MayTerminate = FALSE
    MaxMessages = 3
INVARIANTS
    BufferAccounting
PROPERTIES
    FlaggedClientLeaves
    DumpEnds
    
CHECK_DEADLOCK FALSE
