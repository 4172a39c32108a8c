SPECIFICATION RoutesSpec
CONSTANTS
    WireSessions <- WS
    WireRoutes <- WR
    Verbatim <- VB
    RibSessions = {"a", "b"}
    RibRoutes <- SomeRibRoutes
    FamilySets <- SomeFamilies
    Stray = FALSE
    RovPrefixes <- NestedPrefixes
    RovVrps <- SomeVrps
    RovOrigins = {1, 2}
    Refused = {}
    Quiet = TRUE
    MaxTurns = 3
    Pool <- SomeRecords
    MaxRecords = 3
    UnknownId = 99
    QRegister <- SomeRegister
    QRoutes <- SomeRoutes
    QTables <- SomeTables
    QFilters <- SomeFilters
    Requests = {"d", "e"}
    MaxDumps = 1
    DumpChunk = 1
    BufferLines = 2
    StreamRoom = 1
    MaxEdits = 1
    FlowRegister <- FlowPeers
    FlowRoutes <- SomeUnicast
    FlowRules <- SomeRules
    NoDst = NoDst
    MaxRows = 3
    AggItems <- SomeItems
    AggMaxBytes = 520
    MrtBatches <- SomeBatches
    RawConnections <- SomeConnections
    Slots = {1, 2}
    MaxReloads = 1
    MaxFailures = 11
    SeqSpace = 32
    HeaderLen = 2
    Exported <- SomeExports
    MaxPending = 2
    MaxStreamBuffer = 9
    MaxGlobalBuffer = 12
    MaxDirections = 2
    MaxPeers = 2
    Options <- SomeOptions
    MaxCaptured = 4
    MaxSections = 1
    MaxInterfaces = 1
    Values <- SomeValues
    Strays = {"s", "detail"}
    MaxShort = 1
    Given <- SomeGiven
    Lines <- SomeLines
    Bodies <- SomeBodies
    MaxLines = 2
INVARIANTS
    
    
    
    DumpSlots
    DumpedWhole
    FiltersAgree
    
    ReceiverInStep
    AggregationExact
    ImportFaithful
    SessionKept
    MessagesFaithful
    
    HelpExact
    

    
CHECK_DEADLOCK FALSE
