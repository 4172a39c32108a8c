SPECIFICATION ServicesSpec
CONSTANTS
    Slots = {i1}
    Absent = Absent
    MaxReloads = 2
    Nothing = Nothing
    MaxRuns = 2
    MaxEvents = 2
    MaxTroubles = 1
    QueueRoom = 1
    BatchRows = 4
    Brokers = {b1, b2}
    Delays = {1, 2}
    PubRoom = 2
    ClientRoom = 1
    MaxPublished = 3
    MaxChanges = 2
    MaxBatches = 2
    MaxFaults = 2
INVARIANTS
    
    StatusIsListed
PROPERTIES
    WantedPeerDialed
    DurableKept
    
    BrokerInUse
CHECK_DEADLOCK FALSE
