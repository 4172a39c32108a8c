SPECIFICATION InputsSpec
CONSTANTS
    None = None
    MaxIds = 5
    Conns = {c1, c2}
    MaxUpdates = 2
    Sessions = {s1, s2}
    EorViews = {"pre"}
    MaxMsgs = 3
INVARIANTS
    
    SessionsApart
    ConnectedIffHeld
    ServedRoutesOwned
PROPERTIES
    
    IdleChildrenReclaimed
CHECK_DEADLOCK FALSE
