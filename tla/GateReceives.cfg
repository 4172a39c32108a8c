SPECIFICATION GateSpec
CONSTANTS
    Owners = {o1}
    Clones = {c1}
    Drains = {c1}
    MaxGen = 1
    QueueLen = 2
    MaxUpdates = 1
INVARIANT ConnectedReceives
CHECK_DEADLOCK FALSE
