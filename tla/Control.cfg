SPECIFICATION ControlSpec
CONSTANTS
    Owners = {o1}
    Clones = {c1}
    Drains = {c1}
    MaxGen = 2
    QueueLen = 2
    MaxUpdates = 1
    a = a
    b = b
    t = t
    Units = {a, b}
    Targets = {t}
    Configs <- MCConfigs
    None = None
    MaxSpawns = 2
INVARIANTS
    SubscribedWhileConnected
    StartTogether
PROPERTIES
    ClonesFollowTermination
    GateReloadConverges
    CoordinatorCompletes
CHECK_DEADLOCK FALSE
