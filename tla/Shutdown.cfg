SPECIFICATION ControlSpec
CONSTANTS
    Owners = {o1}
    Clones = {c1}
    Drains = {c1}
    MaxGen = 0
    QueueLen = 2
    MaxUpdates = 0
    a = a
    b = b
    t = t
    Units = {a, b}
    Targets = {t}
    Configs <- MCConfigs
    None = None
    MaxSpawns = 1
PROPERTY ShutdownCompletes
CHECK_DEADLOCK FALSE
