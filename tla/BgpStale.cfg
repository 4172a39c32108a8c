SPECIFICATION BgpSpec
CONSTANTS
    MaxIds = 4
    Conns = {c1, c2}
    None = None
    MaxUpdates = 2
INVARIANT StaleRoutesWithdrawn
CHECK_DEADLOCK FALSE
