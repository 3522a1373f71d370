SPECIFICATION Spec
CONSTANTS
    b1 = b1
    b2 = b2
    Backends = {b1, b2}
    Loads <- MCLoads
    NBuckets = 2
    MaxLayers = 2
    PendingCap = 2
    MaxIds = 4
INVARIANTS BalancesRight CleanIsDurable  
CHECK_DEADLOCK FALSE
