SPECIFICATION Spec
CONSTANTS
    Committers = {c1, c2}
    Loads <- MCLoads
    Pools = {1, 2, 3, 4}
    FifoPools = {1}
    AvgPools = {2}
    StandardCost = 2
    NoStandard = {4}
    MaxInt = 100
    BatchMax = 2
    Window = 3
    StarveLimit = 1
    DrainBatch = 2
    MaxEjects = 1
    PerSecond = 2
SYMMETRY Symmetry
INVARIANTS    Reconciled
CHECK_DEADLOCK FALSE
