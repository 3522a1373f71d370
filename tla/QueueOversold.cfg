SPECIFICATION Spec
CONSTANTS
    Backends = {b1, b2}
    NSlots = 2
    MaxProbe = 2
    RingCap = 2
    BatchMax = 2
    Issues = {i1, i2}
    Qty <- Units
    Layers = {1, 2}
    LayerQty = 1
    PoolLocked = FALSE
    MaxTx = 2
    MaxCalls = 2
    MaxFaults = 0
    MaxRestarts = 0
SYMMETRY Symmetry
INVARIANT NotOversold
CHECK_DEADLOCK FALSE
