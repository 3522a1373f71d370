SPECIFICATION Spec
CONSTANTS
    Backends = {b1, b2}
    NSlots = 2
    MaxProbe = 2
    RingCap = 2
    BatchMax = 2
    Issues = {i1, i2}
    Qty <- Units
    Layers = {1, 2}
    LayerQty = 1
    PoolLocked = TRUE
    MaxTx = 2
    MaxCalls = 2
    MaxFaults = 1
    MaxRestarts = 1
SYMMETRY Symmetry
INVARIANTS NotOversold OwnResult OncePerIssue 
CHECK_DEADLOCK FALSE
