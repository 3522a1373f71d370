SPECIFICATION Spec
CONSTANTS
    Subs = {1, 2, 3}
    Pools = {1, 2}
    Lines <- MCLines
    KeyOf <- MCKeys
    OrderSensitive = {1}
    Lingering = {1}
    Committers = {c1, c2}
    NSlots = 2
    NQueue = 2
    BatchMax = 1
    Window = 2
    MaxEjects = 1
    MaxFaults = 1
    MaxTokens = 2
SYMMETRY Symmetry
INVARIANTS OrderKept NothingLost
PROPERTY Refines
CHECK_DEADLOCK FALSE
