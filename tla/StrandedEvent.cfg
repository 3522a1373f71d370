SPECIFICATION Spec
CONSTANTS
    Pools = {1}
    StrictPools = {1}
    MaxPos = 3
    Steppers = {s1}
    Settlers = {}
    Sweepers = {}
    Effects = {"none", "moved"}
    Bound = 2
    LowWater = 1
    MaxCrashes = 0
INVARIANT NoStrandedEvent
