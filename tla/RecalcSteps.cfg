SPECIFICATION Spec
CONSTANTS
    Pools = {1, 2}
    StrictPools = {1}
    MaxPos = 2
    Steppers = {s1}
    Settlers = {}
    Sweepers = {w1}
    Effects = {"moved"}
    Bound = 2
    LowWater = 1
    MaxCrashes = 1
INVARIANTS TypeOK FloorQueued CounterQueued CursorApplied Recoverable
PROPERTIES SettlementForward DrainedToHead
