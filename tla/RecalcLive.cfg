SPECIFICATION FairSpec
CONSTANTS
    Pools = {1}
    StrictPools = {1}
    MaxPos = 2
    Steppers = {s1}
    Settlers = {}
    Sweepers = {}
    Effects = {"none", "moved"}
    Bound = 2
    LowWater = 0
    MaxCrashes = 1
PROPERTIES FloorServed ThrottleReleased EventuallyCosted Quiesces
