SPECIFICATION Spec
CONSTANTS
    Pools = {1, 2}
    Strict = {1}
    Dates = {1, 2, 3}
    Calendar <- LatePeriods
    Submitters = {s1}
    Workers = {w1}
    ForceArgs = {FALSE, TRUE}
    Closer = closer
    Consumer = consumer
    MaxLines = 2
    MaxLosses = 0
    MaxCrashes = 1
INVARIANTS   GuardSilent
PROPERTY ClosedStands
\* With its bound of lines used up the system has nothing left to do.
CHECK_DEADLOCK FALSE
