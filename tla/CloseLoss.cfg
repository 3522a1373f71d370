SPECIFICATION FairSpec
CONSTANTS
    Pools = {1}
    Strict = {1}
    Dates = {1, 2}
    Calendar <- LongPeriod
    Submitters = {s1}
    Workers = {w1}
    ForceArgs = {FALSE}
    Closer = closer
    Consumer = consumer
    MaxLines = 2
    MaxLosses = 1
    MaxCrashes = 0
INVARIANTS HaltedContradicts 
 
\* With its bound of lines used up and its period closed the system has
\* nothing left to do.
CHECK_DEADLOCK FALSE
