------------------------------- MODULE MCHotPath -------------------------------
(* Small loads of the v3.2 write path. *)
EXTENDS HotPath

Pool(method, basis, std) ==
    [method |-> method, basis |-> basis, std |-> std, accounts |-> TRUE, variance |-> TRUE]
\* 1 and 2 strict with locks, 3 WAC, 4 and 5 appends on either basis; the
\* others lack a standard cost, a variance account or posting accounts.
Pools9 == <<Pool("std", "avg", <<2>>), Pool("specific", "avg", <<>>), Pool("wac", "avg", <<>>),
            Pool("fifo", "avg", <<>>), Pool("fifo", "standard", <<3>>),
            Pool("std", "avg", <<>>), [Pool("std", "avg", <<2>>) EXCEPT !.variance = FALSE],
            [Pool("fifo", "avg", <<>>) EXCEPT !.accounts = FALSE],
            Pool("fifo", "standard", <<>>)>>

Line(p, q, c) == [pool |-> p, qty |-> q, cost |-> c]
Sub(key, ls) == [key |-> key, lines |-> ls, decodes |-> TRUE, typed |-> TRUE]
Load(one, two, rows, kinds) ==
    [cfg |-> Pools9, calls |-> [c \in Callers |-> IF c = 1 THEN one ELSE two],
     inbox |-> rows, throttle |-> {4}, faults |-> kinds]

Mixed1 == Sub("a", <<Line(3, 3, 1), Line(1, 2, 3), Line(4, -1, 0)>>)
Mixed2 == Sub("b", <<Line(4, 2, 5), Line(3, -2, 0), Line(3, 0, 7), Line(3, 1, 4), Line(1, -1, 0)>>)

MCLoads == <<
    \* two mixed submissions and a row on the same pools
    Load(<<Mixed1>>, <<Mixed2>>, <<Sub("c", <<Line(3, 2, 2), Line(4, 1, 2)>>)>>, {}),
    \* batches that lock the same append pools in opposite orders
    Load(<<>>, <<>>, <<Sub("a", <<Line(4, 1, 2)>>), Sub("b", <<Line(5, -1, 0)>>),
                       Sub("c", <<Line(5, 2, 4)>>), Sub("d", <<Line(4, -1, 0)>>)>>, {"interrupt"}),
    \* one key by both paths, retried
    Load(<<Sub("a", <<Line(3, 1, 3), Line(4, 1, 1)>>), Sub("a", <<Line(3, 1, 3), Line(4, 1, 1)>>)>>, <<>>,
         <<Sub("a", <<Line(3, 1, 3), Line(4, 1, 1)>>), Sub("b", <<Line(4, -2, 0), Line(3, -1, 0)>>)>>,
         {"abandon", "interrupt"}),
    \* the throttle
    Load(<<Sub("a", <<Line(4, 1, 2)>>)>>, <<>>,
         <<Sub("b", <<Line(4, -1, 0)>>), Sub("c", <<Line(4, 0, 0), Line(5, -2, 0)>>)>>, {"throttle", "abandon"}),
    \* one unit of specific stock
    Load(<<Sub("a", <<Line(2, 1, 4)>>)>>, <<Sub("b", <<Line(2, 1, 5)>>)>>,
         <<Sub("c", <<Line(2, -1, 0)>>), Sub("d", <<Line(2, -1, 0), Line(1, 1, 1)>>)>>, {"abandon"}),
    \* rounding of the WAC average down to empty
    Load(<<Sub("a", <<Line(3, 2, 2)>>)>>, <<Sub("b", <<Line(3, -1, 0)>>)>>,
         <<Sub("c", <<Line(3, 3, 1)>>), Sub("d", <<Line(3, -4, 0)>>)>>, {"abandon"}),
    \* submissions with something wrong
    Load(<<Sub("a", <<Line(6, 1, 1)>>), Sub("b", <<Line(7, 1, 1)>>)>>, <<>>,
         <<[Sub("e", <<>>) EXCEPT !.decodes = FALSE],
           [Sub("f", <<Line(4, 1, 1)>>) EXCEPT !.typed = FALSE]>>, {}),
    Load(<<Sub("c", <<Line(9, -1, 1)>>), Sub("d", <<Line(1, 1, 2), Line(1, 1, 2)>>)>>, <<>>,
         <<Sub("g", <<Line(8, 1, 1)>>), Sub("h", <<Line(10, 1, 1)>>)>>, {}),
    \* a first receipt racing depletions of the pool
    Load(<<Sub("a", <<Line(3, 2, 3), Line(5, 1, 1)>>)>>, <<Sub("b", <<Line(3, -1, 0)>>)>>,
         <<Sub("c", <<Line(5, -2, 0)>>), Sub("d", <<Line(5, 1, -1)>>)>>, {"abandon"})
>>
================================================================================
