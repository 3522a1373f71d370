----------------------------- MODULE MCStagedLedger ----------------------------
(* StagedLedger under small loads: pool 1 is fifo, 2 average, 3 standard;     *)
(* pool 4 has no standard cost.                                               *)
EXTENDS StagedLedger

Line(p, q, c) == [pool |-> p, qty |-> q, cost |-> c]
E(type, lines, doc, issue, durable) ==
    [type |-> type, lines |-> lines, doc |-> doc, issue |-> issue, durable |-> durable, wip |-> {}]
One(p, q, c, doc) == E(IF q > 0 THEN "receipt" ELSE "issue", <<Line(p, q, c)>>, doc, doc, FALSE)
Durable(e) == [e EXCEPT !.durable = TRUE]
Now(s) == [subs |-> <<s>>, linger |-> FALSE]
Later(s) == [subs |-> <<s>>, linger |-> TRUE]
L(env, calls, kinds, slots, queue_) ==
    [env |-> env, calls |-> calls, faults |-> kinds, slots |-> slots, queue |-> queue_]
Both(s, t) == [subs |-> <<s, t>>, linger |-> FALSE]
Complete(lines, doc) == E("complete", lines, doc, 0, FALSE)

MCLoads == <<
    (* 1 an issue submitted under two correlation ids *)
    L(<<One(2, 2, 3, 1), One(2, -1, 0, 2), [One(2, -1, 0, 2) EXCEPT !.doc = 3]>>,
      <<Both(1, 2), Now(3)>>, {"die"}, 3, 2),
    (* 2 the router dies, the caller ends early or late *)
    L(<<One(1, 1, 3, 1)>>, <<Later(1)>>, {"router"}, 1, 2),
    (* 3 an open caller beside a committed one *)
    L(<<One(1, 1, 3, 1), One(1, 1, 5, 2)>>, <<Later(1), Now(2)>>, {"late"}, 2, 1),
    (* 4 restart; a work order whose component stays in stock *)
    L(<<Durable(One(1, 2, 3, 1)), Durable(Complete(<<Line(1, -1, 0), Line(3, 1, 0)>>, 2)), One(2, 1, 1, 3)>>,
      <<Now(1), Now(2), Now(3)>>, {"restart", "unique"}, 2, 2),
    (* 5 a work order with an open caller, short of its second component *)
    L(<<One(1, 2, 3, 1), [Complete(<<Line(2, -1, 0), Line(1, -3, 0), Line(3, 1, 0)>>, 3) EXCEPT !.wip = {9}],
        One(2, 3, 5, 2)>>,
      <<Both(1, 3), Later(2)>>, {"panic", "unique"}, 3, 2),
    (* 6 drain batches that lock in opposite orders *)
    L(<<One(2, 1, 3, 1), One(1, 1, 5, 2), Complete(<<Line(1, -1, 0), Line(2, 1, 0)>>, 3)>>,
      <<Both(1, 2), Now(3)>>, {"deadlock"}, 3, 3),
    (* 7 malformed, and a pipeline that fails *)
    L(<<E("malformed", <<Line(1, 1, 1)>>, 1, 1, FALSE), One(1, 1, 101, 2), One(1, 1, 5, 3)>>,
      <<Both(1, 2), Later(3)>>, {"fail"}, 3, 1),
    (* 8 a full ring, a full queue, no arena *)
    L(<<E("adjust", <<Line(1, 0, 0)>>, 1, 1, FALSE), One(2, 1, 5, 2), One(3, -1, 5, 3), One(4, 1, 1, 4)>>,
      <<Both(1, 2), Both(3, 4)>>, {"arena", "blocks"}, 3, 1)
>>
Symmetry == Permutations(Committers)
================================================================================
