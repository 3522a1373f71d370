------------------------------- MODULE StagedPlan ------------------------------
(***************************************************************************)
(* How a committer of queue-extension-v21 costs one superbatch: the events *)
(* of each envelope, the three cost methods on an in-memory snapshot of    *)
(* the pools, and the rollback of an envelope one of whose events fails.   *)
(* Rows kept for the audit trail alone (sequence numbers, account numbers, *)
(* layers that the average and standard methods never read) are left out.  *)
(***************************************************************************)
EXTENDS Integers, Sequences, FiniteSets, SequencesExt

CONSTANTS Pools, FifoPools, AvgPools,  \* the others are costed at standard
          StandardCost,  \* of every pool but those of NoStandard, which have no row
          NoStandard,
          MaxInt         \* largest amount: i64::MAX in the code

(* sku_method_assignments.                                                 *)
Method(p) == IF p \in FifoPools THEN "fifo" ELSE IF p \in AvgPools THEN "avg" ELSE "std"

Stride == 100   \* ISSUE_ID_COMPONENT_STRIDE, scaled down

(* A pool's rows: layers as written, with what the depletions leave of     *)
(* each; avg_pool_state; the sums of posting_line_inventory and of the     *)
(* postings to the inventory account.  order is the hydrated layer order.  *)
EmptyPool == [layers |-> <<>>, order |-> <<>>, avgQty |-> 0, avgCost |-> 0,
              onhand |-> 0, value |-> 0]

(* expand_wo_complete_payload: a wo_complete is its components, as issues, *)
(* and then its output, with issue ids derived from the document.          *)
Expand(env) ==
    [i \in DOMAIN env.lines |->
        [pool |-> env.lines[i].pool, qty |-> env.lines[i].qty, cost |-> env.lines[i].cost,
         complete |-> TRUE,
         issue |-> env.doc * Stride + (IF env.lines[i].qty < 0 THEN i - 1 ELSE Stride - 1)]]

(* read_event_from_staging: every other envelope is one event.             *)
Events(env) ==
    IF env.type = "complete" THEN Expand(env)
    ELSE << [pool |-> env.lines[1].pool, qty |-> env.lines[1].qty, cost |-> env.lines[1].cost,
             complete |-> FALSE, issue |-> env.issue] >>

(* hydrate_fifo_layers: what is left, oldest first.  Births are compared   *)
(* by the second, then by birth order.                                     *)
Hydrate(pool) ==
    LET open == {i \in DOMAIN pool.layers : pool.layers[i].left > 0}
        Older(i, j) == \/ pool.layers[i].at < pool.layers[j].at
                       \/ pool.layers[i].at = pool.layers[j].at /\ i < j
    IN  [pool EXCEPT !.order = SetToSortSeq(open, Older)]

Fits(amount) == amount <= MaxInt
Fail(acc) == [acc EXCEPT !.ok = FALSE]
Post(pool, qty, amount) == [pool EXCEPT !.onhand = @ + qty, !.value = @ + amount]

(* FifoMethod::emit_layer.                                                 *)
EmitLayer(acc, e, at) ==
    LET b == acc.snap[e.pool]
        born == [b EXCEPT !.layers = Append(@, [left |-> e.qty, cost |-> e.cost, at |-> at]),
                          !.order = Append(@, Len(b.layers) + 1)]
    IN  IF ~Fits(e.qty * e.cost) THEN Fail(acc)
        ELSE [acc EXCEPT !.snap[e.pool] = Post(born, e.qty, e.qty * e.cost)]

(* FifoMethod::deplete: walk the layers until the quantity is covered.     *)
Walk(b, need) ==
    FoldLeft(LAMBDA w, i :
                LET take == IF w.need < w.layers[i].left THEN w.need ELSE w.layers[i].left
                IN  [need |-> w.need - take,
                     cost |-> w.cost + take * w.layers[i].cost,
                     layers |-> [w.layers EXCEPT ![i].left = @ - take],
                     taken |-> IF take > 0 THEN w.taken \cup {i} ELSE w.taken],
             [need |-> need, cost |-> 0, layers |-> b.layers, taken |-> {}], b.order)

Deplete(acc, e) ==
    LET b == acc.snap[e.pool]
        w == Walk(b, -e.qty)
    IN  IF w.need > 0 \/ ~Fits(w.cost) THEN Fail(acc)
        ELSE [acc EXCEPT !.snap[e.pool] = Post([b EXCEPT !.layers = w.layers], e.qty, -w.cost),
                         !.spent = @ + w.cost,
                         !.rows = @ \o SetToSeq({<<e.issue, "fifo", e.pool, i>> : i \in w.taken})]

(* AvgMethod::roll_in and consume; the average is cut down to an integer.  *)
RollIn(acc, e) ==
    LET b == acc.snap[e.pool]
        qty == b.avgQty + e.qty
    IN  IF ~Fits(e.qty * e.cost) THEN Fail(acc)
        ELSE [acc EXCEPT !.snap[e.pool] =
                Post([b EXCEPT !.avgQty = qty,
                               !.avgCost = (b.avgQty * b.avgCost + e.qty * e.cost) \div qty],
                     e.qty, e.qty * e.cost)]

Consume(acc, e) ==
    LET b == acc.snap[e.pool]
        cost == -e.qty * b.avgCost
    IN  IF b.avgQty < -e.qty \/ ~Fits(cost) THEN Fail(acc)
        ELSE [acc EXCEPT !.snap[e.pool] = Post([b EXCEPT !.avgQty = @ + e.qty], e.qty, -cost),
                         !.spent = @ + cost,
                         !.rows = Append(@, <<e.issue, "avg", 0, 0>>)]

(* hydrate_standard_costs.                                                 *)
HasStandard(p) == p \notin NoStandard

(* StandardMethod: the output of a work order is received at    *)
(* what it cost, everything else moves at the standard cost.               *)
AtStandard(acc, e) ==
    LET output == e.complete /\ e.qty > 0
        cost == IF output THEN e.cost ELSE StandardCost
    IN  IF ~output /\ ~HasStandard(e.pool) THEN Fail(acc)
        ELSE [acc EXCEPT !.snap[e.pool] = Post(@, e.qty, e.qty * cost),
                         !.spent = IF e.qty < 0 THEN @ - e.qty * cost ELSE @,
                         !.rows = IF e.qty < 0 THEN Append(@, <<e.issue, "std", 0, 0>>) ELSE @]

(* apply_one of the pool's method.  The output of a work order is priced   *)
(* at what its components cost; an adjustment of nothing moves nothing.    *)
ApplyOne(acc, event, at) ==
    LET e == IF event.complete /\ event.qty > 0
             THEN [event EXCEPT !.cost = acc.spent \div event.qty] ELSE event
        m == Method(e.pool)
    IN  IF ~acc.ok THEN acc
        ELSE IF m = "std" THEN AtStandard(acc, e)
        ELSE IF e.qty = 0 THEN acc
        ELSE IF m = "avg" THEN (IF e.qty > 0 THEN RollIn(acc, e) ELSE Consume(acc, e))
        ELSE IF e.qty > 0 THEN EmitLayer(acc, e, at) ELSE Deplete(acc, e)

(* Several copies of one envelope in one superbatch share its correlation  *)
(* id and so form one group, their events sorted by sub-priority.          *)
Group(env, copies) ==
    FlattenSeq([i \in DOMAIN env.lines |-> [k \in 1..copies |-> Events(env)[i]]])

(* Mutant: a failed envelope leaves its mark on the average state.         *)
DispatchNoRollback(plan, env, copies, at, sub) ==
    LET end == FoldLeft(LAMBDA acc, e : ApplyOne(acc, e, at),
                        [snap |-> plan.snap, ok |-> TRUE, spent |-> 0, rows |-> <<>>],
                        Group(env, copies))
    IN  IF end.ok THEN [plan EXCEPT !.snap = end.snap, !.rows = @ \o end.rows,
                                    !.done = @ \o [k \in 1..copies |-> sub]]
        ELSE [plan EXCEPT !.failed = @ \cup {sub},
                          !.snap = [p \in DOMAIN @ |-> [@[p] EXCEPT !.avgQty = end.snap[p].avgQty]]]

(* One envelope: all of its events, or the snapshot it started from.       *)
Dispatch(plan, env, copies, at, sub) ==
    LET end == FoldLeft(LAMBDA acc, e : ApplyOne(acc, e, at),
                        [snap |-> plan.snap, ok |-> TRUE, spent |-> 0, rows |-> <<>>],
                        Group(env, copies))
    IN  IF end.ok THEN [plan EXCEPT !.snap = end.snap, !.rows = @ \o end.rows,
                                    !.done = @ \o [k \in 1..copies |-> sub]]
        ELSE [plan EXCEPT !.failed = @ \cup {sub}]

(* The pools' rows agree with each other, method by method: the layers,    *)
(* or the running average, account for every unit on hand and for its      *)
(* posted value.  An average is cut down, never up.                        *)
PoolReconciles(p, b) ==
    LET Sum(f(_)) == FoldLeft(LAMBDA x, l : x + f(l), 0, b.layers)
    IN  CASE Method(p) = "fifo" -> /\ b.onhand = Sum(LAMBDA l : l.left)
                                   /\ b.value = Sum(LAMBDA l : l.left * l.cost)
                                   /\ \A i \in DOMAIN b.layers : b.layers[i].left >= 0
          [] Method(p) = "avg" -> /\ b.onhand = b.avgQty
                                  /\ b.onhand >= 0
                                  /\ b.value >= b.avgQty * b.avgCost
          [] OTHER -> TRUE
================================================================================
