------------------------------- MODULE HotMethods ------------------------------
(***************************************************************************)
(* What one line of a submission does to its pool in ledger-v3.2.  STD and *)
(* specific-identification lines are planned by ledger-core on a snapshot  *)
(* and written in bulk; WAC and FIFO/LIFO lines are one SQL statement      *)
(* each.  ledger-core also keeps the WAC planner those statements were     *)
(* derived from.                                                           *)
(*                                                                         *)
(* A pool is its pool_state rows: the aggregate (qty, uc, value), there or *)
(* not, and the layers of a specific pool.  A configuration gives the      *)
(* method, the provisional basis, the standard cost (a sequence of at most *)
(* one), and whether posting accounts and a variance account exist.        *)
(* Overflow is one more error and is left out; account numbers are named   *)
(* for their role.                                                         *)
(***************************************************************************)
EXTENDS Numeric, SequencesExt

NoRow == [there |-> FALSE, qty |-> 0, uc |-> 0, value |-> 0, layers |-> {}]
Aggregate(row, qty, uc, value) ==
    [row EXCEPT !.there = TRUE, !.qty = qty, !.uc = uc, !.value = value]

Output(line, uc) == [pool |-> line.pool, qty |-> line.qty, uc |-> uc]
\* Receipts post the stored pair of accounts, depletions the swapped one.
MainLeg(line, amount) ==
    IF line.qty > 0 THEN [pool |-> line.pool, debit |-> "stock", credit |-> "contra", amount |-> amount]
                    ELSE [pool |-> line.pool, debit |-> "contra", credit |-> "stock", amount |-> amount]

(* A plan in progress: the snapshot (pool to rows), which later lines see  *)
(* as earlier lines left it, and what is to be written.  `made' are the    *)
(* layers to insert, by the index of their line.                           *)
Start(snap) == [ok |-> TRUE, snap |-> snap, lines |-> <<>>, upserts |-> <<>>,
                made |-> <<>>, deleted |-> {}, legs |-> <<>>]
Failed(plan) == [plan EXCEPT !.ok = FALSE]
Planned(plan, line, uc, row, legs) ==
    [plan EXCEPT !.snap[line.pool] = row,
                 !.lines = Append(@, Output(line, uc)),
                 !.upserts = Append(@, [pool |-> line.pool, qty |-> row.qty, uc |-> row.uc, value |-> row.value]),
                 !.legs = @ \o legs]

(* STD: everything at the standard; a receipt's difference from the actual *)
(* cost is a variance against the contra account.                          *)
Variance(line, std) ==
    LET v == line.qty * (line.cost - std)
    IN  IF v = 0 THEN <<>>
        ELSE IF v > 0 THEN <<[pool |-> line.pool, debit |-> "variance", credit |-> "contra", amount |-> v]>>
        ELSE <<[pool |-> line.pool, debit |-> "contra", credit |-> "variance", amount |-> -v]>>

apply_std(cfg, plan, line) ==
    LET row == plan.snap[line.pool]
        qty == row.qty + line.qty
        std == cfg[line.pool].std[1]
        after == Aggregate(row, qty, std, qty * std)
        variance == IF line.qty > 0 THEN Variance(line, std) ELSE <<>>
    IN  IF \/ cfg[line.pool].std = <<>>
           \/ line.qty < 0 /\ qty < 0
           \/ variance # <<>> /\ ~cfg[line.pool].variance
        THEN Failed(plan)
        ELSE Planned(plan, line, std, after, <<MainLeg(line, Abs(line.qty) * std)>> \o variance)

(* Specific identification: one unit per pool.  The layer of a receipt is  *)
(* not put in the snapshot; a depletion takes the oldest layer there and   *)
(* removes all of it.                                                      *)
specific_receipt(plan, line) ==
    LET row == plan.snap[line.pool]
        qty == row.qty + line.qty
        after == Aggregate(row, qty, line.cost, qty * line.cost)
    IN  IF row.qty > 0 THEN Failed(plan)
        ELSE [Planned(plan, line, line.cost, after, <<MainLeg(line, line.qty * line.cost)>>)
              EXCEPT !.made = Append(@, [pool |-> line.pool, index |-> Len(plan.lines) + 1,
                                         qty |-> line.qty, uc |-> line.cost])]

specific_deplete(plan, line) ==
    LET row == plan.snap[line.pool]
        q == Abs(line.qty)
        layer == CHOOSE l \in row.layers : \A o \in row.layers : l.id <= o.id
        qty == IF row.qty > q THEN row.qty - q ELSE 0
        after == [Aggregate(row, qty, row.uc, qty * row.uc) EXCEPT !.layers = @ \ {layer}]
    IN  IF row.layers = {} \/ layer.qty < q THEN Failed(plan)
        ELSE [Planned(plan, line, layer.uc, after, <<MainLeg(line, q * layer.uc)>>)
              EXCEPT !.deleted = @ \cup {<<line.pool, layer>>}]

apply_specific(plan, line) ==
    IF line.qty > 0 THEN specific_receipt(plan, line) ELSE specific_deplete(plan, line)

\* ledger-core's WAC, on an aggregate row; a depletion it rejects is <<>>.
core_wac_receipt(row, line) ==
    LET qty == row.qty + line.qty
        value == row.value + line.qty * line.cost
    IN  [uc |-> line.cost,
         row |-> Aggregate(row, qty, IF qty > 0 THEN BankerDiv(value, qty) ELSE row.uc, value)]

core_wac_deplete(row, line) ==
    LET q == Abs(line.qty)
        qty == row.qty - q
        value == IF qty = 0 THEN 0 ELSE row.value - q * row.uc
    IN  IF row.qty < q THEN <<>>
        ELSE <<[uc |-> row.uc,
                row |-> Aggregate(row, qty, IF qty > 0 THEN BankerDiv(value, qty) ELSE row.uc, value)]>>

apply_wac(row, line) ==
    IF line.qty > 0 THEN <<core_wac_receipt(row, line)>> ELSE core_wac_deplete(row, line)

(* The dispatcher over the lines of the STD and specific pools.            *)
plan_apply(cfg, snap, lines) ==
    FoldLeft(LAMBDA plan, line :
                 IF ~plan.ok THEN plan
                 ELSE IF cfg[line.pool].method = "std" THEN apply_std(cfg, plan, line)
                 ELSE apply_specific(plan, line),
             Start(snap), lines)

(* trx_line CHECKs unit_cost >= 0; an INSERT ... ON CONFLICT DO UPDATE may *)
(* not meet one row twice.                                                 *)
CheckHolds(lines) == \A k \in DOMAIN lines : lines[k].uc >= 0
AtMostOnce(upserts) == \A j, k \in DOMAIN upserts : upserts[j].pool = upserts[k].pool => j = k

(* apply_pool_state_mutations on pool p, whose rows are `row': aggregate,  *)
(* then layers in, then layers out.  Line k of the plan has id first + k.  *)
Mutated(plan, p, row, first) ==
    LET ups == SelectSeq(plan.upserts, LAMBDA u : u.pool = p)
        base == IF ups = <<>> THEN row ELSE Aggregate(row, ups[1].qty, ups[1].uc, ups[1].value)
        new == {[id |-> first + m.index, qty |-> m.qty, uc |-> m.uc] :
                    m \in {n \in ToSet(plan.made) : n.pool = p}}
    IN  [base EXCEPT !.layers = (@ \cup new) \ {d[2] : d \in {e \in plan.deleted : e[1] = p}}]

(* The four statements.  Each gives the cost its line records and the row  *)
(* it leaves, or nothing when the gate of a WAC depletion finds no row or  *)
(* too little.                                                             *)
wac_receipt(row, line) ==
    LET qty == row.qty + line.qty
        value == row.value + line.qty * line.cost
    IN  <<[uc |-> line.cost, row |-> Aggregate(row, qty, SqlBankerDiv(value, qty), value)]>>

\* The average is left as it was.
wac_depleteStale(row, line) ==
    LET qty == row.qty + line.qty
        value == IF qty = 0 THEN 0 ELSE row.value + line.qty * row.uc
    IN  IF ~row.there \/ qty < 0 THEN <<>>
        ELSE <<[uc |-> row.uc, row |-> Aggregate(row, qty, row.uc, value)]>>

wac_deplete(row, line) ==
    LET qty == row.qty + line.qty
        value == row.value + line.qty * row.uc
    IN  IF ~row.there \/ qty < 0 THEN <<>>
        ELSE <<[uc |-> row.uc,
                row |-> Aggregate(row, qty, IF qty > 0 THEN SqlBankerDiv(value, qty) ELSE row.uc,
                                  IF qty = 0 THEN 0 ELSE value)]>>

fl_receipt(row, line) ==
    LET qty == row.qty + line.qty
        value == row.value + line.qty * line.cost
    IN  <<[uc |-> line.cost,
           row |-> Aggregate(row, qty, IF qty > 0 THEN SqlBankerDiv(value, qty) ELSE row.uc, value)]>>

\* `std' is the standard-basis cost, or <<>> for the running average.
fl_deplete(row, line, std) ==
    LET seen == IF std # <<>> THEN std[1] ELSE row.uc
        uc == IF seen > 0 THEN seen ELSE 0
        qty == row.qty + line.qty
        value == row.value + line.qty * uc
    IN  <<[uc |-> uc,
           row |-> Aggregate(row, qty, IF qty > 0 THEN SqlBankerDiv(value, qty) ELSE row.uc,
                             IF row.there /\ qty = 0 THEN 0 ELSE value)]>>

(* dispatch_cte_line; a standard-basis depletion without a standard cost   *)
(* is an error too.                                                        *)
dispatch_cte_line(cfg, row, line) ==
    LET c == cfg[line.pool]
    IN  IF c.method = "wac"
        THEN IF line.qty > 0 THEN wac_receipt(row, line) ELSE wac_deplete(row, line)
        ELSE IF line.qty > 0 THEN fl_receipt(row, line)
        ELSE IF c.basis = "standard" /\ c.std = <<>> THEN <<>>
        ELSE fl_deplete(row, line, IF c.basis = "standard" THEN c.std ELSE <<>>)

Legs(cfg, line, uc) ==
    IF cfg[line.pool].method = "wac" THEN <<MainLeg(line, Abs(line.qty) * uc)>> ELSE <<>>
================================================================================
