------------------------------- MODULE StrictFold -------------------------------
(***************************************************************************)
(* The strict layer walk (ledger-core/src/strict.rs), the pure costing     *)
(* core of a recalc pass: receipts open layers, depletions consume them    *)
(* oldest first (FIFO) or newest first (LIFO), and what no layer covers is *)
(* costed at the depletion's own recorded cost.                            *)
(***************************************************************************)
EXTENDS Numeric, Sequences, SequencesExt

\* One iteration of the walk: draw what is still needed from the next layer.
Draw(acc, layer) ==
    LET take == IF acc.remaining < layer.qty THEN acc.remaining ELSE layer.qty
    IN  [remaining |-> acc.remaining - take,
         value |-> acc.value + take * layer.cost,
         draws |-> IF take = 0 THEN acc.draws
                   ELSE Append(acc.draws, [layer EXCEPT !.qty = take]),
         left |-> IF take = layer.qty THEN acc.left
                  ELSE Append(acc.left, [layer EXCEPT !.qty = @ - take])]

Walk(newest, layers, qty) ==
    LET w == FoldLeft(Draw, [remaining |-> qty, value |-> 0, draws |-> <<>>,
                             left |-> <<>>],
                      IF newest THEN Reverse(layers) ELSE layers)
    IN  [w EXCEPT !.left = IF newest THEN Reverse(@) ELSE @]

\* One event: a receipt becomes the newest layer, a depletion walks.
FoldEvent(newest, st, ev) ==
    IF ev.qty > 0
    THEN [st EXCEPT !.layers = Append(@, ev)]
    ELSE LET w == Walk(newest, st.layers, -ev.qty)
         IN  [layers |-> w.left,
              costings |-> Append(st.costings,
                [dep |-> ev.id, qty |-> -ev.qty, observed |-> ev.cost,
                 auth |-> BankerDiv(w.value + w.remaining * ev.cost, -ev.qty),
                 uncovered |-> w.remaining, draws |-> w.draws])]

strict_fold(newest, opening, events) ==
    FoldLeft(LAMBDA st, ev : FoldEvent(newest, st, ev),
             [layers |-> opening, costings |-> <<>>], events)
================================================================================
