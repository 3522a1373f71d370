------------------------------- MODULE HArena -------------------------------
(***************************************************************************)
(* The H arenas (h_arena.rs, h_layer_arena.rs, h_batch_fifo.rs): layer     *)
(* residuals change while the batch runs, the group's effective quantity   *)
(* in the pre-commit callback; an abort takes both back.                   *)
(***************************************************************************)
EXTENDS FifoArena

Qty(ops, kind) ==
    FoldLeft(LAMBDA n, op : IF op.kind = kind THEN n + op.qty ELSE n, 0, ops)

\* h_apply_batch_fifo, phases 2 and 3: insert the receipts, create their cells,
\* fetch the group's layers in order.  The cursor runs through all issues of
\* the batch, so they are one demand.
HBegin(b, job) ==
    LET n == Receipts(job.ops, Len(job.ops))
        qty(i) == SelectSeq(job.ops, LAMBDA op : op.kind = "receipt")[i - nextId].qty
        new == [i \in (nextId + 1)..(nextId + n) |-> qty(i)]
    IN /\ job.path = "h"
       /\ be[b].pc \in {"idle", "open"}
       /\ \A o \in Backends : job.key \notin SeenKeys(o) /\ be[o].call.job # job
       /\ nextId + n <= MaxIds
       /\ nextId' = nextId + n
       /\ residual' = Plus(residual, new)
       /\ be' = [be EXCEPT ![b].pc = "walk", ![b].taken = Plus(@, new),
                   ![b].call = [NoCall EXCEPT !.job = job,
                       !.layers = InOrder(DOMAIN SeenRows(b) \cup DOMAIN new),
                       !.need = Qty(job.ops, "issue")],
                   ![b].frames = InTop(b, [Top(b) EXCEPT !.rows = PlusRows(@,
                       [i \in DOMAIN new |-> Row(new[i], new[i], 0)])])]
       /\ UNCHANGED <<balances, bucket, effective, db, worker, environment>>

\* h_layer_decrement: what the cell can give.
HDecrement(i, need) ==
    IF i \notin DOMAIN residual THEN 0
    ELSE IF residual[i] <= 0 THEN 0 ELSE Min({residual[i], need})

\* Phase 4, one decrement: a layer that gave less than was asked is passed over
\* for good.
HTake(b) ==
    LET c == be[b].call
        i == Head(c.layers)
        take == HDecrement(i, c.need)
    IN /\ be[b].pc = "walk" /\ c.need > 0 /\ c.layers # <<>>
       /\ residual' = [j \in DOMAIN residual |->
                          IF j = i THEN residual[j] - take ELSE residual[j]]
       /\ be' = [be EXCEPT ![b].call.need = @ - take,
                   ![b].call.layers = IF take < c.need THEN Tail(@) ELSE @,
                   ![b].call.used = Plus(@, i :> take),
                   ![b].taken = Plus(@, i :> -take)]
       /\ UNCHANGED <<balances, bucket, effective, db, nextId, worker, environment>>

\* Phases 5 to 7, or the serialization failure of a batch that fell short.
HEnd(b) ==
    LET c == be[b].call
        used == [i \in {j \in DOMAIN c.used : c.used[j] > 0} |-> Row(0, 0, c.used[i])]
    IN /\ be[b].pc = "walk" /\ (c.need = 0 \/ c.layers = <<>>)
       /\ be' = IF c.need > 0 THEN [be EXCEPT ![b].pc = "failed"]
                ELSE [be EXCEPT ![b].pc = "open", ![b].call = NoCall,
                        ![b].pending = @ + Qty(c.job.ops, "receipt") - Qty(c.job.ops, "issue"),
                        ![b].frames = InTop(b, [Top(b) EXCEPT
                           !.rows = PlusRows(@, used), !.keys = @ \cup {c.job.key}])]
       /\ UNCHANGED <<balances, bucket, hArenas, db, nextId, worker, environment>>

\* h_xact_pre_commit: the group may not be over-consumed.
HPreCommitFails(b) == effective + be[b].pending < 0

\* hl_xact_abort and h_xact_abort.
HReversed(b) ==
    [i \in DOMAIN residual |->
        residual[i] - (IF i \in DOMAIN be[b].taken THEN be[b].taken[i] ELSE 0)]

HNext ==
    \/ \E b \in Backends : \E job \in Mine(b) : HBegin(b, job)
    \/ \E b \in Backends : HTake(b) \/ HEnd(b)
=============================================================================
