------------------------------ MODULE FifoArena ------------------------------
(***************************************************************************)
(* The FIFO bucket of fifo.rs: batches are applied to a shadow of the      *)
(* bucket, the commit callback replays the shadow's operations on the      *)
(* bucket, and the drain worker takes the consumed quantities off          *)
(* cost_layers.qty_remaining.  Layers that found the ring full are spilled *)
(* and consumed from the table.  A bucket that cannot be had at all, and   *)
(* the inline batch of lib.rs, work on the table alone.                    *)
(***************************************************************************)
EXTENDS ShmemRollup

Layer(i, q) == [id |-> i, qty |-> q]
Op(kind, i, q) == [op |-> kind, id |-> i, qty |-> q]
ArenaFull == load.full

\* consume_from_head, and every walk over cost_layers rows: take qty from the
\* front, keep what is left.
ConsumeFromHead(layers, qty) ==
    FoldLeft(LAMBDA acc, l :
        LET take == Min({acc.need, l.qty})
        IN [need |-> acc.need - take,
            left |-> IF take = l.qty THEN acc.left
                     ELSE Append(acc.left, Layer(l.id, l.qty - take)),
            taken |-> IF take = 0 THEN acc.taken ELSE Append(acc.taken, Layer(l.id, take))],
        [need |-> qty, left |-> <<>>, taken |-> <<>>], layers)

\* The pool's rows with stock left, from an id on, in id order (every receipt
\* carries the same date).
OpenLayers(rows, from) ==
    [n \in DOMAIN Active(rows, from) |->
        Layer(Active(rows, from)[n], rows[Active(rows, from)[n]].rem)]

-----------------------------------------------------------------------------
\* The shadow.

SpillFrom(sh, id) ==
    [sh EXCEPT !.over = TRUE, !.mark = IF @ = 0 THEN id ELSE @,
               !.ops = Append(@, Op("over", id, 0))]

\* fifo_acquire_shadow on the live ring: what an unseeded bucket is missing is
\* pushed as seed operations, up to the first layer that does not fit.
Seed(sh, seeds) ==
    LET fit == MaxLayers - Len(sh.ring)
        n == IF Len(seeds) <= fit THEN Len(seeds) ELSE fit
        first == seeds[n + 1].id
        pushes == [k \in 1..n |-> Op("push", seeds[k].id, seeds[k].qty)]
    IN IF n = Len(seeds)
       THEN [sh EXCEPT !.ring = @ \o seeds, !.seeds = pushes]
       ELSE [sh EXCEPT !.ring = @ \o SubSeq(seeds, 1, n), !.over = TRUE,
                       !.mark = IF @ = 0 THEN first ELSE @,
                       !.seeds = IF sh.over THEN pushes
                                 ELSE Append(pushes, Op("over", first, 0))]

Inherited(sh) == [sh EXCEPT !.stamp = FALSE, !.seeds = <<>>, !.ops = <<>>]

\* fifo_acquire_shadow: this frame's shadow, else the nearest parent's working
\* state, else the live bucket.
AcquireShadow(b) ==
    LET frames == be[b].frames
        with == {i \in DOMAIN frames : frames[i].shadow # <<>>}
        live == [ring |-> bucket.ring, pend |-> bucket.pend, over |-> bucket.over,
                 mark |-> bucket.mark, stamp |-> ~bucket.seeded, seeds |-> <<>>,
                 ops |-> <<>>]
    IN IF Len(frames) \in with THEN frames[Len(frames)].shadow[1]
       ELSE IF with # {} THEN Inherited(frames[Max(with)].shadow[1])
       ELSE IF bucket.seeded THEN live
       ELSE Seed(live, be[b].call.seeds)

\* The slip: room that drains have made in the ring is used while layers
\* received earlier are still spilled.
ReceiptRefill(acc, id, qty) ==
    LET sh == acc.sh
    IN [acc EXCEPT
          !.sh = IF Len(sh.ring) < MaxLayers
                 THEN [sh EXCEPT !.ring = Append(@, Layer(id, qty)),
                                 !.ops = Append(@, Op("push", id, qty))]
                 ELSE IF sh.over THEN sh ELSE SpillFrom(sh, id),
          !.rows = PlusRows(@, id :> Row(qty, qty, 0)), !.net = @ + qty]

\* Phase 8, a receipt: push unless the bucket has overflowed, once and for all.
Receipt(acc, id, qty) ==
    LET sh == acc.sh
    IN [acc EXCEPT
          !.sh = IF sh.over THEN sh
                 ELSE IF Len(sh.ring) = MaxLayers THEN SpillFrom(sh, id)
                 ELSE [sh EXCEPT !.ring = Append(@, Layer(id, qty)),
                                 !.ops = Append(@, Op("push", id, qty))],
          !.rows = PlusRows(@, id :> Row(qty, qty, 0)), !.net = @ + qty]

\* A slice taken off the ring is owed to the drain, or written at the end of
\* the batch when pending_drain is full.
Owe(acc, l) ==
    LET used == [acc EXCEPT !.rows = PlusRows(@, l.id :> Row(0, 0, l.qty))]
    IN IF Len(acc.sh.pend) < PendingCap
       THEN [used EXCEPT !.sh.pend = Append(@, l),
                         !.sh.ops = Append(@, Op("pend", l.id, l.qty))]
       ELSE [used EXCEPT !.inline = Plus(@, l.id :> l.qty)]

\* Slices taken from the table: recorded and written at the end of the batch.
Take(acc, taken) ==
    FoldLeft(LAMBDA x, l :
        [x EXCEPT !.rows = PlusRows(@, l.id :> Row(0, 0, l.qty)),
                  !.inline = Plus(@, l.id :> l.qty)], acc, taken)

\* Phase 8, an issue: what the ring cannot give is left to the spill walk.
Issue(acc, qty) ==
    LET w == ConsumeFromHead(acc.sh.ring, qty)
        sh == [acc.sh EXCEPT !.ring = w.left,
                 !.ops = IF w.need = qty THEN @
                         ELSE Append(@, Op("consume", 0, qty - w.need))]
        owed == FoldLeft(Owe, [acc EXCEPT !.sh = sh, !.net = @ - qty], w.taken)
    IN IF w.need = 0 THEN owed
       ELSE IF ~sh.over THEN [owed EXCEPT !.ok = FALSE]
       ELSE [owed EXCEPT !.spills = Append(@, [need |-> w.need, mark |-> sh.mark])]

\* Phase 8.5: every walk reads the rows as they were before the batch.
SpillWalk(b, acc) ==
    FoldLeft(LAMBDA x, s :
        LET w == ConsumeFromHead(OpenLayers(SeenRows(b), s.mark), s.need)
        IN [Take(x, w.taken) EXCEPT !.ok = x.ok /\ w.need = 0],
        acc, acc.spills)

\* Phase 8.6: a pool without a bucket.
DurableOnly(b, acc, op, id) ==
    IF op.kind = "receipt"
    THEN [acc EXCEPT !.rows = PlusRows(@, id :> Row(op.qty, op.qty, 0)),
                     !.net = @ + op.qty]
    ELSE LET w == ConsumeFromHead(OpenLayers(SeenRows(b), 1), op.qty)
         IN [Take(acc, w.taken) EXCEPT !.ok = acc.ok /\ w.need = 0,
                                       !.net = acc.net - op.qty]

-----------------------------------------------------------------------------
\* A batch.

Receipts(ops, k) == Cardinality({n \in 1..k : ops[n].kind = "receipt"})

\* Phases 2 to 6: not a replay; find or insert the bucket, draw the layer ids,
\* read the rows an unseeded bucket is missing.
Prepare(b, job) ==
    /\ job.path = "ring"
    /\ be[b].pc \in {"idle", "open"}
    /\ job.key \notin SeenKeys(b)
    /\ nextId + Receipts(job.ops, Len(job.ops)) <= MaxIds
    /\ bucket' = IF ArenaFull THEN bucket ELSE [bucket EXCEPT !.occ = TRUE]
    /\ nextId' = nextId + Receipts(job.ops, Len(job.ops))
    /\ be' = [be EXCEPT ![b].pc = "seeded",
                ![b].call = [NoCall EXCEPT !.job = job, !.id = nextId,
                    !.seeds = IF bucket.seeded THEN <<>> ELSE OpenLayers(SeenRows(b), 1)]]
    /\ UNCHANGED <<balances, hArenas, db, worker, environment>>

Applied(b) ==
    LET ops == be[b].call.job.ops
        id(k) == be[b].call.id + Receipts(ops, k)
        start == [sh |-> AcquireShadow(b), rows |-> None, inline |-> None, net |-> 0,
                  spills |-> <<>>, ok |-> TRUE]
    IN SpillWalk(b, FoldLeftDomain(LAMBDA acc, k :
           IF ArenaFull THEN DurableOnly(b, acc, ops[k], id(k))
           ELSE IF ops[k].kind = "receipt" THEN Receipt(acc, id(k), ops[k].qty)
           ELSE Issue(acc, ops[k].qty), start, ops))

\* Phase 9e: qty_remaining - d, which the table's CHECK keeps from going
\* negative.
Written(b, acc) ==
    PlusRows(acc.rows, [i \in DOMAIN acc.inline |-> Row(0, -acc.inline[i], 0)])
CheckHolds(rows) == \A i \in DOMAIN rows : rows[i].rem >= 0

\* Phases 8 and 9: postings, layers, depletions and row updates are the
\* transaction's, the shadow and the balance deltas the backend's.
ApplyBatch(b) ==
    LET acc == Applied(b)
        rows == Written(b, acc)
        f == Top(b)
        key == be[b].call.job.key
    IN /\ be[b].pc = "seeded"
       /\ DOMAIN acc.inline \cap Locked(b) = {}
       /\ \A o \in Backends \ {b} : key \notin SeenKeys(o) \ db.keys
       /\ be' = IF acc.ok /\ key \notin SeenKeys(b) /\ CheckHolds(PlusRows(SeenRows(b), rows))
                THEN [be EXCEPT ![b].pc = "open", ![b].call = NoCall,
                        ![b].frames = InTop(b, [f EXCEPT
                           !.shadow = IF ArenaFull THEN @ ELSE <<acc.sh>>,
                           !.bal = StageLegs(@, acc.net), !.keys = @ \cup {key},
                           !.posted = Plus(@, ("pool" :> acc.net) @@ ("cash" :> -acc.net)),
                           !.rows = PlusRows(@, rows),
                           !.locks = @ \cup DOMAIN acc.inline])]
                ELSE [be EXCEPT ![b].pc = "failed", ![b].call = NoCall]
       /\ UNCHANGED <<balances, bucket, hArenas, db, nextId, worker, environment>>

-----------------------------------------------------------------------------
\* fifo_apply_batch_inline: the replay check, then the account rows and the
\* layers are locked and walked, and everything is written.

AccountLock == 0

InlineCheck(b, job) ==
    /\ job.path = "inline"
    /\ be[b].pc \in {"idle", "open"}
    /\ job.key \notin SeenKeys(b)
    /\ nextId + Receipts(job.ops, Len(job.ops)) <= MaxIds
    /\ be' = [be EXCEPT ![b].pc = "checked", ![b].call = [NoCall EXCEPT !.job = job]]
    /\ UNCHANGED <<balances, bucket, hArenas, db, nextId, worker, environment>>

\* Receipts of the batch itself are on the walked list, behind the rows read.
InlineWalk(b) ==
    LET ops == be[b].call.job.ops
    IN FoldLeftDomain(LAMBDA acc, k :
          IF ops[k].kind = "receipt"
          THEN LET i == nextId + Receipts(ops, k)
               IN [acc EXCEPT !.list = Append(@, Layer(i, ops[k].qty)),
                              !.rows = PlusRows(@, i :> Row(ops[k].qty, ops[k].qty, 0)),
                              !.net = @ + ops[k].qty]
          ELSE LET w == ConsumeFromHead(acc.list, ops[k].qty)
               IN [acc EXCEPT !.list = w.left, !.ok = @ /\ w.need = 0,
                              !.net = @ - ops[k].qty,
                              !.rows = FoldLeft(LAMBDA r, l :
                                  PlusRows(r, l.id :> Row(0, -l.qty, l.qty)), @, w.taken)],
          [list |-> OpenLayers(SeenRows(b), 1), rows |-> None, net |-> 0, ok |-> TRUE], ops)

InlineApply(b) ==
    LET acc == InlineWalk(b)
        f == Top(b)
        key == be[b].call.job.key
    IN /\ be[b].pc = "checked"
       /\ AccountLock \notin Locked(b)
       /\ nextId + Receipts(be[b].call.job.ops, Len(be[b].call.job.ops)) <= MaxIds
       /\ nextId' = nextId + Receipts(be[b].call.job.ops, Len(be[b].call.job.ops))
       /\ be' = IF acc.ok /\ key \notin SeenKeys(b)
                THEN [be EXCEPT ![b].pc = "open", ![b].call = NoCall,
                        ![b].frames = InTop(b, [f EXCEPT
                           !.bal = StageLegs(@, acc.net), !.keys = @ \cup {key},
                           !.posted = Plus(@, ("pool" :> acc.net) @@ ("cash" :> -acc.net)),
                           !.rows = PlusRows(@, acc.rows),
                           !.locks = @ \cup {AccountLock}])]
                ELSE [be EXCEPT ![b].pc = "failed", ![b].call = NoCall]
       /\ UNCHANGED <<balances, bucket, hArenas, db, worker, environment>>

-----------------------------------------------------------------------------
\* Commit and drain.

\* fifo_replay_op.
ReplayOp(bk, op) ==
    CASE op.op = "push" /\ Len(bk.ring) < MaxLayers ->
            [bk EXCEPT !.ring = Append(@, Layer(op.id, op.qty))]
      [] op.op = "consume" -> [bk EXCEPT !.ring = ConsumeFromHead(@, op.qty).left]
      [] op.op = "pend" ->
            IF Len(bk.pend) < PendingCap
            THEN [bk EXCEPT !.pend = Append(@, Layer(op.id, op.qty))] ELSE bk
      [] OTHER -> [bk EXCEPT !.over = TRUE, !.mark = IF @ = 0 THEN op.id ELSE @]

Replayed(sh) ==
    LET seeded == IF sh.stamp /\ ~bucket.seeded
                  THEN [FoldLeft(ReplayOp, bucket, sh.seeds) EXCEPT !.seeded = TRUE]
                  ELSE bucket
    IN FoldLeft(ReplayOp, seeded, sh.ops)

\* The pending_drain entries of a sequence that no longer fit.
Overflowing(entries) ==
    FoldLeft(LAMBDA f, l : Plus(f, l.id :> l.qty), None,
        SubSeq(entries, Max({1, PendingCap - Len(bucket.pend) + 1}), Len(entries)))

\* fifo_xact_commit.
Replay(b) ==
    /\ be[b].pc = "replay"
    /\ IF be[b].frames[1].shadow = <<>> THEN UNCHANGED <<bucket, applySeq, dropped>>
       ELSE /\ applySeq' = applySeq + 1
            /\ dropped' = Plus(dropped, Overflowing(SelectSeq(
                   be[b].frames[1].shadow[1].ops, LAMBDA op : op.op = "pend")))
            /\ bucket' = [Replayed(be[b].frames[1].shadow[1]) EXCEPT !.last = applySeq + 1]
    /\ be' = [be EXCEPT ![b].pc = "cells", ![b].work = be[b].frames[1].bal,
                        ![b].frames = <<NewFrame>>]
    /\ UNCHANGED <<cells, failures, hArenas, db, nextId, worker, load, undone, leaked, lost,
                   ticks, faults, restarts>>

\* do_fifo_drain_tick up to the snapshot of the bucket's pending_drain.
FifoSnap ==
    /\ worker.pc = "fifo"
    /\ IF DirtyBucket
       THEN /\ worker' = [worker EXCEPT !.pc = "update", !.snap = bucket.pend,
                                        !.snapSeq = bucket.last]
            /\ bucket' = [bucket EXCEPT !.pend = <<>>]
       ELSE worker' = [worker EXCEPT !.pc = "commit"] /\ UNCHANGED bucket
    /\ UNCHANGED <<balances, hArenas, db, nextId, be, environment>>

Drained ==
    FoldLeft(LAMBDA acc, l : PlusRows(acc, l.id :> Row(0, -l.qty, 0)), None, worker.snap)

\* The UPDATE, and drained_seq.
FifoUpdate ==
    /\ worker.pc = "update"
    /\ DOMAIN Drained \cap UNION {UNION {be[b].frames[i].locks : i \in DOMAIN be[b].frames}
                                    : b \in Backends} = {}
    /\ CheckHolds(PlusRows(db.layers, Drained))
    /\ worker' = [worker EXCEPT !.pc = "commit", !.rows = Drained, !.snap = <<>>]
    /\ bucket' = [bucket EXCEPT !.drained = Max({@, worker.snapSeq})]
    /\ UNCHANGED <<balances, hArenas, db, nextId, be, environment>>

\* The slip: a failed UPDATE's entries are not put back.
RestageNone(snap) == bucket

\* What a failed UPDATE puts back, as far as there is room.
Restage(snap) ==
    FoldLeft(LAMBDA bk, l : ReplayOp(bk, Op("pend", l.id, l.qty)), bucket, snap)

FifoUpdateFails ==
    /\ worker.pc = "update"
    /\ worker.snap # <<>>
    /\ faults < load.faults \/ ~CheckHolds(PlusRows(db.layers, Drained))
    /\ faults' = IF faults < load.faults THEN faults + 1 ELSE faults
    /\ worker' = [worker EXCEPT !.pc = "commit", !.snap = <<>>]
    /\ bucket' = Restage(worker.snap)
    /\ dropped' = Plus(dropped, Overflowing(worker.snap))
    /\ UNCHANGED <<balances, hArenas, db, nextId, be, load, undone, leaked, lost, ticks,
                   restarts>>

FifoNext ==
    \/ \E b \in Backends : \E job \in Mine(b) : Prepare(b, job) \/ InlineCheck(b, job)
    \/ \E b \in Backends : ApplyBatch(b) \/ InlineApply(b) \/ Replay(b)
    \/ FifoSnap \/ FifoUpdate \/ FifoUpdateFails
=============================================================================
