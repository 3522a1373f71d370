----------------------------- MODULE ShmemRollup -----------------------------
(***************************************************************************)
(* The balance cells of lib.rs: deltas are staged in the transaction's     *)
(* frames, applied by the commit callback after the transaction is         *)
(* durable, and copied to account_balances_rollup by the drain worker.     *)
(***************************************************************************)
EXTENDS ShmemState

\* stage_apply: a first delta for an account captures the rollup row the
\* cell will start from if it does not exist yet when the commit applies it.
StageApply(bal, a, d) ==
    IF a \in DOMAIN bal THEN [bal EXCEPT ![a].delta = @ + d]
    ELSE bal @@ (a :> [delta |-> d,
                       seed |-> IF cells[a].occ THEN NoRow ELSE db.rollup[a]])

\* The legs of a posting: the pool's account and the one it is posted against.
StageLegs(bal, d) == StageApply(StageApply(bal, "pool", d), "cash", -d)

\* merge_entry over a whole frame: deltas add up, the first seed stays.
MergeEntries(into, from) ==
    [a \in DOMAIN into \cup DOMAIN from |->
        IF a \notin DOMAIN into THEN from[a]
        ELSE IF a \notin DOMAIN from THEN into[a]
        ELSE [into[a] EXCEPT !.delta = @ + from[a].delta]]

\* probe_shmem_pool: the pool as the WAC dispatcher sees it.
ProbePool == IF cells["pool"].occ THEN cells["pool"].val ELSE 0

\* ledger_dispatch_wac_batch / ledger_apply_batch: price every envelope against
\* the probed pool, then stage the legs and insert the posting lines.
DispatchDelta(b, job) ==
    LET run == FoldLeft(LAMBDA acc, op :
                  IF op.kind = "receipt" THEN [acc EXCEPT !.qty = @ + op.qty]
                  ELSE [qty |-> acc.qty - op.qty,
                        ok |-> acc.ok /\ op.qty <= acc.qty],
                  [qty |-> ProbePool, ok |-> TRUE], job.ops)
        net == run.qty - ProbePool
        f == Top(b)
    IN /\ job.path = "delta"
       /\ be[b].pc \in {"idle", "open"}
       /\ job.key \notin SeenKeys(b)
       /\ \A o \in Backends \ {b} : job.key \notin SeenKeys(o) \ db.keys
       /\ IF ~run.ok THEN be' = [be EXCEPT ![b].pc = "failed"]
          ELSE be' = [be EXCEPT ![b].pc = "open",
                        ![b].frames = InTop(b, [f EXCEPT
                           !.bal = StageLegs(@, net),
                           !.keys = @ \cup {job.key},
                           !.posted = Plus(@, ("pool" :> net) @@ ("cash" :> -net))])]
       /\ UNCHANGED <<balances, bucket, hArenas, db, nextId, worker, environment>>

-----------------------------------------------------------------------------
\* The commit callback.

\* Backends inside the shared-lock pass, and the worker inside its scan.
Sharers == {b \in Backends : be[b].pc \in {"seq", "max"}}
Occupied == Cardinality({a \in Accounts : cells[a].occ})

\* xact_pre_commit: the new cells would not fit.
WouldOverflow(b) ==
    LET new == {a \in UNION {DOMAIN be[b].frames[i].bal : i \in DOMAIN be[b].frames}
                  : ~cells[a].occ}
    IN new # {} /\ Occupied + Cardinality(new) > NBuckets

\* xact_commit under the shared lock: add the delta to an existing cell, or
\* leave the account for the insert pass.
ApplyCell(b) ==
    /\ be[b].pc = "cells"
    /\ DOMAIN be[b].work # {}
    /\ LET a == SelectSeq(AccountSeq, LAMBDA x : x \in DOMAIN be[b].work)[1]
            e == be[b].work[a]
            rest == [x \in DOMAIN be[b].work \ {a} |-> be[b].work[x]]
        IN IF cells[a].occ
           THEN /\ cells' = [cells EXCEPT ![a].val = @ + e.delta]
                /\ be' = [be EXCEPT ![b].work = rest, ![b].pc = "seq", ![b].at = a]
           ELSE /\ be' = [be EXCEPT ![b].work = rest, ![b].ins = @ @@ (a :> e)]
                /\ UNCHANGED cells
    /\ UNCHANGED <<applySeq, failures, bucket, hArenas, db, nextId, worker, environment>>

\* try_update_existing: next_seq() after the add ...
TakeSeq(b) ==
    /\ be[b].pc = "seq"
    /\ applySeq' = applySeq + 1
    /\ be' = [be EXCEPT ![b].seq = applySeq + 1, ![b].pc = "max"]
    /\ UNCHANGED <<cells, failures, bucket, hArenas, db, nextId, worker, environment>>

\* ... and last_seq.fetch_max(seq).
StampLast(b) ==
    /\ be[b].pc = "max"
    /\ cells' = [cells EXCEPT ![be[b].at].last = Max({@, be[b].seq})]
    /\ be' = [be EXCEPT ![b].pc = "cells", ![b].at = "none", ![b].seq = 0]
    /\ UNCHANGED <<applySeq, failures, bucket, hArenas, db, nextId, worker, environment>>

\* The slip: the seed captured at staging time is not used.
InsertUnseeded(s, a, e) ==
    IF s.cells[a].occ
    THEN [s EXCEPT !.seq = @ + 1, !.cells[a].val = @ + e.delta,
                   !.cells[a].last = s.seq + 1]
    ELSE [s EXCEPT !.seq = @ + 1,
                   !.cells[a] = [occ |-> TRUE, val |-> e.delta,
                                 last |-> s.seq + 1, drained |-> 0]]

\* insert_new_seeded, with the re-probe its caller makes first.
InsertSeeded(s, a, e) ==
    IF s.cells[a].occ
    THEN [s EXCEPT !.seq = @ + 1, !.cells[a].val = @ + e.delta,
                   !.cells[a].last = s.seq + 1]
    ELSE IF Cardinality({x \in Accounts : s.cells[x].occ}) >= NBuckets
    THEN [s EXCEPT !.failures = @ + 1]
    ELSE LET seq == Max({s.seq, e.seed.seq}) + 1
         IN [s EXCEPT !.seq = seq,
                      !.cells[a] = [occ |-> TRUE, val |-> e.seed.val + e.delta,
                                    last |-> seq, drained |-> e.seed.seq]]

\* The insert pass, under the exclusive lock from start to end.
InsertCells(b) ==
    LET todo == SelectSeq(AccountSeq, LAMBDA a : a \in DOMAIN be[b].ins)
        s == FoldLeft(LAMBDA acc, a : InsertSeeded(acc, a, be[b].ins[a]),
                      [cells |-> cells, seq |-> applySeq, failures |-> failures], todo)
    IN /\ be[b].pc = "cells"
       /\ DOMAIN be[b].work = {}
       /\ todo # <<>> => Sharers = {} /\ worker.pc \notin {"scan", "val", "post"}
       /\ cells' = s.cells /\ applySeq' = s.seq /\ failures' = s.failures
       /\ be' = [be EXCEPT ![b] = IdleBackend]
       /\ UNCHANGED <<bucket, hArenas, db, nextId, worker, environment>>

-----------------------------------------------------------------------------
\* The worker's half of a tick: do_drain_tick.

DirtyCell(a) == cells[a].occ /\ cells[a].last > cells[a].drained
DirtyBucket == bucket.occ /\ bucket.last > bucket.drained

TickStart ==
    /\ worker.pc = "idle"
    /\ ticks < load.ticks
    /\ ticks' = ticks + 1
    /\ DirtyBucket \/ \E a \in Accounts : DirtyCell(a)
    /\ worker' = [worker EXCEPT !.pc = "scan", !.i = 1]
    /\ UNCHANGED <<balances, bucket, hArenas, db, nextId, be, load, dropped, undone,
                   leaked, lost, faults, restarts>>

\* The scan of one bucket reads last_seq, the value, and last_seq again.
ScanPre ==
    /\ worker.pc = "scan"
    /\ worker' =
         IF worker.i > Len(AccountSeq) THEN [worker EXCEPT !.pc = "upsert", !.i = 0]
         ELSE IF DirtyCell(AccountSeq[worker.i])
         THEN [worker EXCEPT !.pc = "val", !.pre = cells[AccountSeq[worker.i]].last]
         ELSE [worker EXCEPT !.i = @ + 1]
    /\ UNCHANGED <<balances, bucket, hArenas, db, nextId, be, environment>>

ScanVal ==
    /\ worker.pc = "val"
    /\ worker' = [worker EXCEPT !.pc = "post", !.val = cells[AccountSeq[worker.i]].val]
    /\ UNCHANGED <<balances, bucket, hArenas, db, nextId, be, environment>>

ScanPost ==
    LET a == AccountSeq[worker.i]
    IN /\ worker.pc = "post"
       /\ worker' = [worker EXCEPT !.pc = "scan", !.i = @ + 1, !.pre = 0, !.val = 0,
                       !.dirty = IF cells[a].last # worker.pre THEN @
                                 ELSE @ @@ (a :> [val |-> worker.val, seq |-> worker.pre])]
       /\ UNCHANGED <<balances, bucket, hArenas, db, nextId, be, environment>>

\* The slip: a cell whose upsert failed is stamped as drained too.
StampAll(upserted, dirty) == DOMAIN dirty

\* The cells stamp_drained is called for.
Succeeded(upserted, dirty) == upserted

\* One upsert per dirty cell, each caught on its own; then drained_seq is
\* raised to the sequence number captured by the scan.
Upsert ==
    /\ worker.pc = "upsert"
    /\ \E ok \in SUBSET DOMAIN worker.dirty :
        LET failed == DOMAIN worker.dirty \ ok
            written == {a \in ok : db.rollup[a].seq < worker.dirty[a].seq}
        IN /\ faults + Cardinality(failed) <= load.faults
           /\ faults' = faults + Cardinality(failed)
           /\ worker' = [worker EXCEPT !.pc = "fifo", !.dirty = None,
                           !.rollup = [a \in written |-> worker.dirty[a]]]
           /\ cells' = [a \in Accounts |->
                 IF a \in Succeeded(ok, worker.dirty)
                 THEN [cells[a] EXCEPT !.drained = Max({@, worker.dirty[a].seq})]
                 ELSE cells[a]]
    /\ UNCHANGED <<applySeq, failures, bucket, hArenas, db, nextId, be,
                   load, dropped, undone, leaked, lost, ticks, restarts>>

RollupNext ==
    \/ \E b \in Backends : \E job \in Mine(b) : DispatchDelta(b, job)
    \/ \E b \in Backends : ApplyCell(b) \/ TakeSeq(b) \/ StampLast(b) \/ InsertCells(b)
    \/ TickStart \/ ScanPre \/ ScanVal \/ ScanPost \/ Upsert
=============================================================================
