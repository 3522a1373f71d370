----------------------------- MODULE ShmemLedger -----------------------------
(***************************************************************************)
(* The ledger extension as a whole: transactions with savepoints around    *)
(* the write paths, the order of the commit callbacks, the drain worker's  *)
(* tick and a server restart.                                              *)
(*                                                                         *)
(* Where the code leaves its tables and shared memory apart (a tick that   *)
(* does not commit after it stamped its cells, a pending_drain without     *)
(* room, an H batch under a savepoint that is rolled back) a history       *)
(* variable names exactly what was touched.                                *)
(***************************************************************************)
EXTENDS HArena

Init ==
    /\ load \in {Loads[n] : n \in DOMAIN Loads}
    /\ cells = [a \in Accounts |-> EmptyCell]
    /\ applySeq = 0 /\ failures = 0
    /\ bucket = EmptyBucket
    /\ residual = None /\ effective = 0
    /\ db = [keys |-> {}, posted |-> [a \in Accounts |-> 0], layers |-> None,
             rollup |-> [a \in Accounts |-> NoRow]]
    /\ nextId = 0
    /\ be = [b \in Backends |-> IdleBackend]
    /\ worker = IdleWorker
    /\ dropped = None /\ undone = {} /\ leaked = {}
    /\ lost = [a \in Accounts |-> 0]
    /\ ticks = 0 /\ faults = 0 /\ restarts = 0

Shared == <<balances, bucket, db, nextId, worker, environment>>

-----------------------------------------------------------------------------
Savepoint(b) ==
    /\ be[b].pc \in {"idle", "open"}
    /\ Len(be[b].frames) <= load.depth
    /\ \E job \in Mine(b) : job.key \notin SeenKeys(b)
    /\ be' = [be EXCEPT ![b].pc = "open", ![b].frames = Append(@, NewFrame)]
    /\ UNCHANGED <<Shared, hArenas>>

\* fifo_subxact_commit_sub on the one bucket.
MergeShadow(p, c) ==
    IF c = <<>> THEN p ELSE IF p = <<>> THEN c
    ELSE <<[c[1] EXCEPT !.ops = p[1].ops \o @, !.stamp = p[1].stamp \/ @,
                        !.seeds = IF p[1].stamp THEN p[1].seeds ELSE @]>>

\* subxact_commit: the child frame is merged into its parent.
Release(b) ==
    LET n == Len(be[b].frames)
        p == be[b].frames[n - 1]
        c == be[b].frames[n]
        merged == [bal |-> MergeEntries(p.bal, c.bal),
                   shadow |-> MergeShadow(p.shadow, c.shadow),
                   keys |-> p.keys \cup c.keys, posted |-> Plus(p.posted, c.posted),
                   rows |-> PlusRows(p.rows, c.rows), locks |-> p.locks \cup c.locks]
    IN /\ be[b].pc = "open" /\ n > 1
       /\ be' = [be EXCEPT ![b].frames = Append(SubSeq(@, 1, n - 2), merged)]
       /\ UNCHANGED <<Shared, hArenas>>

\* subxact_abort: the frame is dropped.  The H arenas hear nothing of it: their
\* cells and the staged delta stay as they are.
RollbackTo(b) ==
    LET n == Len(be[b].frames)
    IN /\ be[b].pc \in {"open", "failed"} /\ n > 1
       /\ be' = [be EXCEPT ![b].pc = "open", ![b].frames = SubSeq(@, 1, n - 1),
                           ![b].call = NoCall]
       /\ leaked' = IF ~HLoad THEN leaked
                    ELSE leaked \cup DOMAIN Top(b).rows \cup DOMAIN be[b].call.used
       /\ UNCHANGED <<balances, bucket, db, nextId, worker, load, dropped, undone, lost,
                      ticks, faults, restarts, hArenas>>

\* xact_abort and the abort callbacks of the other arenas.
Abort(b) ==
    /\ be' = [be EXCEPT ![b] = IdleBackend]
    /\ residual' = HReversed(b)
    /\ effective' = effective - be[b].group
    /\ UNCHANGED Shared

\* The client's ROLLBACK, an error, or a dying backend.
Rollback(b) == be[b].pc \in {"open", "failed", "seeded", "checked", "walk"} /\ Abort(b)

\* The pre-commit callbacks: the H check, then the capacity check.
PreCommit(b) ==
    /\ be[b].pc = "open" /\ Len(be[b].frames) = 1 /\ Top(b).keys # {}
    /\ IF HPreCommitFails(b) \/ WouldOverflow(b) THEN Abort(b)
       ELSE /\ effective' = effective + be[b].pending
            /\ be' = [be EXCEPT ![b].pc = "precommit", ![b].group = be[b].pending,
                                ![b].pending = 0]
            /\ UNCHANGED <<Shared, residual>>

\* A serialization failure found after the callbacks.
CommitFails(b) ==
    /\ be[b].pc = "precommit" /\ faults < load.faults
    /\ faults' = faults + 1
    /\ be' = [be EXCEPT ![b] = IdleBackend]
    /\ residual' = HReversed(b)
    /\ effective' = effective - be[b].group
    /\ UNCHANGED <<balances, bucket, db, nextId, worker, load, dropped, undone, leaked,
                   lost, ticks, restarts>>

\* The commit record: others see the rows before the callbacks have run.
CommitRecord(b) ==
    LET f == be[b].frames[1]
    IN /\ be[b].pc = "precommit"
       /\ db' = [db EXCEPT !.keys = @ \cup f.keys, !.posted = Plus(@, f.posted),
                           !.layers = PlusRows(@, f.rows)]
       /\ be' = [be EXCEPT ![b].pc = "replay", ![b].group = 0, ![b].taken = None,
                           ![b].frames = <<[f EXCEPT !.keys = {}, !.posted = None,
                                              !.rows = None, !.locks = {}]>>]
       /\ UNCHANGED <<balances, bucket, hArenas, nextId, worker, environment>>

-----------------------------------------------------------------------------
\* The tick's transaction commits.
TickCommit ==
    /\ worker.pc = "commit"
    /\ db' = [db EXCEPT !.rollup = worker.rollup @@ @,
                        !.layers = PlusRows(@, worker.rows)]
    /\ worker' = IdleWorker
    /\ UNCHANGED <<balances, bucket, hArenas, nextId, be, environment>>

\* It fails instead: the rows are rolled back, drained_seq and the emptied
\* pending_drain are not.
TickFails ==
    /\ worker.pc = "commit" /\ faults < load.faults
    /\ faults' = faults + 1
    /\ undone' = undone \cup DOMAIN worker.rollup
    /\ dropped' = Plus(dropped, [i \in DOMAIN worker.rows |-> -worker.rows[i].rem])
    /\ worker' = IdleWorker
    /\ UNCHANGED <<balances, bucket, hArenas, db, nextId, be, load, leaked, lost, ticks,
                   restarts>>

\* Consumed quantities on their way to cost_layers.
Undrained ==
    LET owed(seq) == FoldLeft(LAMBDA f, l : Plus(f, l.id :> l.qty), None, seq)
        replaying == {b \in Backends : be[b].pc = "replay" /\ be[b].frames[1].shadow # <<>>}
        pends(b) == SelectSeq(be[b].frames[1].shadow[1].ops, LAMBDA op : op.op = "pend")
    IN FoldSet(LAMBDA b, f : Plus(f, owed(pends(b))),
               Plus(owed(bucket.pend \o worker.snap),
                    [i \in DOMAIN worker.rows |-> -worker.rows[i].rem]), replaying)

\* Shared memory starts empty; what was not drained is gone.
Restart ==
    /\ restarts < load.restarts
    /\ restarts' = restarts + 1
    /\ cells' = [a \in Accounts |-> EmptyCell]
    /\ applySeq' = 0 /\ bucket' = EmptyBucket
    /\ residual' = None /\ effective' = 0
    /\ be' = [b \in Backends |-> IdleBackend]
    /\ worker' = IdleWorker
    /\ lost' = [a \in Accounts |-> db.posted[a] - db.rollup[a].val]
    /\ dropped' = Plus(dropped, Undrained)
    /\ UNCHANGED <<load, failures, db, nextId, undone, leaked, ticks, faults>>

Next ==
    \/ RollupNext \/ FifoNext \/ HNext
    \/ \E b \in Backends : \/ Savepoint(b) \/ Release(b) \/ RollbackTo(b) \/ Rollback(b)
                           \/ PreCommit(b) \/ CommitFails(b) \/ CommitRecord(b)
    \/ TickCommit \/ TickFails \/ Restart

Spec == Init /\ [][Next]_vars

-----------------------------------------------------------------------------
\* Once no committed transaction has callbacks left to run, the balance served
\* from shared memory, or from the rollup when the cell is not there, is the
\* sum of the committed postings, but for what a restart found undrained: no
\* delta is lost, doubled, or kept from a rolled-back savepoint.
BalancesRight ==
    (\A b \in Backends : ~Applying(b)) /\ failures = 0 =>
        \A a \in Accounts :
            (IF cells[a].occ THEN cells[a].val ELSE db.rollup[a].val)
                = db.posted[a] - lost[a]

\* A cell the drain will not look at again agrees with its rollup row: a
\* sequence number taken after the value was read is never marked drained.
\* Excepted are the cells stamped by a tick that did not commit.
CleanIsDurable ==
    worker.pc = "idle" /\ (\A b \in Backends : be[b].pc \notin {"seq", "max"}) =>
        \A a \in Accounts \ undone :
            cells[a].occ /\ cells[a].last <= cells[a].drained
                => db.rollup[a].val = cells[a].val

OpenRows == FoldSet(LAMBDA b, acc : PlusRows(acc, OwnRows(b)), None, Backends)
Owed(i) ==
    (IF i \in DOMAIN dropped THEN dropped[i] ELSE 0)
    + FoldLeft(LAMBDA n, l : IF l.id = i THEN n + l.qty ELSE n, 0, bucket.pend \o worker.snap)

\* The quantity a layer still has is the same in every account of it.  On the
\* ring path: qty_remaining less what is still owed to the drain is what was
\* received less the recorded depletions, and the ring with the spilled rows
\* holds all of it, as long as one session writes the pool.  In the H arenas the residual is right at every moment,
\* whichever batches commit or abort, but for layers left behind by a
\* savepoint.
LayersReconcile ==
    /\ (\A b \in Backends : ~Applying(b)) /\ ~HLoad /\ OneWriter /\ worker.pc # "commit" =>
        \A i \in DOMAIN db.layers :
            /\ db.layers[i].rem - Owed(i) = db.layers[i].got - db.layers[i].used
            /\ DOMAIN dropped = {} /\ bucket.seeded /\ ~(bucket.over /\ i >= bucket.mark) =>
                 db.layers[i].rem - Owed(i) =
                    FoldLeft(LAMBDA n, l : IF l.id = i THEN n + l.qty ELSE n, 0, bucket.ring)
    /\ HLoad /\ restarts = 0 =>
        LET rows == PlusRows(db.layers, OpenRows)
            taken(i) == FoldSet(LAMBDA b, n :
                            IF i \in DOMAIN be[b].call.used
                            THEN n + be[b].call.used[i] ELSE n, 0, Backends)
        IN \A i \in DOMAIN residual :
             /\ residual[i] >= 0
             /\ i \notin leaked => residual[i] = (IF i \in DOMAIN rows THEN rows[i].got - rows[i].used ELSE 0)
                               - taken(i)

\* Issues deplete strictly first in, first out: no layer is touched while an
\* earlier one has stock, across ring, spill, savepoints and restarts of the
\* drain; and no layer gives more than it got.  On the ring path this is for a
\* pool that one session writes.
StrictFifo ==
    ~HLoad /\ OneWriter /\ DOMAIN dropped = {} =>
        \A i \in DOMAIN db.layers :
            /\ db.layers[i].used <= db.layers[i].got
            /\ db.layers[i].used > 0 =>
                 \A j \in DOMAIN db.layers : j < i => db.layers[j].used = db.layers[j].got
=============================================================================
