----------------------------- MODULE RecalcEngine -----------------------------
(***************************************************************************)
(* The recalc engine (ledger-direct/src/recalc.rs): claim a dirty pool,    *)
(* re-cost its event stream, settle, decide whether the pool stays queued. *)
(* One action per group of statements that share a snapshot or end in a    *)
(* lock wait; a pass is one transaction, or several passes are one         *)
(* transaction for the drains (ledger_settle_pool, the close sweep).       *)
(*                                                                         *)
(* What the fold computes is left to StrictFold: here a pass is the set of *)
(* events its costs reflect, and `effect' says what re-costing a changed   *)
(* set amounted to.  Re-costing an unchanged set writes nothing.           *)
(***************************************************************************)
EXTENDS RecalcStore

Begin(w, p, ins) ==
    worker' = [worker EXCEPT ![w] =
        [IdleWorker(p) EXCEPT !.pc = "claimed",
                              !.claim = settlement[p],
                              !.row = settlement[p],
                              !.fold = folded[p],
                              !.agg = w \in Sweepers,
                              !.inserted = ins]]

\* Mutant: the queue row is read without FOR UPDATE.
ClaimNextUnlocked(w, p) ==
    /\ w \in Steppers
    /\ worker[w].pc = "idle"
    /\ p \in queue
    /\ Begin(w, p, FALSE)
    /\ UNCHANGED <<tables, slot, feed, history>>

\* ledger_recalc_step: SKIP LOCKED over the committed queue rows, then the
\* settlement row read under the lock.  Any unlocked row may be the oldest.
ClaimNext(w, p) ==
    /\ w \in Steppers
    /\ worker[w].pc = "idle"
    /\ p \in queue
    /\ ~QueueRowLocked(p)
    /\ Begin(w, p, FALSE)
    /\ UNCHANGED <<tables, slot, feed, history>>

\* claim_pool: the blocking targeted claim; it creates the queue row of a
\* clean pool and waits for the holder of an existing one, be it a worker or
\* the feed's uncommitted mark.  The close sweep then locks the aggregate.
ClaimPool(w, p) ==
    /\ w \in Settlers \cup Sweepers
    /\ worker[w].pc = "idle"
    /\ ~QueueRowLocked(p)
    /\ p \notin feed.marks
    /\ Begin(w, p, p \notin queue)
    /\ UNCHANGED <<tables, slot, feed, history>>

\* A pool of another method is never re-costed: its mark is dropped.
DropQueueRow(w) ==
    /\ worker[w].pc = "claimed"
    /\ worker[w].pool \notin StrictPools
    /\ worker' = [worker EXCEPT ![w].pc = "decided", ![w].reset = TRUE]
    /\ UNCHANGED <<tables, slot, feed, history>>

\* Mutant: a floor does not force the full replay.
FullReplayFloorBlind(c) == c.frontier = 0

\* Any floor, or no frontier yet, forces the replay from the first event.
FullReplay(c) == c.floor # 0 \/ c.frontier = 0
ScanFrom(c) == IF FullReplay(c) THEN 0 ELSE c.frontier

\* The events the layers reflect after folding `scan' onto checkpoint `f'.
Refold(c, f, scan) ==
    IF scan = {} THEN f ELSE IF FullReplay(c) THEN scan ELSE f \cup scan

Scan(w) ==
    LET me == worker[w]
        scan == {e \in committed[me.pool] : e > ScanFrom(me.claim)}
        new == Refold(me.claim, me.fold, scan)
    IN  /\ me.pc = "claimed"
        /\ me.pool \in StrictPools
        /\ \E eff \in IF new = me.fold THEN {"none"} ELSE Effects :
             worker' = [worker EXCEPT ![w] =
                 [me EXCEPT !.pc = "scanned", !.scan = scan, !.effect = eff,
                            !.fold = new]]
        /\ UNCHANGED <<tables, slot, feed, history>>

\* The new frontier: the last scanned event, else the claimed one.
Frontiers(me) ==
    IF me.scan = {} THEN {me.claim.frontier}
    ELSE {e \in me.scan : \A d \in me.scan : d <= e}

SettledRowKeeping(cur, claim, wrote, frontier) ==
    [gen |-> claim.gen + (IF wrote THEN 1 ELSE 0), frontier |-> frontier,
     floor |-> cur.floor]

\* The settlement row after settle() on its current version.
SettledRow(cur, claim, wrote, frontier) ==
    LET gen == claim.gen + (IF wrote THEN 1 ELSE 0)
    IN  [gen |-> IF cur.gen > gen THEN cur.gen ELSE gen,
         frontier |-> frontier,
         floor |-> IF cur.floor = claim.floor THEN 0 ELSE cur.floor]

\* write_generation, reconcile_aggregate_value and settle.  The aggregate row
\* is locked iff the net delta is nonzero; the settlement row is waited for.
Settle(w) ==
    LET me == worker[w]
        p == me.pool
    IN  /\ me.pc = "scanned"
        /\ \E f \in Frontiers(me) :
             LET cur == IF me.own THEN me.row ELSE settlement[p]
                 row == SettledRow(cur, me.claim, me.effect # "none", f)
             IN  IF f = 0
                 THEN worker' = [worker EXCEPT ![w] =
                        [me EXCEPT !.pc = "settled", !.pending = FALSE]]
                 ELSE /\ feed.floors[p] = 0
                      /\ worker' = [worker EXCEPT ![w] =
                           [me EXCEPT
                              !.pc = "settled", !.row = row, !.own = TRUE,
                              !.pending = row.floor # 0,
                              !.agg = @ \/ me.effect = "moved",
                              !.adjusted = @ \/ me.effect \in {"posted", "moved"}]]
        /\ UNCHANGED <<tables, slot, feed, history>>

\* Mutant: only the settled frontier itself is looked at.
MissedAtFrontier(me) ==
    {e \in committed[me.pool] : e = me.row.frontier /\ e \notin me.scan}

\* decide_queue, first statement: an event that committed mid-pass inside the
\* replayed range lowers the floor (guarded minimum).
Missed(me) ==
    {e \in committed[me.pool] :
        e > ScanFrom(me.claim) /\ e <= me.row.frontier /\ e \notin me.scan}

CheckMissed(w) ==
    LET me == worker[w]
    IN  /\ me.pc = "settled"
        /\ \/ /\ Missed(me) = {}
              /\ worker' = [worker EXCEPT ![w].pc = "checked"]
           \/ \E m \in Missed(me) :
                /\ \A e \in Missed(me) : m <= e
                /\ worker' = [worker EXCEPT ![w] =
                     [me EXCEPT !.pc = "checked", !.pending = TRUE,
                                !.row.floor = IF @ = 0 \/ m < @ THEN m ELSE @]]
        /\ UNCHANGED <<tables, slot, feed, history>>

\* decide_queue, second statement: the tail above the new frontier.
CountTail(w) ==
    LET me == worker[w]
    IN  /\ me.pc = "checked"
        /\ worker' = [worker EXCEPT ![w] =
             [me EXCEPT !.pc = "counted",
                        !.tail = Cardinality({e \in committed[me.pool] :
                                                e > me.row.frontier})]]
        /\ UNCHANGED <<tables, slot, feed, history>>

\* Mutants: only the tail, or even an empty tail, keeps the pool queued.
KeepTailOnly(me) == me.tail > 0
KeepAlways(me) == me.pending \/ me.tail >= 0

Keep(me) == me.pending \/ me.tail > 0

\* Mutants: the counter is reset without its row lock; a drain stops after
\* its first pass.
DecideQueueUnlocked(w) ==
    LET me == worker[w]
    IN  /\ me.pc = "counted"
        /\ worker' = [worker EXCEPT ![w] =
             [me EXCEPT !.pc = "decided", !.reset = TRUE]]
        /\ UNCHANGED <<tables, slot, feed, history>>
DecideQueueOnce(w) ==
    LET me == worker[w]
    IN  /\ me.pc = "counted"
        /\ me.pool \notin feed.bumped
        /\ worker' = [worker EXCEPT ![w] =
             [me EXCEPT !.pc = "decided", !.reset = TRUE]]
        /\ UNCHANGED <<tables, slot, feed, history>>

\* decide_queue, the writes: the counter is reset to the tail (waiting for the
\* feed's bump), the thresholds are applied, the queue row is re-stamped or
\* deleted.  A drain that must keep the row claims again in its transaction.
DecideQueue(w) ==
    LET me == worker[w]
    IN  /\ me.pc = "counted"
        /\ me.pool \notin feed.bumped
        /\ worker' = [worker EXCEPT ![w] =
             IF w \notin Steppers /\ Keep(me)
             THEN [me EXCEPT !.pc = "claimed", !.reset = TRUE,
                             !.claim = IF me.own THEN me.row
                                       ELSE settlement[me.pool]]
             ELSE [me EXCEPT !.pc = "decided", !.reset = TRUE]]
        /\ UNCHANGED <<tables, slot, feed, history>>

\* Mutant: released only below the low-water mark.
ThrottleBelow(p, n) ==
    IF n < LowWater THEN throttled \ {p}
    ELSE IF n >= Bound THEN throttled \cup {p} ELSE throttled

\* The thresholds, applied to a counter just written: engage at the bound,
\* release at the low-water mark.
Throttle(p, n) ==
    IF n <= LowWater THEN throttled \ {p}
    ELSE IF n >= Bound THEN throttled \cup {p} ELSE throttled

\* The transaction commits: its rows become visible, its adjustment lines
\* reach the WAL, its locks go.
CommitPass(w) ==
    LET me == worker[w]
        p == me.pool
    IN  /\ me.pc = "decided"
        /\ settlement' = IF me.own THEN [settlement EXCEPT ![p] = me.row]
                         ELSE settlement
        /\ folded' = [folded EXCEPT ![p] = me.fold]
        /\ backlog' = IF p \in StrictPools THEN [backlog EXCEPT ![p] = me.tail]
                      ELSE backlog
        /\ throttled' = IF p \in StrictPools THEN Throttle(p, me.tail)
                        ELSE throttled
        /\ queue' = IF Keep(me) THEN queue \cup {p} ELSE queue \ {p}
        /\ wal' = IF me.adjusted THEN Append(wal, [pool |-> p, pos |-> 0])
                  ELSE wal
        /\ worker' = [worker EXCEPT ![w] = IdleWorker(p)]
        /\ UNCHANGED <<committed, slot, feed, history>>

\* An error, a deadlock victim or a lost connection: everything rolls back.
AbortPass(w) ==
    /\ worker[w].pc # "idle"
    /\ crashes < MaxCrashes /\ WithinBound
    /\ crashes' = crashes + 1
    /\ worker' = [worker EXCEPT ![w] = IdleWorker(worker[w].pool)]
    /\ UNCHANGED <<tables, slot, feed, raced>>

Work(w) ==
    \/ \E p \in Pools : ClaimNext(w, p)
    \/ \E p \in Pools : ClaimPool(w, p)
    \/ DropQueueRow(w)
    \/ Scan(w)
    \/ Settle(w)
    \/ CheckMissed(w)
    \/ CountTail(w)
    \/ DecideQueue(w)
    \/ CommitPass(w)
=============================================================================
