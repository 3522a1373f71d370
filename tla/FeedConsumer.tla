----------------------------- MODULE FeedConsumer -----------------------------
(***************************************************************************)
(* The feed consumer (ledger-feed/src/consumer.rs): anchor, peek, apply,   *)
(* advance.  Apply is one transaction of three multi-row statements, each  *)
(* modelled as its snapshot followed by one step per row, because a row    *)
(* step may wait for a worker's lock while earlier rows stay locked.       *)
(***************************************************************************)
EXTENDS RecalcStore, Integers

Batch == (cursor + 1)..feed.upto

BatchPools == {wal[i].pool : i \in Batch}

\* The physical events of pool p in the batch (adjustment lines filtered).
Physical(p) == {i \in Batch : wal[i].pool = p /\ wal[i].pos # 0}
Positions(p) == {wal[i].pos : i \in Physical(p)}

\* ingest_once: the WAL position is read before the peek.
FeedAnchor ==
    /\ feed.pc = "idle"
    /\ feed' = [feed EXCEPT !.pc = "anchored", !.anchor = Len(wal)]
    /\ UNCHANGED <<tables, slot, worker, history>>

\* peek: a prefix of what lies beyond the cursor, cut between transactions;
\* with nothing to deliver the anchor becomes the advance target.
FeedPeek ==
    /\ feed.pc = "anchored"
    /\ \/ /\ Len(wal) = cursor
          /\ feed' = [feed EXCEPT !.pc = "applied", !.upto = feed.anchor]
       \/ \E n \in (cursor + 1)..Len(wal) :
            feed' = [feed EXCEPT !.pc = "peeked", !.upto = n, !.anchor = 0]
    /\ UNCHANGED <<tables, slot, worker, history>>

\* The WHERE clause of the floor UPDATE, on one version of the row.
Backdates(m, row) ==
    /\ row.frontier # 0
    /\ m < row.frontier
    /\ row.floor = 0 \/ m < row.floor

Earliest(p, m) == m \in Positions(p) /\ \A e \in Positions(p) : m <= e

\* The floor UPDATE starts: only the rows whose committed version satisfies
\* the WHERE clause are candidates, whatever an open transaction made of them.
FeedFloors ==
    /\ feed.pc = "peeked"
    /\ feed' = [feed EXCEPT
         !.pc = "floors",
         !.todo = {p \in BatchPools : \E m \in Positions(p) :
                     Earliest(p, m) /\ Backdates(m, settlement[p])}]
    /\ UNCHANGED <<tables, slot, worker, history>>

\* One candidate row: wait for its lock, re-evaluate on the newest version.
FeedFloorRow(p) ==
    /\ feed.pc = "floors"
    /\ p \in feed.todo
    /\ ~SettleRowLocked(p)
    /\ \E m \in Positions(p) :
         /\ Earliest(p, m)
         /\ feed' = [feed EXCEPT
              !.todo = @ \ {p},
              !.floors[p] = IF Backdates(m, settlement[p]) THEN m ELSE 0]
    /\ UNCHANGED <<tables, slot, worker, history>>

\* The counter bump starts: the strict pools with physical events.
FeedBumps ==
    /\ feed.pc = "floors"
    /\ feed.todo = {}
    /\ feed' = [feed EXCEPT
         !.pc = "bumps",
         !.todo = {p \in StrictPools : Physical(p) # {}}]
    /\ UNCHANGED <<tables, slot, worker, history>>

\* One counter row, in ascending pool order, waiting for a worker's reset.
FeedBumpRow(p) ==
    /\ feed.pc = "bumps"
    /\ p \in feed.todo
    /\ \A q \in feed.todo : p <= q
    /\ ~BacklogRowLocked(p)
    /\ feed' = [feed EXCEPT !.todo = @ \ {p}, !.bumped = @ \cup {p}]
    /\ UNCHANGED <<tables, slot, worker, history>>

FeedMarks ==
    /\ feed.pc = "bumps"
    /\ feed.todo = {}
    /\ feed' = [feed EXCEPT !.pc = "marks", !.todo = BatchPools]
    /\ UNCHANGED <<tables, slot, worker, history>>

\* One mark: INSERT .. ON CONFLICT DO NOTHING skips an existing row, locked
\* or not, and waits only for a transaction that has written that row.
FeedMarkRow(p) ==
    /\ feed.pc = "marks"
    /\ p \in feed.todo
    /\ ~QueueRowInDoubt(p)
    /\ feed' = [feed EXCEPT
         !.todo = @ \ {p},
         !.marks = IF p \in queue THEN @ ELSE @ \cup {p}]
    /\ UNCHANGED <<tables, slot, worker, history>>

\* Mutant: the counter is decremented by the delivered events.
FeedCommitDecrement ==
    LET count(p) == IF p \in feed.bumped
                    THEN backlog[p] - Cardinality(Physical(p)) ELSE backlog[p]
    IN  /\ feed.pc = "marks"
        /\ feed.todo = {}
        /\ backlog' = [p \in Pools |-> count(p)]
        /\ queue' = queue \cup feed.marks
        /\ applied' = feed.upto
        /\ feed' = [IdleFeed EXCEPT !.pc = "applied", !.upto = feed.upto]
        /\ UNCHANGED <<committed, wal, settlement, folded, throttled, cursor,
                       worker, history>>

\* The apply transaction commits: floors, counters (engaging at the bound)
\* and marks become visible together.
FeedCommit ==
    LET count(p) == IF p \in feed.bumped
                    THEN backlog[p] + Cardinality(Physical(p)) ELSE backlog[p]
    IN  /\ feed.pc = "marks"
        /\ feed.todo = {}
        /\ settlement' = [p \in Pools |->
             IF feed.floors[p] # 0
             THEN [settlement[p] EXCEPT !.floor = feed.floors[p]]
             ELSE settlement[p]]
        /\ backlog' = [p \in Pools |-> count(p)]
        /\ throttled' = throttled \cup {p \in feed.bumped : count(p) >= Bound}
        /\ queue' = queue \cup feed.marks
        /\ applied' = IF feed.upto > applied THEN feed.upto ELSE applied
        /\ feed' = [IdleFeed EXCEPT !.pc = "applied", !.upto = feed.upto]
        /\ UNCHANGED <<committed, wal, folded, cursor, worker, history>>

\* Mutant: with nothing to apply, the WAL position is read at the advance.
FeedAdvanceLateAnchor ==
    /\ feed.pc = "applied"
    /\ cursor' = IF feed.upto > cursor THEN feed.upto ELSE Len(wal)
    /\ feed' = IdleFeed
    /\ UNCHANGED <<tables, applied, worker, history>>

\* advance: only forward.  The apply is already durable.
FeedAdvance ==
    /\ feed.pc = "applied"
    /\ cursor' = IF feed.upto > cursor THEN feed.upto ELSE cursor
    /\ feed' = IdleFeed
    /\ UNCHANGED <<tables, applied, worker, history>>

\* The tick errors or the process dies: an open transaction rolls back, the
\* cursor stays where it was and the batch is delivered again.
FeedCrash ==
    /\ feed.pc # "idle"
    /\ crashes < MaxCrashes /\ WithinBound
    /\ crashes' = crashes + 1
    /\ feed' = IdleFeed
    /\ UNCHANGED <<tables, slot, worker, raced>>

Ingest ==
    \/ FeedAnchor
    \/ FeedPeek
    \/ FeedFloors
    \/ \E p \in Pools : FeedFloorRow(p)
    \/ FeedBumps
    \/ \E p \in Pools : FeedBumpRow(p)
    \/ FeedMarks
    \/ \E p \in Pools : FeedMarkRow(p)
    \/ FeedCommit
    \/ FeedAdvance
=============================================================================
