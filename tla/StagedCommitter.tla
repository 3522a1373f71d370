----------------------------- MODULE StagedCommitter ---------------------------
(***************************************************************************)
(* The committers of queue-extension-v21.  A committer claims up to        *)
(* DrainBatch superbatches and processes them, one subtransaction each, in *)
(* one transaction: read the envelopes, lock their pools, sort them by     *)
(* what became of their callers, cost and write them, release the slots;   *)
(* the transaction commits at the end.                                     *)
(***************************************************************************)
EXTENDS StagedShmem

NoTx == [book |-> << >>, rows |-> {}, booked |-> <<>>, status |-> << >>, ps |-> << >>]
NoWork == [pc |-> "idle", claims |-> <<>>, items |-> <<>>, held |-> {}, locks |-> {},
           kept |-> {}, requeue |-> {}, worn |-> {}, k |-> 0, sb |-> NoSb, ejects |-> 0,
           tx |-> NoTx]

committerOnly == <<load, caller, stagingTail, cqTail, counters, router, recovery>>

Over(f, g) == [x \in DOMAIN f \cup DOMAIN g |-> IF x \in DOMAIN g THEN g[x] ELSE f[x]]
Entry(c) == cq[Head(work[c].claims)]

(* claim_next_committer_entry: the first ready, unowned entry from the     *)
(* head.  The workers start once the recovery is done.                     *)
Claimable(i) ==
    LET e == cq[(cqHead + i) % NQueue] IN e.valid = 1 /\ e.owner = NoOwner

Claim(c) ==
    /\ recovery = "done" /\ work[c].pc = "idle" /\ Len(work[c].claims) < DrainBatch
    /\ \E i \in Queue : Claimable(i)
    /\ LET q == (cqHead + Min({i \in Queue : Claimable(i)})) % NQueue
       IN  /\ cq' = [cq EXCEPT ![q].valid = 2, ![q].owner = <<c, generation[c]>>]
           /\ cqHead' = (q + 1) % NQueue
           /\ work' = [work EXCEPT ![c].claims = Append(@, q)]
    /\ UNCHANGED <<committerOnly, staging, generation, db, faults, history>>

(* process_superbatch: the envelopes, as the listed slots now show them,   *)
(* a slot freed in the meantime included.                                  *)
Items(q) == [i \in DOMAIN cq[q].list |-> staging[cq[q].list[i]]]

Read(c) ==
    /\ work[c].claims # <<>>
    /\ \/ work[c].pc = "idle" /\ \/ Len(work[c].claims) = DrainBatch
                                 \/ \A i \in Queue : ~Claimable(i)
       \/ work[c].pc = "next"
    /\ work' = [work EXCEPT ![c].pc = "lock", ![c].items = Items(Head(work[c].claims)),
                            ![c].locks = {}, ![c].kept = {}, ![c].requeue = {}, ![c].worn = {}]
    /\ UNCHANGED <<committerOnly, staging, cq, cqHead, generation, db, faults, history>>

(* The row locks of the skus and then of the wip keys, each in order.      *)
(* What earlier superbatches of the transaction locked it keeps.           *)
Wanted(c) == SelectSeq(Entry(c).keys, LAMBDA x : x \notin work[c].held \cup work[c].locks)
Holder(x, d) == x \in work[d].held \cup work[d].locks

Lock(c) ==
    /\ work[c].pc = "lock" /\ Wanted(c) # <<>>
    /\ \A d \in Committers \ {c} : ~Holder(Head(Wanted(c)), d)
    /\ work' = [work EXCEPT ![c].locks = @ \cup {Head(Wanted(c))}]
    /\ UNCHANGED <<committerOnly, staging, cq, cqHead, generation, db, faults, history>>

(* The classification runs over the EVENTS and takes the slot of the i-th  *)
(* event to be the i-th of the superbatch.  A malformed envelope has no    *)
(* event, a wo_complete several.                                           *)
Malformed(it) == Env(it.sub).type = "malformed"
EventItems(c) ==
    FlattenSeq([i \in DOMAIN work[c].items |->
        IF Malformed(work[c].items[i]) THEN <<>>
        ELSE [j \in DOMAIN Env(work[c].items[i].sub).lines |-> i]])
Fate(it) == caller[it.call]
OpenEvents(c) ==
    {e \in DOMAIN EventItems(c) : Fate(work[c].items[EventItems(c)[e]]) = "open"}
Locked(c) == work[c].pc = "lock" /\ Wanted(c) = <<>>

(* Steps 2.4 and 2.45: committed callers' envelopes are kept; the slot of  *)
(* each open event is charged an ejection and is to be requeued, or is     *)
(* given up for good after too many ejections or too much time.  The       *)
(* status of a malformed envelope has waited for its caller by then.       *)
Classify(c) ==
    /\ Locked(c)
    /\ \A i \in DOMAIN work[c].items : Malformed(work[c].items[i]) => Fate(work[c].items[i]) # "open"
    /\ LET w == work[c]
           items == ToSet(SelectSeq(w.items, LAMBDA it : ~Malformed(it)))
           open == {Entry(c).list[e] : e \in OpenEvents(c)}
           tired == {s \in open : staging[s].ejects + 1 > MaxEjects}
       IN  /\ \A e \in OpenEvents(c) : e \in DOMAIN w.items
           /\ \E late \in SUBSET (open \ tired) :
                /\ IF late = {} THEN UNCHANGED faults ELSE Fault("late")
                /\ staging' = [s \in Slots |-> IF s \in open
                                 THEN [staging[s] EXCEPT !.ejects = @ + 1] ELSE staging[s]]
                /\ work' = [work EXCEPT ![c].pc = "requeue",
                              ![c].kept = {it \in items : Fate(it) = "committed"},
                              ![c].requeue = open \ (tired \cup late),
                              ![c].worn = {it \in items : Fate(it) = "open"}]
    /\ UNCHANGED <<committerOnly, cq, cqHead, generation, db, history>>

(* The exchange of routed for pending fails, unnoticed, when the router    *)
(* has not stamped the slot yet.                                           *)
Requeue(c) ==
    /\ work[c].pc = "requeue" /\ work[c].requeue # {}
    /\ LET s == Min(work[c].requeue)
           seqs == {it.seq : it \in work[c].kept}
       IN  /\ staging' = [staging EXCEPT ![s].valid = IF @ = 3 THEN 1 ELSE @]
           /\ doubled' = IF staging[s].seq \in seqs THEN doubled \cup {staging[s].sub} ELSE doubled
           /\ work' = [work EXCEPT ![c].requeue = @ \ {s}]
    /\ UNCHANGED <<committerOnly, cq, cqHead, generation, db, faults, lost>>

(* Tables as the committer's transaction sees them, its pools locked.      *)
BookOf(c, p) == IF p \in DOMAIN work[c].tx.book THEN work[c].tx.book[p] ELSE book[p]
RowsOf(c) == rows \cup work[c].tx.rows

(* Chronological order: the document, then the arrival.                    *)
Chrono(c) ==
    LET Before(s, t) == \/ Env(s).doc < Env(t).doc
                        \/ Env(s).doc = Env(t).doc /\ s < t
    IN  SetToSortSeq({it.sub : it \in work[c].kept}, Before)

(* Mutant: nothing is recognised as a replay.                              *)
ReplayedNone(c) == {}
(* Steps 2.7: an issue whose rows exist, or which an earlier event of the  *)
(* superbatch has issued already, by (issue_id, method).  The mark is on   *)
(* the correlation id, so it covers every copy of the envelope.            *)
Replayed(c) ==
    LET IsIssue(s) == Env(s).type \in {"issue", "adjust"} /\ Env(s).lines[1].qty < 0
        Id(s) == <<Env(s).issue, Method(Env(s).lines[1].pool)>>
        order == Chrono(c)
        Copies(s) == {it \in work[c].kept : it.sub = s}
    IN  {s \in ToSet(order) :
            /\ IsIssue(s)
            /\ \/ \E r \in RowsOf(c) : <<r[1], r[2]>> = Id(s)
               \/ Cardinality(Copies(s)) > 1
               \/ \E i, j \in DOMAIN order : /\ i < j /\ order[j] = s
                                             /\ IsIssue(order[i]) /\ Id(order[i]) = Id(s)}

(* Steps 2.6 to 4: hydrate, then dispatch envelope by envelope.            *)
Plan(c) ==
    LET todo == SelectSeq(Chrono(c), LAMBDA s : s \notin Replayed(c))
        pools == UNION {{Env(s).lines[i].pool : i \in DOMAIN Env(s).lines} : s \in ToSet(todo)}
        Copies(s) == {it \in work[c].kept : it.sub = s}
        At(s) == Min({it.seq : it \in Copies(s)}) \div PerSecond
    IN  FoldLeft(LAMBDA plan, s : Dispatch(plan, Env(s), Cardinality(Copies(s)), At(s), s),
                 [snap |-> [p \in pools |-> Hydrate(BookOf(c, p))], rows |-> <<>>, done |-> <<>>,
                  failed |-> {}], todo)

(* Envelopes something is written for: all but those of open callers.      *)
Answered(c) == {it.sub : it \in ToSet(work[c].items) \ work[c].worn}
KeptSubs(c) == {it.sub : it \in work[c].kept}
Ready(c) == work[c].pc = "requeue" /\ work[c].requeue = {}

(* Which status each envelope of the superbatch gets.                      *)
Verdict(c, plan, s) ==
    IF s \in ToSet(plan.done) THEN "committed"
    ELSE IF s \in Replayed(c) THEN "replayed" ELSE "failed"

(* cost_depletions has a unique key; cost_consumptions ignores a second    *)
(* row.  A key another transaction has inserted is waited for.             *)
Conflict(c, plan) ==
    LET depletions == SelectSeq(plan.rows, LAMBDA r : r[2] = "fifo")
    IN  ToSet(depletions) \cap RowsOf(c) # {} \/ ~IsInjective(depletions)

(* A status row another transaction has written is waited for.             *)
StatusLocked(c, d) == {it.sub : it \in ToSet(work[c].items)} \cap DOMAIN work[d].tx.status # {}

(* Steps 5b, 5d and 5e: new layers get their ids in the order they were    *)
(* born; the inventory lines and the average state follow the snapshot.    *)
BornInOrder(b) == [b EXCEPT !.order = <<>>]
WrittenBook(c, plan) ==
    Over(work[c].tx.book, [p \in DOMAIN plan.snap |-> BornInOrder(plan.snap[p])])
WrittenRows(c, plan) == work[c].tx.rows \cup ToSet(plan.rows)

(* A durable row is completed with the booking; until then it is marked as *)
(* taken up once its superbatch has got that far.                          *)
WrittenDurable(c, plan) ==
    Over(work[c].tx.ps, [s \in {t \in KeptSubs(c) : ps[t] # "none"} |->
            IF s \in ToSet(plan.done) THEN "completed"
            ELSE IF ps[s] = "staged" THEN "in_shmem" ELSE ps[s]])

(* Step 5: everything the superbatch writes.                               *)
Write(c) ==
    /\ Ready(c)
    /\ \E plan \in {Plan(c)} :
        /\ ~Conflict(c, plan)
        /\ \A d \in Committers \ {c} :
              ToSet(plan.rows) \cap work[d].tx.rows = {} /\ ~StatusLocked(c, d)
        /\ work' = [work EXCEPT ![c].pc = "clean", ![c].k = 1, ![c].tx =
             [book |-> WrittenBook(c, plan), rows |-> WrittenRows(c, plan),
              booked |-> @.booked \o plan.done,
              status |-> Over(@.status, [s \in Answered(c) |-> Verdict(c, plan, s)]),
              ps |-> WrittenDurable(c, plan)]]
    /\ UNCHANGED <<committerOnly, staging, cq, cqHead, generation, db, faults, history>>

(* The pipeline returns an error: the subtransaction is rolled back, its   *)
(* locks and the status of its malformed envelopes with it, and every      *)
(* envelope is reported failed, which waits for callers still open.        *)
PipelineFails(c) ==
    /\ Ready(c) /\ Fault("fail")
    /\ \A it \in ToSet(work[c].items) : Fate(it) # "open"
    /\ \A d \in Committers \ {c} : ~StatusLocked(c, d)
    /\ LET parsed == SelectSeq(work[c].items, LAMBDA it : ~Malformed(it))
           unread == SelectSeq(work[c].items, Malformed)
       IN  /\ work' = [work EXCEPT ![c].pc = "clean", ![c].k = 1, ![c].locks = {},
                  ![c].tx.status = Over(@, [s \in {it.sub : it \in ToSet(parsed)} |-> "failed"])]
           /\ lost' = lost \cup {it.sub : it \in ToSet(unread)}
    /\ UNCHANGED <<committerOnly, staging, cq, cqHead, generation, db, doubled>>

(* cleanup_after_superbatch, one slot: read its superbatch and its         *)
(* ejections, then exchange routed for empty if it is still ours, or       *)
(* processing for empty if it was never ejected.                           *)
CleanLoad(c) ==
    /\ work[c].pc = "clean" /\ work[c].k \in DOMAIN Entry(c).list
    /\ LET s == Entry(c).list[work[c].k]
       IN  work' = [work EXCEPT ![c].pc = "free", ![c].sb = staging[s].sb,
                                ![c].ejects = staging[s].ejects]
    /\ UNCHANGED <<committerOnly, staging, cq, cqHead, generation, db, faults, history>>

MayFree(c, s) == \/ work[c].sb = Entry(c).sb /\ staging[s].valid = 3
                 \/ work[c].ejects = 0 /\ staging[s].valid = 2

CleanFree(c) ==
    /\ work[c].pc = "free"
    /\ LET s == Entry(c).list[work[c].k]
           written == {it.seq : it \in ToSet(work[c].items) \ work[c].worn}
       IN  /\ staging' = IF MayFree(c, s) THEN [staging EXCEPT ![s].valid = 0] ELSE staging
           /\ lost' = IF MayFree(c, s) /\ staging[s].seq \notin written
                      THEN lost \cup {staging[s].sub} ELSE lost
    /\ work' = [work EXCEPT ![c].pc = "clean", ![c].k = @ + 1, ![c].sb = NoSb, ![c].ejects = 0]
    /\ UNCHANGED <<committerOnly, cq, cqHead, generation, db, faults, doubled>>

(* The queue entry is free again; the subtransaction's locks are now the   *)
(* transaction's.                                                          *)
FinishSb(c) ==
    /\ work[c].pc = "clean" /\ work[c].k \notin DOMAIN Entry(c).list
    /\ cq' = [cq EXCEPT ![Head(work[c].claims)] = EmptyEntry]
    /\ staging' = Tidy(staging, cq')
    /\ LET w == work[c]
       IN  work' = [work EXCEPT ![c] = [NoWork EXCEPT !.claims = Tail(w.claims), !.tx = w.tx,
                      !.held = w.held \cup w.locks,
                      !.pc = IF Len(w.claims) > 1 THEN "next" ELSE "commit"]]
    /\ UNCHANGED <<committerOnly, cqHead, generation, db, faults, history>>

Commit(c) ==
    /\ work[c].pc = "commit"
    /\ LET tx == work[c].tx
       IN  /\ book' = Over(book, tx.book) /\ rows' = rows \cup tx.rows
           /\ booked' = booked \o tx.booked
           /\ status' = Over(status, tx.status) /\ ps' = Over(ps, tx.ps)
    /\ work' = [work EXCEPT ![c] = NoWork]
    /\ UNCHANGED <<committerOnly, staging, cq, cqHead, generation, faults, history>>

(* An error raised by the database ends the worker and its transaction;    *)
(* the slots of the superbatches it had finished are free already.  The    *)
(* postmaster starts it again under a new generation.                      *)
Dies(c) ==
    /\ lost' = lost \cup DOMAIN work[c].tx.status
    /\ generation' = [generation EXCEPT ![c] = @ + 1]
    /\ work' = [work EXCEPT ![c] = NoWork]
    /\ UNCHANGED <<committerOnly, staging, cq, cqHead, db, doubled>>

StatementFails(c) == work[c].pc \in {"lock", "requeue", "commit"} /\ Fault("die") /\ Dies(c)

(* Two drain batches may lock in opposite orders; the detector picks one.  *)
WaitsFor(c, d) ==
    \/ work[c].pc = "lock" /\ Wanted(c) # <<>> /\ Holder(Head(Wanted(c)), d)
    \/ Ready(c) /\ StatusLocked(c, d)
Deadlock(c) ==
    /\ \E d \in Committers \ {c} : WaitsFor(c, d) /\ WaitsFor(d, c)
    /\ Fault("deadlock") /\ Dies(c)

UniqueViolation(c) == Ready(c) /\ Fault("unique") /\ Conflict(c, Plan(c)) /\ Dies(c)

(* staging_indices[i] is out of bounds.                                    *)
IndexPanic(c) ==
    /\ Locked(c) /\ \E e \in OpenEvents(c) : e \notin DOMAIN work[c].items
    /\ Fault("panic") /\ Dies(c)

CommitterNext ==
    \E c \in Committers :
        \/ Claim(c) \/ Read(c) \/ Lock(c) \/ Classify(c) \/ Requeue(c) \/ Write(c)
        \/ PipelineFails(c) \/ CleanLoad(c) \/ CleanFree(c) \/ FinishSb(c) \/ Commit(c)
        \/ StatementFails(c) \/ Deadlock(c) \/ UniqueViolation(c) \/ IndexPanic(c)
================================================================================
