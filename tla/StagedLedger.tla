------------------------------ MODULE StagedLedger -----------------------------
(***************************************************************************)
(* queue-extension-v21 as a whole: callers that enqueue envelopes inside   *)
(* their own transactions, the router, the committers, a restart of the    *)
(* server and the recovery that follows it.                                *)
(***************************************************************************)
EXTENDS StagedRouter, StagedCommitter

callerOnly == <<load, queue, nextSb, starving, router, generation, work, recovery, history>>

Init ==
    /\ load \in ToSet(Loads)
    /\ caller = [k \in Calls |-> "idle"]
    /\ staging = [i \in Slots |-> EmptySlot] /\ stagingTail = 0
    /\ cq = [q \in Queue |-> EmptyEntry] /\ cqHead = 0 /\ cqTail = 0
    /\ nextSb = 0 /\ nextSeq = 0 /\ starving = << >>
    /\ router = AtRest
    /\ generation = [c \in Committers |-> 1]
    /\ work = [c \in Committers |-> NoWork]
    /\ book = [p \in Pools |-> EmptyPool] /\ rows = {} /\ booked = <<>>
    /\ status = [s \in Subs |-> "none"] /\ ps = [s \in Subs |-> "none"]
    /\ recovery = "done" /\ faults = {}
    /\ doubled = {} /\ lost = {}

(* Calls are made in order; a call with linger set ends some time later,   *)
(* by commit or abort, the others commit at once.  Its status rows and     *)
(* durable rows are its transaction's.                                     *)
Turn(k) == caller[k] = "idle" /\ \A j \in Calls : j < k => caller[j] # "idle"
Written(k) ==
    LET subs == ToSet(load.calls[k].subs)
    IN  /\ status' = [s \in Subs |-> IF s \in subs /\ status[s] = "none" THEN "queued" ELSE status[s]]
        /\ ps' = [s \in Subs |-> IF s \in subs /\ Env(s).durable /\ ps[s] = "none"
                                 THEN "staged" ELSE ps[s]]

Enter(k, r) ==
    /\ r.ok /\ staging' = r.slots /\ stagingTail' = r.tail /\ nextSeq' = r.seq
    /\ IF load.calls[k].linger
       THEN caller' = [caller EXCEPT ![k] = "open"] /\ UNCHANGED <<status, ps>>
       ELSE caller' = [caller EXCEPT ![k] = "committed"] /\ Written(k)
    /\ UNCHANGED <<callerOnly, faults, book, rows, booked>>

(* poc_v21_enqueue, and poc_v21_enqueue_batch, whose envelopes enter the   *)
(* ring together.                                                          *)
Enqueue(k) ==
    /\ Turn(k) /\ RingFree /\ Len(load.calls[k].subs) = 1
    /\ Enter(k, PushOne(Ring, load.calls[k].subs[1], k))

EnqueueBatch(k) ==
    /\ Turn(k) /\ RingFree /\ Len(load.calls[k].subs) > 1
    /\ Enter(k, PushAll(load.calls[k].subs, k))

(* With the ring full, or no arena block left, the call waits; at its      *)
(* deadline it fails, and its transaction with it.                         *)
CallFails(k) ==
    /\ Turn(k)
    /\ caller' = [caller EXCEPT ![k] = "aborted"]
    /\ UNCHANGED <<callerOnly, ring, nextSeq, db>>
RingFull(k) == ~PushAll(load.calls[k].subs, k).ok /\ CallFails(k) /\ UNCHANGED faults
NoBlocks(k) == Fault("blocks") /\ CallFails(k)

(* The caller's transaction ends; its status and durable rows appear.      *)
CallerCommits(k) ==
    /\ caller[k] = "open"
    /\ caller' = [caller EXCEPT ![k] = "committed"]
    /\ Written(k)
    /\ UNCHANGED <<callerOnly, ring, nextSeq, faults, book, rows, booked>>

CallerAborts(k) ==
    /\ caller[k] = "open"
    /\ caller' = [caller EXCEPT ![k] = "aborted"]
    /\ UNCHANGED <<callerOnly, ring, nextSeq, faults, db>>

(* The server restarts: shared memory and every open transaction are gone. *)
Restart ==
    /\ Fault("restart")
    /\ caller' = [k \in Calls |-> IF caller[k] = "open" THEN "aborted" ELSE caller[k]]
    /\ staging' = [i \in Slots |-> EmptySlot] /\ stagingTail' = 0
    /\ cq' = [q \in Queue |-> EmptyEntry] /\ cqHead' = 0 /\ cqTail' = 0
    /\ nextSb' = 0 /\ nextSeq' = 0 /\ starving' = << >>
    /\ router' = [AtRest EXCEPT !.pc = "bootQueue"]
    /\ generation' = [c \in Committers |-> 1]
    /\ work' = [c \in Committers |-> NoWork]
    /\ recovery' = "durable"
    /\ UNCHANGED <<load, db, history>>

InRing(s) == \E i \in Slots : staging[i].sub = s /\ staging[i].valid # 0
CallOf(s) == CHOOSE k \in Calls : s \in ToSet(load.calls[k].subs) /\ caller[k] = "committed"

(* run_persistent_staging_recovery_sweep: durable envelopes that are not   *)
(* completed go back into the ring, in order; one that does not fit ends   *)
(* the sweep, what came before it stays.  Their callers have committed, or *)
(* there would be no row.                                                  *)
RecoverDurable ==
    /\ recovery = "durable" /\ RingFree
    /\ LET due == {s \in Subs : ps[s] \in {"staged", "in_shmem"}}
           pushed == FoldLeft(LAMBDA r, s : PushOne(r, s, CallOf(s)),
                              Ring, SetToSortSeq(due \ ToSet(booked), <))
           back == {s \in due : \E i \in Slots : pushed.slots[i].sub = s /\ pushed.slots[i].valid = 1
                                                 /\ pushed.slots[i].seq >= nextSeq}
       IN  /\ staging' = pushed.slots /\ stagingTail' = pushed.tail /\ nextSeq' = pushed.seq
           /\ ps' = [s \in Subs |-> IF s \in due \cap ToSet(booked) THEN "completed"
                                    ELSE IF s \in back THEN "in_shmem" ELSE ps[s]]
           /\ status' = [s \in Subs |-> IF s \in due \cap ToSet(booked) THEN "committed" ELSE status[s]]
           /\ doubled' = doubled \cup {s \in back : InRing(s)}
    /\ recovery' = "status"
    /\ UNCHANGED <<load, caller, queue, nextSb, starving, router, generation, work, book, rows,
                   booked, faults, lost>>

(* Mutant: everything still queued is taken for committed.                 *)
RecoverStatusAll ==
    /\ recovery = "status"
    /\ status' = [s \in Subs |-> IF status[s] = "queued" THEN "committed" ELSE status[s]]
    /\ recovery' = "done"
    /\ UNCHANGED <<load, caller, ring, queue, counters, router, generation, work, book, rows,
                   booked, ps, faults, history>>

(* run_startup_recovery_sweep: what is queued and was not written, and has *)
(* no durable row, is reported failed.  Then the workers start.            *)
RecoverStatus ==
    /\ recovery = "status"
    /\ status' = [s \in Subs |->
            IF status[s] # "queued" THEN status[s]
            ELSE IF s \in ToSet(booked) THEN "committed"
            ELSE IF ps[s] \in {"staged", "in_shmem"} THEN "queued" ELSE "failed"]
    /\ recovery' = "done"
    /\ UNCHANGED <<load, caller, ring, queue, counters, router, generation, work, book, rows,
                   booked, ps, faults, history>>

Next ==
    \/ \E k \in Calls : \/ Enqueue(k) \/ EnqueueBatch(k) \/ RingFull(k) \/ NoBlocks(k)
                     \/ CallerCommits(k) \/ CallerAborts(k)
    \/ RouterNext \/ CommitterNext
    \/ Restart \/ RecoverDurable \/ RecoverStatus

Spec == Init /\ [][Next]_vars

--------------------------------------------------------------------------------
Times(s) == Cardinality({i \in DOMAIN booked : booked[i] = s})

(* Whatever the router, the committers and a restart do, an envelope is    *)
(* booked at most once, and two envelopes that carry the same issue id are *)
(* not both booked, but for those doubled names: put back to pending by    *)
(* the boot sweep, the audit or another envelope's ejection although a     *)
(* committer had them, or enqueued again by the recovery while in the ring.*)
BookedOnce ==
    /\ \A s \in Subs \ doubled : Times(s) <= 1
    /\ \A s, t \in Subs \ doubled :
        (/\ s # t /\ Times(s) > 0 /\ Times(t) > 0
         /\ Env(s).type = "issue" /\ Env(t).type = "issue")
            => Env(s).issue # Env(t).issue

(* A committed caller's envelope is booked, or its status says how it      *)
(* ended, or it is in the ring where router, committer or audit will meet  *)
(* it, or a committer is about to write it, or a durable row will bring it *)
(* back; but for those lost names.                                         *)
Accounted ==
    \A k \in Calls : caller[k] = "committed" =>
        \A s \in ToSet(load.calls[k].subs) :
            \/ s \in ToSet(booked) \/ status[s] \in {"failed", "replayed"}
            \/ InRing(s) \/ InHand(s) \/ s \in lost
            \/ ps[s] \in {"staged", "in_shmem"} \/ recovery # "done"

(* The status a caller polls says committed exactly of what is booked, but *)
(* for doubled envelopes, whose second run writes over the first.          *)
StatusTruthful ==
    \A s \in Subs \ doubled : status[s] = "committed" <=> s \in ToSet(booked)

(* After every commit the rows of a pool agree with each other, through    *)
(* concurrent superbatches, failed envelopes and deaths: see               *)
(* PoolReconciles.                                                         *)
Reconciled == \A p \in Pools : PoolReconciles(p, book[p])
================================================================================
