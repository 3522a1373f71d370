------------------------------ MODULE StagedShmem ------------------------------
(***************************************************************************)
(* Shared memory of queue-extension-v21 (staging ring, committer queue,    *)
(* committer identities) and the tables it writes.  An envelope's payload  *)
(* and key blocks are reachable exactly as long as its slot is not empty.  *)
(***************************************************************************)
EXTENDS StagedPlan

CONSTANTS Loads,       \* what is submitted in a behaviour: a sequence of records
                       \*   env    envelopes by correlation id
                       \*   calls  enqueue calls, in the order they are made:
                       \*          [subs, linger], one transaction each
                       \*   faults the kinds of fault that may happen, each once
                       \*   slots, queue  staging_queue_size, committer_queue_size
          Committers,
          BatchMax, Window,  \* batch_size_max, router_window_size
          StarveLimit,       \* starvation_threshold
          DrainBatch,        \* drain_batch_size
          MaxEjects,         \* max_eject_count
          PerSecond          \* envelopes enqueued in one second of the clock

NoSb == 0
NoOwner == <<"none", 0>>

VARIABLES
    load,       \* the one of Loads submitted
    caller,     \* the calls' transactions: idle, open, committed, aborted
    staging,    \* staging slots
    stagingTail,
    cq,         \* committer queue entries
    cqHead, cqTail,
    nextSb,     \* next_superbatch_id
    nextSeq,    \* next request_seq
    starving,   \* the router's starvation map, by request_seq
    router,     \* the router's position
    generation, \* identity generation of each committer
    work,       \* each committer's position
    book,       \* committed rows of each pool
    rows,       \* committed depletion and consumption rows: issue, method, pool, layer
    booked,     \* committed envelopes, in commit order
    status,     \* committed submission_status rows
    ps,         \* committed persistent_staging rows
    recovery,   \* startup recovery: durable, status, done
    faults,     \* kinds of fault so far
    doubled,    \* history: envelopes put back to pending, or enqueued again, while a
                \* committer has kept them or may keep them
    lost        \* history: envelopes whose slot was freed although nothing of them was
                \* or would be written

ring == <<staging, stagingTail>>
queue == <<cq, cqHead, cqTail>>
db == <<book, rows, booked, status, ps>>
counters == <<nextSb, nextSeq, starving>>
history == <<doubled, lost>>
vars == <<load, caller, ring, queue, counters, router, generation, work, db, recovery,
          faults, history>>

NSlots == load.slots
NQueue == load.queue
Slots == 0..NSlots - 1
Queue == 0..NQueue - 1
Subs == DOMAIN load.env
Calls == DOMAIN load.calls
Env(s) == load.env[s]

(* valid: 0 empty, 1 pending, 2 processing, 3 routed.                      *)
EmptySlot == [valid |-> 0, sub |-> 0, call |-> 0, seq |-> 0, sb |-> NoSb, ejects |-> 0]

(* valid: 0 empty, 1 ready, 2 claimed.  The cleanup passes through 3 under *)
(* one hold of the lock, with no error in between.                         *)
EmptyEntry == [valid |-> 0, sb |-> NoSb, list |-> <<>>, keys |-> <<>>, owner |-> NoOwner]

(* What the committer locks: the skus of an envelope, then its wip keys,   *)
(* which are numbered above every pool.                                    *)
KeysOf(s) == {Env(s).lines[i].pool : i \in DOMAIN Env(s).lines} \cup Env(s).wip

(* A fault of a kind happens, once if the load has it.                     *)
Fault(kind) ==
    /\ kind \in load.faults \ faults
    /\ faults' = faults \cup {kind}

(* is_committer_alive: the identity slot still carries that generation.    *)
IsAlive(owner) == generation[owner[1]] = owner[2]

(* The first free position of a ring at or after its tail, -1 if none.     *)
FirstFree(r, size, tail) ==
    LET free == {i \in 0..size - 1 : r[(tail + i) % size].valid = 0}
    IN  IF free = {} THEN -1 ELSE (tail + Min(free)) % size

(* An empty slot that no live superbatch lists, nor the router is about to *)
(* list, is never read again.                                              *)
Lists(f, i) == \E q \in Queue : f[q].valid # 0 /\ i \in ToSet(f[q].list)
Tidy(slots, f) ==
    [i \in Slots |-> IF slots[i].valid = 0 /\ ~Lists(f, i) /\ i \notin ToSet(router.packed)
                     THEN EmptySlot ELSE slots[i]]

(* A committer has the envelope's end in its open transaction.             *)
InHand(s) == \E c \in Committers : s \in DOMAIN work[c].tx.status

(* push_entry, on a record of the ring and its tail.                       *)
PushOne(r, sub, call) ==
    LET i == FirstFree(r.slots, NSlots, r.tail)
    IN  IF ~r.ok \/ i = -1 THEN [r EXCEPT !.ok = FALSE]
        ELSE [r EXCEPT !.slots[i] = [valid |-> 1, sub |-> sub, call |-> call, seq |-> r.seq,
                                     sb |-> NoSb, ejects |-> 0],
                       !.tail = (i + 1) % NSlots, !.seq = @ + 1]

Ring == [slots |-> staging, tail |-> stagingTail, seq |-> nextSeq, ok |-> TRUE]

(* push_entries_batch: all of them or none.                                *)
PushAll(subs, call) == FoldLeft(LAMBDA r, s : PushOne(r, s, call), Ring, subs)

(* The ring's lock is shared by the router's stamping and by each step of  *)
(* the cleanup; a push needs it alone.                                     *)
RingFree == /\ router.pc \notin {"stampId", "stampRouted"}
            /\ \A c \in Committers : work[c].pc # "free"
================================================================================
