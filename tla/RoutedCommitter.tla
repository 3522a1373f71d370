---------------------------- MODULE RoutedCommitter ----------------------------
(***************************************************************************)
(* The committers of the routed ledger: claim a commit group, sort its     *)
(* submissions by what became of their callers, wait for the group's turn, *)
(* lock, plan, write and commit, then release the slots.                   *)
(***************************************************************************)
EXTENDS RoutedShmem

NoWork == [pc |-> "idle", q |-> 0, cg |-> NoGroup, list |-> <<>>, subs |-> {}, kept |-> <<>>,
           eject |-> <<>>, locks |-> {}, rows |-> <<>>, book |-> << >>]

others == <<caller, router, stagingTail, cqTail, groups, assigned>>

Goto(c, pc) == work' = [work EXCEPT ![c].pc = pc]

(* The first ready, unowned entry in ring order from the head.             *)
Claimable(i) ==
    LET e == cq[(cqHead + i) % NQueue] IN e.valid = 1 /\ e.owner = NoOwner
NextEntry == (cqHead + Min({i \in Queue : Claimable(i)})) % NQueue

(* claim_next_committer_entry.  Of two claims at once the later store of   *)
(* the head wins; it only says where the next search starts.               *)
Claim(c) ==
    /\ work[c].pc = "idle" /\ \E i \in Queue : Claimable(i)
    /\ LET q == NextEntry
       IN  /\ cq' = [cq EXCEPT ![q].valid = 2, ![q].owner = <<c, generation[c]>>]
           /\ cqHead' = (q + 1) % NQueue
           /\ work' = [work EXCEPT ![c] = [NoWork EXCEPT !.pc = "decode", !.q = q,
                                             !.cg = cq[q].cg, !.list = cq[q].list]]
    /\ UNCHANGED <<others, staging, committed, generation, db, faults, history>>

Discard(c) == dropped' = dropped \cup ToSet(work[c].kept)

(* decode_submissions meets a slot whose blocks were freed.                *)
DecodeFails(c) ==
    /\ work[c].pc = "decode"
    /\ \E s \in ToSet(work[c].list) : staging[s].valid = 0
    /\ LET subs == {staging[s].sub : s \in ToSet(work[c].list)}
       IN  /\ work' = [work EXCEPT ![c].pc = "clean", ![c].subs = subs]
           /\ dropped' = dropped \cup subs
    /\ UNCHANGED <<others, staging, cq, cqHead, committed, generation, db, faults, ejected, raced, jumped>>

(* A listed slot that has moved on to another occupant or another group.   *)
Foreign(s, cg) == staging[s].valid = 1 \/ staging[s].cg \notin {NoGroup, cg}

(* classify_and_eject, the decision: a committed caller's submission is    *)
(* kept, an aborted one's discarded; one whose caller is still in progress *)
(* is to be ejected, or given up for good after too many ejections or too  *)
(* much time (late).                                                       *)
Classify(c) ==
    /\ work[c].pc = "decode"
    /\ LET w == work[c]
           In(s, st) == caller[staging[s].sub] = st
           open == {s \in ToSet(w.list) : In(s, "open")}
           worn == {s \in open : staging[s].ejects + 1 > MaxEjects}
           kept == SelectSeq(w.list, LAMBDA s : In(s, "committed"))
       IN  \E late \in SUBSET (open \ worn) :
            /\ IF late = {} THEN UNCHANGED faults ELSE Fault
            /\ dropped' = dropped \cup {staging[s].sub : s \in worn \cup late}
            /\ work' = [work EXCEPT ![c].pc = "eject",
                          ![c].subs = {staging[s].sub : s \in ToSet(w.list)},
                          ![c].kept = [i \in DOMAIN kept |-> staging[kept[i]].sub],
                          ![c].eject = SelectSeq(w.list, LAMBDA s : s \in open \ (worn \cup late))]
    /\ raced' = raced \cup {staging[s].sub : s \in {r \in ToSet(work[c].list) : Foreign(r, work[c].cg)}}
    /\ UNCHANGED <<others, staging, cq, cqHead, committed, generation, db, ejected, jumped>>

(* classify_and_eject, one ejection.  The exchange of routed for pending   *)
(* fails, unnoticed, when the router has not stamped the slot yet.         *)
Eject(c) ==
    /\ work[c].pc = "eject" /\ work[c].eject # <<>>
    /\ LET s == Head(work[c].eject)
       IN  /\ staging' = [staging EXCEPT ![s].ejects = @ + 1, ![s].cg = NoGroup,
                                         ![s].valid = IF @ = 3 THEN 1 ELSE @]
           /\ ejected' = ejected \cup {staging[s].sub}
           /\ raced' = IF staging[s].valid = 3 THEN raced ELSE raced \cup {staging[s].sub}
    /\ work' = [work EXCEPT ![c].eject = Tail(@)]
    /\ UNCHANGED <<others, cq, cqHead, committed, generation, db, faults, dropped, jumped>>

(* Nothing kept: straight to the cleanup.                                  *)
AllEjected(c) ==
    /\ work[c].pc = "eject" /\ work[c].eject = <<>> /\ work[c].kept = <<>>
    /\ Goto(c, "clean")
    /\ UNCHANGED <<others, staging, cq, cqHead, committed, generation, db, faults, history>>

PoolsOf(c) == UNION {Touched(s) : s \in ToSet(work[c].kept)}
Waiting(c) == work[c].pc = "eject" /\ work[c].eject = <<>> /\ work[c].kept # <<>>
(* Mutant: a group never waits for its predecessors.                       *)
TurnOfAny(c) == TRUE
TurnOf(c) == \A p \in DOMAIN cq[work[c].q].seqs : committed[p] >= cq[work[c].q].seqs[p] - 1

(* Mutant: the pool rows are read without locking them.                    *)
TakeTurnUnlocked(c) ==
    /\ Waiting(c) /\ TurnOf(c)
    /\ work' = [work EXCEPT ![c].pc = "replay", ![c].locks = PoolsOf(c), ![c].book = book]
    /\ UNCHANGED <<others, staging, cq, cqHead, committed, generation, db, faults, history>>

(* wait_for_predecessor_pool_seqs, acquire_pool_locks, hydrate_snapshot.   *)
(* The one locking statement goes in ascending order, so it ends once no   *)
(* other committer holds a pool of the group.                              *)
TakeTurn(c) ==
    /\ Waiting(c) /\ TurnOf(c)
    /\ \A d \in Committers \ {c} : work[d].locks \cap PoolsOf(c) = {}
    /\ work' = [work EXCEPT ![c].pc = "replay", ![c].locks = PoolsOf(c), ![c].book = book]
    /\ UNCHANGED <<others, staging, cq, cqHead, committed, generation, db, faults, history>>

(* The wait hits its deadline, or locking or reading the pools fails: the  *)
(* group is given up, and its tokens do not advance.                       *)
TurnTimeout(c) ==
    /\ Waiting(c) /\ ~TurnOf(c)
    /\ Goto(c, "clean")
    /\ Discard(c)
    /\ UNCHANGED <<others, staging, cq, cqHead, committed, generation, db, faults, ejected, raced,
                   jumped>>

LockFails(c) ==
    /\ Waiting(c) /\ TurnOf(c) /\ Fault
    /\ Goto(c, "clean")
    /\ Discard(c)
    /\ UNCHANGED <<others, staging, cq, cqHead, committed, generation, db, ejected, raced, jumped>>

(* plan_apply of one submission on a snapshot.                             *)
After(snap, s) == [p \in Pools |-> snap[p] + Lines[s][p]]
Covered(snap, s) == \A p \in Touched(s) : After(snap, s)[p] >= 0

(* One pass of plan_all_with_inner_replay over the kept submissions whose  *)
(* index is not excluded: the snapshot after it, and the first failure.    *)
PlanPass(snap, kept, excluded) ==
    FoldLeft(LAMBDA acc, i :
                IF acc.failed # 0 \/ i \in excluded THEN acc
                ELSE IF Covered(acc.snap, kept[i]) THEN [acc EXCEPT !.snap = After(@, kept[i])]
                ELSE [acc EXCEPT !.failed = i],
             [snap |-> snap, failed |-> 0], [i \in DOMAIN kept |-> i])

(* The first row the UNIQUE constraint on the business key refuses.        *)
Duplicates(kept, excluded) ==
    {i \in DOMAIN kept \ excluded :
        \/ \E t \in ToSet(trx) : KeyOf[t] = KeyOf[kept[i]]
        \/ \E j \in DOMAIN kept \ excluded : j < i /\ KeyOf[kept[j]] = KeyOf[kept[i]]}

(* run_pristine_replay_loop: start over from the pristine snapshot with    *)
(* one more submission excluded, until a pass plans and writes cleanly.    *)
RECURSIVE ReplayLoop(_, _, _)
ReplayLoop(snap, kept, excluded) ==
    LET pass == PlanPass(snap, kept, excluded)
        dups == Duplicates(kept, excluded)
    IN  IF pass.failed # 0 THEN ReplayLoop(snap, kept, excluded \cup {pass.failed})
        ELSE IF dups # {} THEN ReplayLoop(snap, kept, excluded \cup {Min(dups)})
        ELSE [excluded |-> excluded, snap |-> pass.snap]

(* Writing waits for another committer's uncommitted row with the same key.*)
(* Then advance_committed_pool_seqs, still inside the transaction.         *)
Replay(c) ==
    /\ work[c].pc = "replay"
    /\ \A d \in Committers \ {c} : \A s \in ToSet(work[c].kept), t \in ToSet(work[d].rows) :
           KeyOf[s] # KeyOf[t]
    /\ LET w == work[c]
           end == ReplayLoop(w.book, w.kept, {})
           idx == SelectSeq([i \in DOMAIN w.kept |-> i], LAMBDA i : i \notin end.excluded)
       IN  /\ work' = [work EXCEPT ![c].pc = "commit", ![c].book = end.snap,
                                   ![c].rows = [i \in DOMAIN idx |-> w.kept[idx[i]]]]
           /\ dropped' = dropped \cup {w.kept[i] : i \in end.excluded}
    /\ committed' = Advance(cq[work[c].q].seqs)
    /\ UNCHANGED <<others, staging, cq, cqHead, generation, db, faults, ejected, raced, jumped>>

(* A write error other than a duplicate: nothing is written, the tokens    *)
(* advance, and the group's submissions are given up.                      *)
ReplayFails(c) ==
    /\ work[c].pc = "replay" /\ Fault
    /\ committed' = Advance(cq[work[c].q].seqs)
    /\ work' = [work EXCEPT ![c].pc = "clean", ![c].locks = {}]
    /\ Discard(c)
    /\ UNCHANGED <<others, staging, cq, cqHead, generation, db, ejected, raced, jumped>>

Commit(c) ==
    /\ work[c].pc = "commit"
    /\ trx' = trx \o work[c].rows
    /\ book' = [p \in Pools |-> IF p \in work[c].locks THEN work[c].book[p] ELSE book[p]]
    /\ work' = [work EXCEPT ![c].pc = "clean", ![c].locks = {}, ![c].rows = <<>>]
    /\ UNCHANGED <<others, staging, cq, cqHead, committed, generation, faults, history>>

(* Mutant: the cleanup does not compare the slot's group with its own.     *)
CleanSlotAnyGroup(c) ==
    /\ work[c].pc = "clean" /\ work[c].list # <<>>
    /\ LET s == Head(work[c].list)
       IN  staging' = IF staging[s].valid = 3 THEN [staging EXCEPT ![s].valid = 0] ELSE staging
    /\ work' = [work EXCEPT ![c].list = Tail(@)]
    /\ UNCHANGED <<others, cq, cqHead, committed, generation, db, faults, history>>

(* try_release_staging_slot for the next listed slot: routed under this    *)
(* group, or left in processing by a router that never stamped it.         *)
CleanSlot(c) ==
    /\ work[c].pc = "clean" /\ work[c].list # <<>>
    /\ LET s == Head(work[c].list)
           mine == staging[s].valid = 3 /\ staging[s].cg = work[c].cg
           unstamped == staging[s].valid = 2 /\ staging[s].ejects = 0
       IN  /\ staging' = IF mine \/ unstamped THEN [staging EXCEPT ![s].valid = 0] ELSE staging
           /\ raced' = IF (mine \/ unstamped) /\ staging[s].sub \notin work[c].subs
                       THEN raced \cup {staging[s].sub} ELSE raced
    /\ work' = [work EXCEPT ![c].list = Tail(@)]
    /\ UNCHANGED <<others, cq, cqHead, committed, generation, db, faults, dropped, ejected, jumped>>

(* free_committer_queue_arena, finalize_committer_queue_slot.              *)
Finish(c) ==
    /\ work[c].pc = "clean" /\ work[c].list = <<>>
    /\ cq' = [cq EXCEPT ![work[c].q] = EmptyEntry]
    /\ work' = [work EXCEPT ![c] = NoWork]
    /\ UNCHANGED <<others, staging, cqHead, committed, generation, db, faults, history>>

(* An error that escapes the transaction ends the worker: its transaction  *)
(* rolls back, its locks go, its entry stays claimed by a generation that  *)
(* no longer exists.  It comes back with the next generation.  Only the    *)
(* steps that run SQL can raise one, the claim and the cleanup cannot.     *)
Die(c) ==
    /\ work[c].pc \in {"decode", "replay", "commit"} /\ Fault
    /\ generation' = [generation EXCEPT ![c] = @ + 1]
    /\ work' = [work EXCEPT ![c] = NoWork]
    /\ jumped' = IF work[c].pc = "commit" THEN jumped \cup DOMAIN cq[work[c].q].seqs ELSE jumped
    /\ UNCHANGED <<others, staging, cq, cqHead, committed, db, dropped, ejected, raced>>

CommitterNext(c) ==
    \/ Claim(c) \/ DecodeFails(c) \/ Classify(c) \/ Eject(c) \/ AllEjected(c)
    \/ TakeTurn(c) \/ TurnTimeout(c) \/ LockFails(c) \/ Replay(c) \/ ReplayFails(c)
    \/ Commit(c) \/ CleanSlot(c) \/ Finish(c) \/ Die(c)
================================================================================
