------------------------------ MODULE StagedRouter -----------------------------
(***************************************************************************)
(* The router of queue-extension-v21: a single worker that packs pending   *)
(* envelopes into superbatches, sweeps what an earlier router left half    *)
(* done, and audits the rings when idle.                                   *)
(***************************************************************************)
EXTENDS StagedShmem

AtRest == [pc |-> "idle", todo |-> <<>>, packed |-> <<>>, sb |-> NoSb, k |-> 0,
           keys |-> {}, seqs |-> {}, rest |-> {}, active |-> {}]

routerOnly == <<load, caller, generation, work, recovery>>

SeqOfSlot(i) == staging[i].seq
Earlier(a, b) == SeqOfSlot(a) < SeqOfSlot(b)

(* collect_candidates: the first Window pending slots.                     *)
Candidates ==
    LET ready == SetToSortSeq({s \in Slots : staging[s].valid = 1}, <)
    IN  SubSeq(ready, 1, Min({Window, Len(ready)}))

(* affinity_group: the connected components of candidates that share keys. *)
Linked(a, b) == KeysOf(staging[a].sub) \cap KeysOf(staging[b].sub) # {}
Closed(G, C) == \A a \in G, b \in C \ G : ~Linked(a, b)
Components(C) ==
    {G \in (SUBSET C) \ {{}} :
        Closed(G, C) /\ \A H \in (SUBSET G) \ {{}} : Closed(H, C) => H = G}

(* The chunks of one component, each with the rest of its group.           *)
Chunks(G) ==
    LET ordered == SetToSortSeq(G, Earlier)
    IN  [i \in 1..((Len(ordered) + BatchMax - 1) \div BatchMax) |->
            [now |-> SubSeq(ordered, (i - 1) * BatchMax + 1, Min({i * BatchMax, Len(ordered)})),
             rest |-> SubSeq(ordered, i * BatchMax + 1, Len(ordered))]]

(* emit_superbatch_chunk, first part: take the chunk's entries.  Nobody    *)
(* else takes an entry out of pending, so every exchange succeeds.         *)
EmitFirst(todo) ==
    /\ staging' = [s \in Slots |-> IF s \in ToSet(Head(todo).now)
                                   THEN [staging[s] EXCEPT !.valid = 2] ELSE staging[s]]
    /\ LET now == ToSet(Head(todo).now)
       IN  router' = [AtRest EXCEPT !.pc = "publish", !.todo = Tail(todo), !.packed = Head(todo).now,
                         !.keys = UNION {KeysOf(staging[s].sub) : s \in now},
                         !.seqs = {SeqOfSlot(s) : s \in now},
                         !.rest = {SeqOfSlot(s) : s \in ToSet(Head(todo).rest)}]
    /\ UNCHANGED <<routerOnly, stagingTail, queue, counters, db, faults, history>>

(* How often an envelope was passed over; counted up to the threshold.     *)
Starved(seq) == IF seq \in DOMAIN starving THEN starving[seq] ELSE 0

(* router_tick: a starving first candidate goes alone; otherwise the       *)
(* chunks of every group, groups in order of their oldest member.          *)
Tick ==
    /\ router.pc = "idle" /\ Candidates # <<>>
    /\ LET first == Candidates[1]
           Oldest(G) == Min({SeqOfSlot(a) : a \in G})
           groups == SetToSortSeq(Components(ToSet(Candidates)),
                                  LAMBDA G, H : Oldest(G) < Oldest(H))
       IN  EmitFirst(IF Starved(SeqOfSlot(first)) >= StarveLimit
                     THEN << [now |-> <<first>>, rest |-> <<>>] >>
                     ELSE FlattenSeq([i \in DOMAIN groups |-> Chunks(groups[i])]))

Emit == router.pc = "emit" /\ EmitFirst(router.todo)

(* rollback_packed_to_pending, and the end of the tick: the chunk and the  *)
(* rest of its group starve, the groups not reached do not.                *)
Exhausted ==
    /\ staging' = [s \in Slots |-> IF s \in ToSet(router.packed) /\ staging[s].valid = 2
                                   THEN [staging[s] EXCEPT !.valid = 1] ELSE staging[s]]
    /\ LET passed == router.seqs \cup router.rest
       IN  starving' = [q \in DOMAIN starving \cup passed |->
                           Min({StarveLimit, Starved(q) + (IF q \in passed THEN 1 ELSE 0)})]
    /\ router' = AtRest
    /\ UNCHANGED <<routerOnly, stagingTail, queue, nextSb, nextSeq, db, history>>

ArenaExhausted == router.pc = "publish" /\ Fault("arena") /\ Exhausted

QueueFull ==
    /\ router.pc = "publish" /\ FirstFree(cq, NQueue, cqTail) = -1
    /\ Exhausted
    /\ UNCHANGED faults

(* emit_superbatch_chunk, second part: publish the superbatch.  From here  *)
(* on a committer may claim it, though its entries are not stamped yet.    *)
Publish ==
    /\ router.pc = "publish"
    /\ LET i == FirstFree(cq, NQueue, cqTail)
       IN  /\ i # -1
           /\ cq' = [cq EXCEPT ![i] = [valid |-> 1, sb |-> nextSb + 1, list |-> router.packed,
                                       keys |-> SetToSortSeq(router.keys, <), owner |-> NoOwner]]
    /\ nextSb' = nextSb + 1
    /\ cqTail' = (cqTail + 1) % NQueue
    /\ starving' = [q \in DOMAIN starving \ router.seqs |-> starving[q]]
    /\ router' = [AtRest EXCEPT !.pc = "stampId", !.sb = nextSb + 1, !.k = 1,
                                !.packed = router.packed, !.todo = router.todo]
    /\ UNCHANGED <<routerOnly, ring, cqHead, nextSeq, db, faults, history>>

(* emit_superbatch_chunk, last part, for one entry: the superbatch id, and *)
(* then the exchange of processing for routed.                             *)
StampId ==
    /\ router.pc = "stampId"
    /\ staging' = [staging EXCEPT ![router.packed[router.k]].sb = router.sb]
    /\ router' = [router EXCEPT !.pc = "stampRouted"]
    /\ UNCHANGED <<routerOnly, stagingTail, queue, counters, db, faults, history>>

StampRouted ==
    /\ router.pc = "stampRouted"
    /\ staging' = [staging EXCEPT ![router.packed[router.k]].valid = IF @ = 2 THEN 3 ELSE @]
    /\ router' = IF router.k < Len(router.packed)
                 THEN [router EXCEPT !.pc = "stampId", !.k = @ + 1]
                 ELSE IF router.todo = <<>> THEN AtRest
                 ELSE [AtRest EXCEPT !.pc = "emit", !.todo = router.todo]
    /\ UNCHANGED <<routerOnly, stagingTail, queue, counters, db, faults, history>>

(* The router dies and is started again; its starvation map dies with it.  *)
RouterDies ==
    /\ recovery = "done" /\ Fault("router")
    /\ router' = [AtRest EXCEPT !.pc = "bootQueue"]
    /\ starving' = << >>
    /\ UNCHANGED <<routerOnly, ring, queue, nextSb, nextSeq, db, history>>

(* sweep_queue_phase finishes the stamping of the superbatches nobody has  *)
(* claimed.  Its other case, an entry left completed by a dead committer,  *)
(* does not arise (see EmptyEntry).  The start waits for the recovery.     *)
SweepQueue ==
    /\ router.pc = "bootQueue" /\ recovery = "done"
    /\ LET Restamp(i) == {e \in {cq[q] : q \in Queue} :
                            /\ e.valid = 1 /\ i \in ToSet(e.list)
                            /\ staging[i].valid = 2 /\ staging[i].sb \in {NoSb, e.sb}}
       IN  staging' = [i \in Slots |-> IF Restamp(i) = {} THEN staging[i]
                         ELSE [staging[i] EXCEPT !.valid = 3, !.sb = (CHOOSE e \in Restamp(i) : TRUE).sb]]
    /\ router' = [router EXCEPT !.pc = "bootActive"]
    /\ UNCHANGED <<routerOnly, stagingTail, queue, counters, db, faults, history>>

ActiveSbs == {cq[q].sb : q \in {r \in Queue : cq[r].valid # 0}}

SweepActive ==
    /\ router.pc = "bootActive"
    /\ router' = [router EXCEPT !.pc = "bootStaging", !.active = ActiveSbs]
    /\ UNCHANGED <<routerOnly, ring, queue, counters, db, faults, history>>

Revert(S) ==
    /\ staging' = [i \in Slots |-> IF i \in S THEN [staging[i] EXCEPT !.valid = 1, !.sb = NoSb]
                                   ELSE staging[i]]
    /\ doubled' = doubled \cup {staging[i].sub : i \in
            {j \in S : \/ Lists(cq, j) \/ InHand(staging[j].sub)
                      \/ staging[j].sub \in ToSet(booked)}}

(* sweep_staging_phase: what is processing under no live superbatch goes   *)
(* back to pending.  The id of an entry that a claimed superbatch lists    *)
(* may not be stamped yet.                                                 *)
SweepStaging ==
    /\ router.pc = "bootStaging"
    /\ Revert({i \in Slots : staging[i].valid = 2 /\ staging[i].sb \notin router.active})
    /\ router' = AtRest
    /\ UNCHANGED <<routerOnly, stagingTail, queue, counters, db, faults, lost>>

(* run_audit_sweep, with the router idle and the entry old enough.         *)
(* Pattern A: processing, and the caller's backend has gone.               *)
AuditProcessing(i) ==
    /\ router.pc = "idle" /\ staging[i].valid = 2
    /\ caller[staging[i].call] # "open"
    /\ Revert({i})
    /\ UNCHANGED <<routerOnly, stagingTail, queue, counters, router, db, faults, lost>>

(* Mutant: the envelope is freed without a word.                           *)
AuditRoutedSilent(i) ==
    /\ router.pc = "idle" /\ staging[i].valid = 3
    /\ staging[i].sb \notin ActiveSbs
    /\ caller[staging[i].call] # "open"
    /\ staging' = Tidy([staging EXCEPT ![i].valid = 0, ![i].sb = NoSb], cq)
    /\ UNCHANGED <<routerOnly, stagingTail, queue, counters, router, db, faults, history>>

(* Pattern B: routed under no live superbatch.  The envelope is reported   *)
(* failed, unless it has been reported already; the insert of its status   *)
(* waits for a caller still in progress.                                   *)
AuditRouted(i) ==
    /\ router.pc = "idle" /\ staging[i].valid = 3
    /\ staging[i].sb \notin ActiveSbs
    /\ caller[staging[i].call] # "open"
    /\ staging' = Tidy([staging EXCEPT ![i].valid = 0, ![i].sb = NoSb], cq)
    /\ status' = [status EXCEPT ![staging[i].sub] = IF @ \in {"none", "queued"} THEN "failed" ELSE @]
    /\ UNCHANGED <<routerOnly, stagingTail, queue, counters, router, book, rows, booked, ps,
                   faults, history>>

(* try_recover_orphan, pattern D: an entry whose owner died is handed back.*)
(* The idle committers do it too.                                          *)
RecoverOrphan(q) ==
    /\ cq[q].valid = 2 /\ cq[q].owner # NoOwner /\ ~IsAlive(cq[q].owner)
    /\ cq' = [cq EXCEPT ![q].valid = 1, ![q].owner = NoOwner]
    /\ UNCHANGED <<routerOnly, ring, cqHead, cqTail, counters, router, db, faults, history>>

RouterNext ==
    \/ Tick \/ Emit \/ ArenaExhausted \/ QueueFull \/ Publish \/ StampId \/ StampRouted
    \/ RouterDies \/ SweepQueue \/ SweepActive \/ SweepStaging
    \/ \E i \in Slots : AuditProcessing(i) \/ AuditRouted(i)
    \/ \E q \in Queue : RecoverOrphan(q)
================================================================================
