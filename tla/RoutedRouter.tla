----------------------------- MODULE RoutedRouter ------------------------------
(***************************************************************************)
(* The router of the routed ledger: a single worker that packs pending     *)
(* submissions into commit groups, and the sweep it runs after a restart.  *)
(***************************************************************************)
EXTENDS RoutedShmem

CONSTANT Window   \* router_window_size

AtRest == [pc |-> "idle", todo |-> <<>>, packed |-> <<>>, seqs |-> << >>,
           cg |-> NoGroup, k |-> 0, active |-> {}]

routerOnly == <<caller, generation, work, db>>

(* collect_candidates: the first Window pending slots, those in hot (still *)
(* cooling down after an ejection) skipped.                                *)
Candidates(hot) ==
    LET ready == {s \in Slots : staging[s].valid = 1} \ hot
        ordered == SetToSortSeq(ready, <)
    IN  ToSet(SubSeq(ordered, 1, Min({Window, Len(ordered)})))

(* affinity_group: the connected components of candidates that share pools.*)
Linked(a, b) == Touched(staging[a].sub) \cap Touched(staging[b].sub) # {}
Closed(G, C) == \A a \in G, b \in C \ G : ~Linked(a, b)
Components(C) ==
    {G \in (SUBSET C) \ {{}} :
        Closed(G, C) /\ \A H \in (SUBSET G) \ {{}} : Closed(H, C) => H = G}

Earlier(a, b) == staging[a].sub < staging[b].sub
GroupPools(G) == UNION {Touched(staging[a].sub) : a \in G}

(* group_must_not_split, and the chunks of one component.                  *)
Chunks(G) ==
    LET ordered == SetToSortSeq(G, Earlier)
        cap == IF GroupPools(G) \cap OrderSensitive # {} THEN Len(ordered) ELSE BatchMax
    IN  [i \in 1..((Len(ordered) + cap - 1) \div cap) |->
            SubSeq(ordered, (i - 1) * cap + 1, Min({i * cap, Len(ordered)}))]

(* emit_commit_group, first part: take the chunk's entries (nobody else    *)
(* takes an entry out of pending, so the exchange succeeds), draw a token  *)
(* for each order-sensitive pool, allocate the group's blocks.             *)
EmitFirst(todo) ==
    /\ LET chunk == Head(todo)
           seqs == AssignSeqs(GroupPools(ToSet(chunk)))
       IN  /\ \A p \in DOMAIN seqs : seqs[p] <= MaxTokens
           /\ staging' = [s \in Slots |-> IF s \in ToSet(chunk)
                                          THEN [staging[s] EXCEPT !.valid = 2] ELSE staging[s]]
           /\ assigned' = AssignedAfter(seqs)
           /\ router' = [AtRest EXCEPT !.pc = "publish", !.todo = Tail(todo),
                                       !.packed = chunk, !.seqs = seqs]
    /\ UNCHANGED <<routerOnly, stagingTail, cq, cqHead, cqTail, groups,
                   committed, faults, history>>

(* router_tick: the chunks, groups in order of their first member.  Only   *)
(* the router touches what is pending, so collecting and taking the first  *)
(* chunk are one step.                                                     *)
Tick ==
    /\ router.pc = "idle"
    /\ \E hot \in SUBSET {s \in Slots : staging[s].valid = 1 /\ staging[s].ejects > 0} :
        LET C == Candidates(hot)
            First(G) == Min({staging[a].sub : a \in G})
            inOrder == SetToSortSeq(Components(C), LAMBDA G, H : First(G) < First(H))
        IN  /\ C # {}
            /\ EmitFirst(FlattenSeq([i \in DOMAIN inOrder |-> Chunks(inOrder[i])]))

Emit == router.pc = "emit" /\ EmitFirst(router.todo)

(* The failure exits: entries back to pending, the tokens counted as if    *)
(* their group had committed, the rest of the tick abandoned.              *)
GiveUp ==
    /\ staging' = [s \in Slots |-> IF s \in ToSet(router.packed) /\ staging[s].valid = 2
                                   THEN [staging[s] EXCEPT !.valid = 1] ELSE staging[s]]
    /\ committed' = Advance(router.seqs)
    /\ jumped' = jumped \cup {p \in DOMAIN router.seqs : committed[p] < router.seqs[p] - 1}
    /\ router' = AtRest
    /\ UNCHANGED <<routerOnly, stagingTail, cq, cqHead, cqTail, groups,
                   assigned, dropped, ejected, raced>>

ArenaExhausted ==
    /\ router.pc = "publish" /\ Fault
    /\ GiveUp

QueueFull ==
    /\ router.pc = "publish" /\ FirstFree(cq, NQueue, cqTail) = -1
    /\ GiveUp
    /\ UNCHANGED faults

(* emit_commit_group, second part: publish the group.  From here on a      *)
(* committer may claim it, though its entries are not stamped yet.         *)
Publish ==
    /\ router.pc = "publish"
    /\ LET q == FirstFree(cq, NQueue, cqTail)
       IN  /\ q # -1
           /\ cq' = [cq EXCEPT ![q] = [valid |-> 1, cg |-> groups + 1, list |-> router.packed,
                                       seqs |-> router.seqs, owner |-> NoOwner]]
    /\ groups' = groups + 1
    /\ cqTail' = (cqTail + 1) % NQueue
    /\ router' = [router EXCEPT !.pc = "stampId", !.cg = groups + 1, !.k = 1]
    /\ UNCHANGED <<routerOnly, staging, stagingTail, cqHead, assigned, committed,
                   faults, history>>

(* emit_commit_group, last part, for one entry: the group id, then the     *)
(* exchange of processing for routed.                                      *)
StampId ==
    /\ router.pc = "stampId"
    /\ LET s == router.packed[router.k]
       IN  /\ staging' = [staging EXCEPT ![s].cg = router.cg]
           /\ raced' = IF staging[s].valid = 1 THEN raced \cup {staging[s].sub} ELSE raced
    /\ router' = [router EXCEPT !.pc = "stampRouted"]
    /\ UNCHANGED <<routerOnly, stagingTail, cq, cqHead, cqTail, groups, assigned,
                   committed, faults, dropped, ejected, jumped>>

StampRouted ==
    /\ router.pc = "stampRouted"
    /\ LET s == router.packed[router.k]
       IN  staging' = [staging EXCEPT ![s].valid = IF @ = 2 THEN 3 ELSE @]
    /\ router' = IF router.k < Len(router.packed)
                 THEN [router EXCEPT !.pc = "stampId", !.k = @ + 1]
                 ELSE IF router.todo = <<>> THEN AtRest
                 ELSE [AtRest EXCEPT !.pc = "emit", !.todo = router.todo]
    /\ UNCHANGED <<routerOnly, stagingTail, cq, cqHead, cqTail, groups, assigned,
                   committed, faults, history>>

(* The router exits on an error; the postmaster starts it again, and it    *)
(* sweeps the queue, then the slots.  Only the router fills a queue entry  *)
(* or moves a slot to processing, so it need visit only those that are so  *)
(* when a phase starts.                                                    *)
RouterDies ==
    /\ Fault
    /\ router' = [AtRest EXCEPT !.pc = "bootQueue",
                    !.packed = SetToSortSeq({q \in Queue : cq[q].valid # 0}, <)]
    /\ UNCHANGED <<routerOnly, shmem, history>>

(* sweep_queue_phase, one entry: finish the stamping of a group nobody has *)
(* claimed; hand the entry of a dead committer back.                       *)
SweepEntry ==
    /\ router.pc = "bootQueue" /\ router.packed # <<>>
    /\ LET q == Head(router.packed)
           e == cq[q]
       IN  /\ staging' = IF e.valid = 1
                         THEN FoldLeft(LAMBDA f, s : Restamp(f, s, e.cg), staging, e.list)
                         ELSE staging
           /\ cq' = IF e.valid = 2 /\ e.owner # NoOwner /\ ~IsAlive(e.owner)
                    THEN [cq EXCEPT ![q].valid = 1, ![q].owner = NoOwner]
                    ELSE cq
    /\ router' = [router EXCEPT !.packed = Tail(@)]
    /\ UNCHANGED <<routerOnly, stagingTail, cqHead, cqTail, groups, assigned,
                   committed, faults, history>>

(* sweep_staging_phase: read the live group ids, then revert one slot at a *)
(* time whose group is not among them.                                     *)
SweepActive ==
    /\ router.pc = "bootQueue" /\ router.packed = <<>>
    /\ LET packed == SetToSortSeq({s \in Slots : staging[s].valid = 2}, <)
       IN  router' = IF packed = <<>> THEN AtRest
                     ELSE [router EXCEPT !.pc = "bootStaging", !.packed = packed,
                              !.active = {cq[q].cg : q \in {r \in Queue : cq[r].valid # 0}}]
    /\ UNCHANGED <<routerOnly, shmem, faults, history>>

SweepSlot ==
    /\ router.pc = "bootStaging"
    /\ LET s == Head(router.packed)
       IN  staging' = IF staging[s].valid = 2 /\ staging[s].cg \notin router.active
                      THEN [staging EXCEPT ![s].valid = 1, ![s].cg = NoGroup]
                      ELSE staging
    /\ router' = IF Len(router.packed) > 1 THEN [router EXCEPT !.packed = Tail(@)] ELSE AtRest
    /\ UNCHANGED <<routerOnly, stagingTail, cq, cqHead, cqTail, groups, assigned,
                   committed, faults, history>>

RouterNext ==
    \/ Tick \/ Emit \/ ArenaExhausted \/ QueueFull \/ Publish \/ StampId \/ StampRouted
    \/ RouterDies \/ SweepEntry \/ SweepActive \/ SweepSlot
================================================================================
