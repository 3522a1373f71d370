------------------------------ MODULE RecalcFeed ------------------------------
(***************************************************************************)
(* The costing pipeline: lines are posted, the feed delivers them, engine  *)
(* connections re-cost the pools they dirtied.                             *)
(***************************************************************************)
EXTENDS RecalcEngine, FeedConsumer

\* A pass waiting for a row the feed's transaction has written ...
WaitsForFeed(w) ==
    \/ worker[w].pc = "scanned" /\ feed.floors[worker[w].pool] # 0
    \/ worker[w].pc = "counted" /\ worker[w].pool \in feed.bumped

\* ... and the feed waiting for a row that pass has written.
FeedWaitsFor(w) ==
    /\ worker[w].pc # "idle"
    /\ worker[w].pool \in feed.todo
    /\ \/ feed.pc = "floors" /\ worker[w].own
       \/ feed.pc = "bumps" /\ worker[w].reset
       \/ feed.pc = "marks" /\ (worker[w].inserted \/ worker[w].reset)

CrossLocked(w) == WaitsForFeed(w) /\ FeedWaitsFor(w)

\* The database's deadlock detector rolls one of the two back.
BreakDeadlock(w) ==
    /\ CrossLocked(w)
    /\ \/ /\ feed' = IdleFeed
          /\ UNCHANGED worker
       \/ /\ worker' = [worker EXCEPT ![w] = IdleWorker(worker[w].pool)]
          /\ UNCHANGED feed
    /\ UNCHANGED <<tables, slot, history>>

Next ==
    \/ \E p \in Pools, e \in Pos : PostLine(p, e)
    \/ Ingest
    \/ FeedCrash
    \/ \E w \in Workers : Work(w)
    \/ \E w \in Workers : AbortPass(w)
    \/ \E w \in Workers : BreakDeadlock(w)

Spec == Init /\ [][Next]_vars

\* The consumer binary loops ingest_once and every engine connection loops
\* its call; a lock wait ends when its holder's transaction does, and the
\* database breaks a cycle of waits.
Fairness ==
    /\ WF_vars(Ingest)
    /\ \A w \in Workers : WF_vars(Work(w)) /\ WF_vars(BreakDeadlock(w))
FairSpec == Spec /\ Fairness

-----------------------------------------------------------------------------
\* The events of pool p that the feed has durably applied.
Delivered(p) ==
    {wal[i].pos : i \in {j \in 1..applied : wal[j].pool = p /\ wal[j].pos # 0}}

\* A pool with a recost floor set always has a recalc_queue row: whatever
\* the feed and the passes do to the two tables, a backdated event that was
\* recorded as a floor is never left without a pass to serve it.
FloorQueued == \A p \in Pools : settlement[p].floor # 0 => p \in queue

\* A pool whose unsettled-event counter is nonzero, or that is throttled, has
\* a recalc_queue row: a bump that counted events an earlier pass had settled
\* is always followed by the pass that resets it, so no pool stays throttled
\* with nothing left to drain.
CounterQueued ==
    \A p \in Pools : backlog[p] # 0 \/ p \in throttled => p \in queue

\* The slot never confirms an insert that was not durably applied: neither a
\* batch whose apply rolled back nor one that committed after an empty peek.
CursorApplied == cursor <= applied

\* Committed settlement state only moves forward: no pass lowers a generation
\* or a frontier, and no costed event drops out of the costs.
SettlementForward ==
    [][\A p \in Pools :
         /\ settlement'[p].gen >= settlement[p].gen
         /\ settlement'[p].frontier >= settlement[p].frontier
         /\ folded[p] \subseteq folded'[p]]_vars

\* No event the feed has delivered lies below the frontier, missing from the
\* costs, without a floor at or below it: every such event will be re-costed.
NoStrandedEvent ==
    \A p \in StrictPools : \A e \in Delivered(p) \ folded[p] :
        e < settlement[p].frontier =>
            settlement[p].floor # 0 /\ settlement[p].floor <= e

\* Outside one window the two promises above always hold: every delivered
\* event that did not commit between a pass's last look below its frontier
\* and that pass's commit is in the costs, or its pool is queued with a floor
\* at or below it or with the event above the frontier, where the next pass
\* scans it.
Recoverable ==
    \A p \in StrictPools : \A e \in Delivered(p) \ (folded[p] \cup raced[p]) :
        /\ p \in queue
        /\ \/ e > settlement[p].frontier
           \/ settlement[p].floor # 0 /\ settlement[p].floor <= e

\* Only pools the engine settles are ever throttled or counted: a throttled
\* pool of another method could never be released.
OnlyStrictThrottled ==
    \A p \in Pools : p \in throttled \/ backlog[p] # 0 => p \in StrictPools

\* A drain that commits leaves its pool at the stream head: no queue row, no
\* floor, and no event missing from the costs except one the feed has still
\* to deliver or one that committed inside the window.
DrainedToHead ==
    [][\A w \in Settlers \cup Sweepers : \A p \in StrictPools :
         worker[w].pc = "decided" /\ worker[w].pool = p
            /\ worker'[w].pc = "idle" /\ crashes' = crashes
         => /\ p \notin queue'
            /\ settlement'[p].floor = 0
            /\ Delivered(p) \subseteq folded'[p] \cup raced[p]]_vars

\* Once no more lines are posted the pipeline comes to rest: the adjustment
\* lines the passes themselves post do not keep it busy for ever.
Quiesces == <>[](queue = {})

\* Every floor is eventually served.
FloorServed ==
    \A p \in Pools : settlement[p].floor # 0 ~> settlement[p].floor = 0

\* Every throttled pool is eventually released.
ThrottleReleased == \A p \in Pools : p \in throttled ~> p \notin throttled

\* Every event committed outside that window is eventually in the costs.
EventuallyCosted ==
    \A p \in StrictPools, e \in Pos :
        e \in committed[p] ~> e \in folded[p] \cup raced[p]
=============================================================================
