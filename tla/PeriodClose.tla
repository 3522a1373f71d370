------------------------------ MODULE PeriodClose ------------------------------
(***************************************************************************)
(* Closing an accounting period: ledger_close_period against submissions,  *)
(* recalc workers, the feed and the loss of its slot.  A transaction's     *)
(* writes live in its record until it commits; locks are read off the      *)
(* records.  The amount a depletion costs is abstracted to the set of      *)
(* lines it was computed from (`cost'): every earlier line of its pool is  *)
(* taken to matter.  Statements of a pass after its scan, and a delivery,  *)
(* are coarser here than in RecalcFeed.                                    *)
(***************************************************************************)
EXTENDS Integers, Sequences, FiniteSets, FiniteSetsExt

CONSTANTS Pools, Strict,       \* pool ids; the FIFO and LIFO ones
          Dates, Calendar,     \* business dates; period id -> [first, last]
          Submitters, Workers, \* database connections
          ForceArgs,           \* values of the force argument that callers pass
          Closer, Consumer,    \* the closing session, the feed process
          MaxLines, MaxLosses, MaxCrashes  \* bounds of a behaviour

Periods == DOMAIN Calendar
Never == <<0, 0>>              \* the NULL position: before every line
Idle == [pc |-> "idle"]
Empty == [i \in {} |-> {}]     \* a map with no entry

ASSUME CloseAssumption ==
    /\ Pools \subseteq Nat /\ IsFiniteSet(Pools) /\ Strict \subseteq Pools
    /\ Dates \subseteq Nat \ {0}
    /\ \A p \in Periods : /\ Calendar[p].first \in Dates
                          /\ Calendar[p].last \in Dates
                          /\ Calendar[p].first <= Calendar[p].last
    /\ \A p, q \in Periods : p # q =>
         \/ Calendar[p].last < Calendar[q].first
         \/ Calendar[q].last < Calendar[p].first
    /\ Submitters \cap Workers = {} /\ Closer # Consumer
    /\ {Closer, Consumer} \cap (Submitters \cup Workers) = {}

VARIABLES
    period,     \* accounting_period.state, by period
    lines,      \* committed physical trx_lines in commit order
    slot,       \* the feed's replication slot exists
    delivered,  \* lines at or below its cursor
    queued,     \* pools with a recalc_queue row
    row,        \* pool_settlement with the checkpoint: [frontier, floor, folded]
    cost,       \* latest cost_settlement: depletion -> lines it was costed from
    halted,     \* pools with an unresolved recalc_escalation
    sub,        \* submission transactions
    worker,     \* ledger_recalc_step transactions
    closer,     \* the ledger_close_period transaction
    feed,       \* consumer process: loop, down, fresh, seeding
    losses, crashes,  \* bounded: lost slots, consumer crashes
    misbooked,  \* history: lines whose value residues have moved to variance
    unseeded    \* history: the consumer died with a new slot not yet reseeded

engine == <<row, cost, queued, halted>>
ledger == <<period, lines>>
process == <<slot, delivered, feed, losses, crashes, unseeded>>
vars == <<ledger, engine, process, sub, worker, closer, misbooked>>

Ids == 1..Len(lines)
Pos(i) == <<lines[i].at, i>>
Before(a, b) == a[1] < b[1] \/ (a[1] = b[1] /\ a[2] < b[2])
LinesOf(p) == {i \in Ids : lines[i].pool = p}
Earliest(S) == CHOOSE i \in S : \A j \in S : i = j \/ Before(Pos(i), Pos(j))
Latest(S) == CHOOSE i \in S : \A j \in S : i = j \/ Before(Pos(j), Pos(i))

Init ==
    /\ period = [p \in Periods |-> "open"]
    /\ lines = <<>>
    /\ slot = TRUE
    /\ delivered = 0
    /\ queued = {}
    /\ row = [p \in Pools |-> [frontier |-> Never, floor |-> Never, folded |-> {}]]
    /\ cost = Empty
    /\ halted = {}
    /\ sub = [s \in Submitters |-> Idle]
    /\ worker = [w \in Workers |-> Idle]
    /\ closer = Idle
    /\ feed = "loop"
    /\ losses = 0
    /\ crashes = 0
    /\ misbooked = {}
    /\ unseeded = FALSE

--------------------------------------------------------------------------------
(* Locks.                                                                  *)

SubHolds(s, p) == sub[s].pc # "idle" /\ p \in sub[s].held
WorkerClaims(w, p) == worker[w].pc # "idle" /\ worker[w].pool = p
WorkerHolds(w, p) == worker[w].pc = "commit" /\ worker[w].pool = p /\ worker[w].moves
CloserClaims(p) == closer.pc # "idle" /\ p \in closer.claimed
CloserHolds(p) == closer.pc # "idle" /\ p \in closer.held

\* The fence (32022, 0): every physical insert and settlement insert holds the
\* shared side to its commit, a close takes the exclusive side.  Whoever holds
\* a period's own key holds this one, so the second key adds no wait.
Sharing(x) ==
    \/ x \in Submitters /\ sub[x].pc # "idle" /\ sub[x].fence
    \/ x \in Workers /\ worker[x].pc # "idle" /\ worker[x].fence
    \/ x = Consumer /\ feed = "seeding"
Fenced == closer.pc # "idle" /\ closer.fence

\* At or before the closed frontier, the last day of a closed period: a date
\* that a closed period covers, and every date before it.
ClosedThrough(at) == \E p \in Periods : period[p] = "closed" /\ at <= Calendar[p].last
Frozen(i) == ClosedThrough(lines[i].at)

--------------------------------------------------------------------------------
(* Submissions.  A submission carries one business date and touches pools  *)
(* in ascending order; per line, its statement updates the pool's          *)
(* aggregate row and then the trigger of trx_line runs.                    *)

Submit(s, at, S, outs) ==
    /\ sub[s].pc = "idle"
    /\ Len(lines) + Cardinality(S) <= MaxLines
    /\ sub' = [sub EXCEPT ![s] = [pc |-> "line", at |-> at, outs |-> outs,
                                  todo |-> S, held |-> {}, fence |-> FALSE]]
    /\ UNCHANGED <<ledger, engine, process, worker, closer, misbooked>>

AggregateFree(p, x) ==
    /\ \A s \in Submitters \ {x} : ~SubHolds(s, p)
    /\ \A w \in Workers \ {x} : ~WorkerHolds(w, p)
    /\ x = Closer \/ ~CloserHolds(p)

SubmitAggregate(s) ==
    /\ sub[s].pc = "line"
    /\ AggregateFree(Min(sub[s].todo), s)
    /\ sub' = [sub EXCEPT ![s].pc = "guard", ![s].held = @ \cup {Min(sub[s].todo)}]
    /\ UNCHANGED <<ledger, engine, process, worker, closer, misbooked>>

\* Nothing physical lands at or before the closed frontier.
Admissible(at) == ~ClosedThrough(at)

\* Mutant: the guard does not take the fence.
SubmitGuardUnfenced(s) ==
    LET todo == sub[s].todo \ {Min(sub[s].todo)}
    IN  /\ sub[s].pc = "guard"
        /\ sub' = [sub EXCEPT ![s] =
                     IF ~Admissible(sub[s].at) THEN Idle
                     ELSE [@ EXCEPT !.todo = todo,
                                    !.pc = IF todo = {} THEN "commit" ELSE "line"]]
        /\ UNCHANGED <<ledger, engine, process, worker, closer, misbooked>>

\* period_guard_trx_line: wait for the fence, then reject a date at or before
\* the closed frontier (the transaction rolls back).
SubmitGuard(s) ==
    LET todo == sub[s].todo \ {Min(sub[s].todo)}
    IN  /\ sub[s].pc = "guard"
        /\ ~Fenced
        /\ sub' = [sub EXCEPT ![s] =
                     IF ~Admissible(sub[s].at) THEN Idle
                     ELSE [@ EXCEPT !.fence = TRUE, !.todo = todo,
                                    !.pc = IF todo = {} THEN "commit" ELSE "line"]]
        /\ UNCHANGED <<ledger, engine, process, worker, closer, misbooked>>

SubmitCommit(s) ==
    LET n == Cardinality(sub[s].held)
        line(p) == [pool |-> p, at |-> sub[s].at, out |-> p \in sub[s].outs]
    IN  /\ sub[s].pc = "commit"
        /\ \E pools \in [1..n -> sub[s].held] :
             /\ \A j, k \in 1..n : j < k => pools[j] < pools[k]
             /\ lines' = lines \o [k \in 1..n |-> line(pools[k])]
        /\ sub' = [sub EXCEPT ![s] = Idle]
        /\ UNCHANGED <<period, engine, process, worker, closer, misbooked>>

--------------------------------------------------------------------------------
(* The feed delivers the next line: a floor if it lies behind the pool's   *)
(* frontier, then the dirty mark.  Both wait for a close that has written  *)
(* the pool's rows.                                                        *)

Lower(r, i) ==
    IF r.floor = Never \/ Before(Pos(i), r.floor)
    THEN [r EXCEPT !.floor = Pos(i)] ELSE r

RowsInDoubt(p) == closer.pc # "idle" /\ (p \in DOMAIN closer.rows \/ p \in closer.inserted)

Deliver ==
    LET i == delivered + 1
        p == lines[i].pool
    IN  /\ feed = "loop" /\ slot
        /\ delivered < Len(lines)
        /\ ~RowsInDoubt(p)
        /\ row' = IF Before(Pos(i), row[p].frontier)
                  THEN [row EXCEPT ![p] = Lower(@, i)] ELSE row
        /\ queued' = queued \cup {p}
        /\ delivered' = i
        /\ UNCHANGED <<ledger, cost, halted, slot, feed, losses, crashes, unseeded,
                       sub, worker, closer, misbooked>>

\* The slot is dropped or invalidated; the consumer's next tick exits.
SlotLost ==
    /\ losses < MaxLosses
    /\ slot /\ feed \in {"loop", "down"}
    /\ slot' = FALSE
    /\ feed' = "down"
    /\ losses' = losses + 1
    /\ UNCHANGED <<ledger, engine, delivered, crashes, unseeded, sub, worker, closer,
                   misbooked>>

\* ensure_slot: a slot that has to be created starts at the current position.
ConsumerStart ==
    /\ feed = "down"
    /\ slot' = TRUE
    /\ feed' = IF slot THEN "loop" ELSE "fresh"
    /\ delivered' = IF slot THEN delivered ELSE Len(lines)
    /\ UNCHANGED <<ledger, engine, losses, crashes, unseeded, sub, worker, closer,
                   misbooked>>

\* The history probe, then ledger_feed_reseed's shared side of the fence.
ReseedBegin ==
    /\ feed = "fresh"
    /\ \/ lines = <<>> /\ feed' = "loop"
       \/ lines # <<>> /\ ~Fenced /\ feed' = "seeding"
    /\ UNCHANGED <<ledger, engine, slot, delivered, losses, crashes, unseeded,
                   sub, worker, closer, misbooked>>

\* Mutant: only pools that were settled before are seeded.
ReseedScopeSettled == {p \in Strict : row[p].frontier # Never}

\* Every strict pool with physical activity.
ReseedScope == {p \in Strict : LinesOf(p) # {}}

ReseedApply ==
    /\ feed = "seeding"
    /\ \A p \in ReseedScope : ~RowsInDoubt(p)
    /\ row' = [p \in Pools |-> IF p \in ReseedScope
                               THEN Lower(row[p], Earliest(LinesOf(p))) ELSE row[p]]
    /\ queued' = queued \cup ReseedScope
    /\ feed' = "loop"
    /\ UNCHANGED <<ledger, cost, halted, slot, delivered, losses, crashes, unseeded,
                   sub, worker, closer, misbooked>>

ConsumerCrash ==
    /\ crashes < MaxCrashes
    /\ feed # "down"
    /\ feed' = "down"
    /\ unseeded' = (unseeded \/ feed # "loop")
    /\ crashes' = crashes + 1
    /\ UNCHANGED <<ledger, engine, slot, delivered, losses, sub, worker, closer, misbooked>>

--------------------------------------------------------------------------------
(* A recalc pass over pool p from settlement row r: the lines it scans,    *)
(* what its layers hold afterwards, and the costs it computes.             *)

FullReplay(r) == r.floor # Never \/ r.frontier = Never
ScanFrom(r) == IF FullReplay(r) THEN Never ELSE r.frontier
Scan(p, r) == {i \in LinesOf(p) : Before(ScanFrom(r), Pos(i))}
Folded(r, scan) == scan \cup (IF FullReplay(r) THEN {} ELSE r.folded)
Basis(i, S) == {j \in S : Before(Pos(j), Pos(i))}
Costings(r, scan) ==
    [i \in {j \in scan : lines[j].out} |-> Basis(i, Folded(r, scan))]

\* The costs `new' on top of those in c.
Over(new, c) ==
    [i \in DOMAIN new \cup DOMAIN c |-> IF i \in DOMAIN new THEN new[i] ELSE c[i]]

\* Mutant: costings that stand are written again.
PendingAll(new, c) == DOMAIN new

\* The costings to write, given the costs c on record: new or moved ones.
Pending(new, c) == {i \in DOMAIN new : i \notin DOMAIN c \/ c[i] # new[i]}

Frontier(r, scan) == IF scan = {} THEN r.frontier ELSE Pos(Latest(scan))

\* Mutant: a detector that looks at costs on record only.
DivergesRecorded(pending) == \E i \in pending \cap DOMAIN cost : Frozen(i)

\* detect_closed_period_divergence: a costing at or before the closed frontier.
Diverges(pending) == \E i \in pending : Frozen(i)

\* settle: the frontier moves; a floor lowered since the claim stays.
Settled(now, r, scan) ==
    IF Frontier(r, scan) = Never THEN now
    ELSE [frontier |-> Frontier(r, scan), folded |-> Folded(r, scan),
          floor |-> IF now.floor = r.floor THEN Never ELSE now.floor]

WorkerClaim(w, p) ==
    /\ worker[w].pc = "idle"
    /\ p \in (queued \cap Strict) \ halted
    /\ \A v \in Workers : ~WorkerClaims(v, p)
    /\ ~CloserClaims(p)
    /\ worker' = [worker EXCEPT ![w] = [pc |-> "scanned", pool |-> p, row |-> row[p],
                    scan |-> Scan(p, row[p]), pending |-> {},
                    fence |-> FALSE, moves |-> FALSE]]
    /\ UNCHANGED <<ledger, engine, process, sub, closer, misbooked>>

\* A pool of another method is dropped from the queue.
WorkerSkip(p) ==
    /\ p \in queued \ Strict
    /\ ~CloserClaims(p)
    /\ queued' = queued \ {p}
    /\ UNCHANGED <<ledger, row, cost, halted, process, sub, worker, closer, misbooked>>

\* record_escalation: the queue row and the floor stay.
Escalate(p) == halted' = halted \cup {p} /\ UNCHANGED queued

WorkerDetect(w) ==
    LET W == worker[w]
        pending == Pending(Costings(W.row, W.scan), cost)
    IN  /\ W.pc = "scanned"
        /\ IF Diverges(pending)
           THEN Escalate(W.pool) /\ worker' = [worker EXCEPT ![w] = Idle]
           ELSE /\ worker' = [worker EXCEPT ![w].pending = pending,
                                ![w].pc = IF pending = {} THEN "commit" ELSE "write"]
                /\ UNCHANGED <<halted, queued>>
        /\ UNCHANGED <<ledger, row, cost, process, sub, closer, misbooked>>

\* The settlement rows, under period_guard_cost_settlement, and whether the
\* aggregate has to move: the guard rolls the pass back.
Rejected(w) == \E i \in worker[w].pending : Frozen(i)

WorkerWrite(w, moves) ==
    /\ worker[w].pc = "write"
    /\ ~Fenced
    /\ worker' = [worker EXCEPT ![w] =
                    IF Rejected(w) THEN Idle
                    ELSE [@ EXCEPT !.fence = TRUE,
                                   !.pc = IF moves THEN "reconcile" ELSE "commit"]]
    /\ UNCHANGED <<ledger, engine, process, sub, closer, misbooked>>

WorkerReconcile(w) ==
    /\ worker[w].pc = "reconcile"
    /\ AggregateFree(worker[w].pool, w)
    /\ worker' = [worker EXCEPT ![w].pc = "commit", ![w].moves = TRUE]
    /\ UNCHANGED <<ledger, engine, process, sub, closer, misbooked>>

\* settle, decide_queue and commit.
WorkerCommit(w) ==
    LET W == worker[w]
        p == W.pool
        settled == Settled(row[p], W.row, W.scan)
        missed == {i \in LinesOf(p) \ W.scan :
                     /\ Before(ScanFrom(W.row), Pos(i))
                     /\ ~Before(settled.frontier, Pos(i))}
    IN  /\ W.pc = "commit"
        /\ row' = [row EXCEPT ![p] =
                     IF missed = {} THEN settled ELSE Lower(settled, Earliest(missed))]
        /\ cost' = Over(Costings(W.row, W.scan), cost)
        /\ queued' = IF \/ row'[p].floor # Never
                        \/ \E i \in LinesOf(p) : Before(settled.frontier, Pos(i))
                     THEN queued ELSE queued \ {p}
        /\ worker' = [worker EXCEPT ![w] = Idle]
        /\ UNCHANGED <<ledger, halted, process, sub, closer, misbooked>>

--------------------------------------------------------------------------------
(* ledger_close_period, one transaction.                                   *)

EndOf(p) == Calendar[p].last

\* The strict lines a close values: all up to its end, earlier periods' and
\* uncovered ones included.
Due(p) == {i \in Ids : lines[i].pool \in Strict /\ lines[i].at <= EndOf(p)}

\* The settlement row of pool q as this transaction sees it.
OwnRow(q) == IF q \in DOMAIN closer.rows THEN closer.rows[q] ELSE row[q]

\* gate_pools, and the ones among them that lag.
GatePools(p) == {lines[i].pool : i \in Due(p)}
Lagging(p, q) ==
    \/ \E i \in LinesOf(q) \cap Due(p) : Before(OwnRow(q).frontier, Pos(i))
    \/ OwnRow(q).floor # Never /\ OwnRow(q).floor[1] <= EndOf(p)

CloseStep == UNCHANGED <<ledger, engine, process, sub, worker, misbooked>>

\* Closer mutex, state and order checks, and the baseline of the recount.
\* The mutex and the order check leave one close running at a time.
CloseBegin(p, force) ==
    /\ closer.pc = "idle"
    /\ period[p] # "closed"
    /\ \A q \in Periods : Calendar[q].first < Calendar[p].first => period[q] = "closed"
    /\ closer' = [pc |-> "lsn", period |-> p, force |-> force,
                  baseline |-> Cardinality(Due(p)), lsn |-> 0, lagging |-> FALSE,
                  todo |-> {}, pool |-> 0, claimed |-> {}, inserted |-> {},
                  held |-> {}, swept |-> {}, fence |-> FALSE,
                  rows |-> Empty, cost |-> Empty, residue |-> {}]
    /\ CloseStep

CloseLsn ==
    /\ closer.pc = "lsn"
    /\ closer' = [closer EXCEPT !.pc = "gate", !.lsn = Len(lines)]
    /\ CloseStep

CloseGate ==
    LET gate == GatePools(closer.period)
    IN  /\ closer.pc = "gate"
        /\ closer' = [closer EXCEPT !.pc = "arms", !.todo = gate,
                        !.lagging = \E q \in gate : Lagging(closer.period, q)]
        /\ CloseStep

\* Mutant: force waives the feed-currency arm as well.
GatePassedForced ==
    /\ closer.todo \cap halted = {}
    /\ closer.force \/ (slot /\ delivered >= closer.lsn /\ ~closer.lagging)

\* No halted pool and a current feed, whatever the caller asks; no lag unless
\* forced.
GatePassed ==
    /\ closer.todo \cap halted = {}
    /\ slot /\ delivered >= closer.lsn
    /\ closer.force \/ ~closer.lagging

\* mark_closing commits and the call returns, or the sweep begins.
CloseArms ==
    /\ closer.pc = "arms"
    /\ IF GatePassed
       THEN closer' = [closer EXCEPT !.pc = "sweep"] /\ UNCHANGED period
       ELSE closer' = Idle /\ period' = [period EXCEPT ![closer.period] = "closing"]
    /\ UNCHANGED <<lines, engine, process, sub, worker, misbooked>>

\* Mutant: the claim does not wait for a worker.
SweepClaimSkipping ==
    LET p == Min(closer.todo)
    IN  /\ closer.pc = "sweep" /\ closer.todo # {}
        /\ closer' = IF p \in halted THEN Idle
                     ELSE [closer EXCEPT !.pc = "lock", !.pool = p,
                             !.claimed = @ \cup {p},
                             !.inserted = IF p \in queued THEN @ ELSE @ \cup {p}]
        /\ CloseStep

\* claim_pool: refuses a halted pool (the close rolls back), else creates the
\* queue row if need be and waits for a worker that holds it.
SweepClaim ==
    LET p == Min(closer.todo)
    IN  /\ closer.pc = "sweep" /\ closer.todo # {}
        /\ \/ /\ p \in halted
              /\ closer' = Idle
           \/ /\ p \notin halted
              /\ \A w \in Workers : ~WorkerClaims(w, p)
              /\ closer' = [closer EXCEPT !.pc = "lock", !.pool = p,
                    !.claimed = @ \cup {p},
                    !.inserted = IF p \in queued THEN @ ELSE @ \cup {p}]
        /\ CloseStep

SweepLock ==
    /\ closer.pc = "lock"
    /\ AggregateFree(closer.pool, Closer)
    /\ closer' = [closer EXCEPT !.pc = "drain", !.held = @ \cup {closer.pool}]
    /\ CloseStep

\* drain_pool_to_head and apply_residue.  No line can commit on the pool, so
\* one pass from the row as it is drains it; a divergence rolls the close
\* back.  The residue sets the aggregate's value to the layers', so it is then
\* exactly the lines they lack whose value is in variance.
SweepDrain ==
    LET p == closer.pool
        r == OwnRow(p)
        scan == Scan(p, r)
        new == Costings(r, scan)
    IN  /\ closer.pc = "drain"
        /\ closer' =
             IF Diverges(Pending(new, Over(closer.cost, cost))) THEN Idle
             ELSE [closer EXCEPT !.pc = "sweep", !.todo = @ \ {p}, !.swept = @ \cup {p},
                     !.rows = [q \in closer.swept \cup {p} |->
                                 IF q = p THEN Settled(r, r, scan) ELSE closer.rows[q]],
                     !.cost = Over(new, closer.cost),
                     !.residue = (@ \ LinesOf(p)) \cup (LinesOf(p) \ Folded(r, scan))]
        /\ CloseStep

CloseFence ==
    /\ closer.pc = "sweep" /\ closer.todo = {} /\ ~closer.fence
    /\ \A x \in Submitters \cup Workers \cup {Consumer} : ~Sharing(x)
    /\ closer' = [closer EXCEPT !.fence = TRUE]
    /\ CloseStep

Stragglers ==
    {q \in GatePools(closer.period) : q \notin closer.swept \/ Lagging(closer.period, q)}

CloseRecheck ==
    /\ closer.pc = "sweep" /\ closer.todo = {} /\ closer.fence
    /\ Stragglers # {}
    /\ closer' = [closer EXCEPT !.todo = Stragglers]
    /\ CloseStep

\* Mutant: no recount under the fence.
CloseRecountNone == TRUE

\* No line came into the period since the baseline was read.
CloseRecount == Cardinality(Due(closer.period)) = closer.baseline

\* stamp_closed and commit, or roll the whole close back.
CloseStamp ==
    /\ closer.pc = "sweep" /\ closer.todo = {} /\ closer.fence
    /\ Stragglers = {}
    /\ closer' = Idle
    /\ IF CloseRecount
       THEN /\ period' = [period EXCEPT ![closer.period] = "closed"]
            /\ row' = [p \in Pools |-> OwnRow(p)]
            /\ cost' = Over(closer.cost, cost)
            /\ queued' = queued \ DOMAIN closer.rows
            /\ misbooked' = {i \in misbooked : lines[i].pool \notin closer.swept}
                             \cup closer.residue
       ELSE UNCHANGED <<period, row, cost, queued, misbooked>>
    /\ UNCHANGED <<lines, halted, process, sub, worker>>

--------------------------------------------------------------------------------
(* The database's deadlock detector.                                       *)

Waits(x, y) ==
    \/ /\ x = Closer /\ closer.pc = "sweep" /\ closer.todo # {}
       /\ y \in Workers /\ WorkerClaims(y, Min(closer.todo))
    \/ /\ x = Closer /\ closer.pc = "lock"
       /\ y \in Submitters /\ SubHolds(y, closer.pool)
    \/ /\ x = Closer /\ closer.pc = "sweep" /\ closer.todo = {} /\ ~closer.fence
       /\ y # Closer /\ Sharing(y)
    \/ /\ x \in Submitters /\ sub[x].pc = "line"
       /\ \/ y \in Submitters \ {x} /\ SubHolds(y, Min(sub[x].todo))
          \/ y \in Workers /\ WorkerHolds(y, Min(sub[x].todo))
          \/ y = Closer /\ CloserHolds(Min(sub[x].todo))
    \/ /\ x \in Workers /\ worker[x].pc = "reconcile"
       /\ y \in Submitters /\ SubHolds(y, worker[x].pool)
    \/ /\ y = Closer /\ Fenced
       /\ \/ x \in Submitters /\ sub[x].pc = "guard"
          \/ x \in Workers /\ worker[x].pc = "write"
          \/ x = Consumer /\ feed = "fresh"
    \/ /\ x = Consumer /\ feed = "seeding" /\ y = Closer
       /\ \E p \in ReseedScope : RowsInDoubt(p)

Parties == Submitters \cup Workers \cup {Closer, Consumer}

\* x lies on a cycle of waits.
Deadlocked(x) ==
    /\ \E y \in Parties : Waits(x, y)
    /\ \E S \in SUBSET Parties :
         /\ x \in S
         /\ \A y \in S : (\E z \in S : Waits(y, z)) /\ (\E z \in S : Waits(z, y))

\* A victim rolls back; the consumer, still starting, exits.
BreakDeadlock(x) ==
    /\ Deadlocked(x)
    /\ sub' = IF x \in Submitters THEN [sub EXCEPT ![x] = Idle] ELSE sub
    /\ worker' = IF x \in Workers THEN [worker EXCEPT ![x] = Idle] ELSE worker
    /\ closer' = IF x = Closer THEN Idle ELSE closer
    /\ feed' = IF x = Consumer THEN "down" ELSE feed
    /\ unseeded' = (unseeded \/ x = Consumer)
    /\ UNCHANGED <<ledger, engine, slot, delivered, losses, crashes, misbooked>>

SubmitNext(s) == SubmitAggregate(s) \/ SubmitGuard(s) \/ SubmitCommit(s)
WorkNext(w) ==
    \/ \E p \in Pools : WorkerClaim(w, p)
    \/ WorkerDetect(w)
    \/ \E moves \in BOOLEAN : WorkerWrite(w, moves)
    \/ WorkerReconcile(w)
    \/ WorkerCommit(w)
CloseNext ==
    \/ CloseLsn \/ CloseGate \/ CloseArms \/ SweepClaim \/ SweepLock \/ SweepDrain
    \/ CloseFence \/ CloseRecheck \/ CloseStamp
FeedNext == Deliver \/ ConsumerStart \/ ReseedBegin \/ ReseedApply

Next ==
    \/ \E s \in Submitters, at \in Dates, S \in (SUBSET Pools) \ {{}} :
          \E outs \in SUBSET S : Submit(s, at, S, outs)
    \/ \E s \in Submitters : SubmitNext(s)
    \/ \E w \in Workers : WorkNext(w)
    \/ \E p \in Pools : WorkerSkip(p)
    \/ FeedNext
    \/ SlotLost
    \/ ConsumerCrash
    \/ \E p \in Periods, force \in ForceArgs : CloseBegin(p, force)
    \/ CloseNext
    \/ \E x \in Parties : BreakDeadlock(x)

Spec == Init /\ [][Next]_vars

\* Submissions run to completion, the engine, the feed and its restarts loop.
\* Nothing is assumed of new submissions, of closes or of the deadlock
\* detector: damage is there only once the close that froze it has committed.
Fairness ==
    /\ \A s \in Submitters : WF_vars(SubmitNext(s))
    /\ \A w \in Workers : WF_vars(WorkNext(w))
    /\ WF_vars(FeedNext)
FairSpec == Spec /\ Fairness

--------------------------------------------------------------------------------
RightlyCosted(i) == i \in DOMAIN cost /\ cost[i] = Basis(i, LinesOf(lines[i].pool))
StrictOuts == {i \in Ids : lines[i].out /\ lines[i].pool \in Strict}

\* While the slot is never lost, what a close freezes is right: every
\* depletion of a strict pool up to the end of a closed period is costed from
\* exactly the lines that precede it, whatever was submitted, delivered or
\* being costed while the period closed.
FrozenRight == losses = 0 => \A i \in StrictOuts : Frozen(i) => RightlyCosted(i)

\* While the slot is never lost, no closed period keeps the value of one of its
\* lines in variance: a residue can only hold what a later close takes back.
PeriodNotMisbooked == losses = 0 => \A i \in misbooked : ~Frozen(i)

\* Closed history stands still: no line commits at or before the closed
\* frontier, no cost there changes, and no period opens again.
ClosedStands ==
    [][/\ \A i \in DOMAIN lines' \ DOMAIN lines : ~ClosedThrough(lines'[i].at)
       /\ \A i \in DOMAIN cost' : Frozen(i) => i \in DOMAIN cost /\ cost'[i] = cost[i]
       /\ \A p \in Periods : period[p] = "closed" => period'[p] = "closed"]_vars

\* The settlement guard is a backstop: a pass that found no divergence is
\* never rejected when it writes, although a close may commit in between.
GuardSilent == \A w \in Workers : worker[w].pc = "write" => ~Rejected(w)

\* A pool halts only over a real contradiction: some depletion at or before
\* the closed frontier is not costed from the lines that precede it.
HaltedContradicts ==
    \A p \in halted : \E i \in StrictOuts :
        lines[i].pool = p /\ Frozen(i) /\ ~RightlyCosted(i)

\* Every line the slot will not deliver is in its pool's layers or its pool
\* is queued to fold it.
Accounted ==
    \A p \in Strict : \A i \in LinesOf(p) :
        \/ i > delivered
        \/ i \in row[p].folded
        \/ p \in queued /\ (row[p].floor # Never \/ Before(row[p].frontier, Pos(i)))

\* Once the consumer runs its loop nothing is skipped, although a slot that
\* had to be created again starts past lines nobody delivered, unless the
\* consumer died between creating it and reseeding.
NothingSkipped == feed = "loop" /\ ~unseeded => Accounted

\* A wrong cost in closed history surfaces: its pool is halted in the
\* end, unless the consumer died before reseeding.  Recovery surfaces damage.
DamageSurfaces ==
    \A p \in Strict :
        (\E i \in LinesOf(p) \cap StrictOuts : Frozen(i) /\ ~RightlyCosted(i))
        ~> (p \in halted \/ unseeded)
================================================================================
