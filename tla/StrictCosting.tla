----------------------------- MODULE StrictCosting -----------------------------
(***************************************************************************)
(* The money of one FIFO or LIFO pool: what the hot-path statements record *)
(* provisionally, what recalc passes settle, and how the aggregate row,    *)
(* the settlement history and the adjustment postings keep agreeing while  *)
(* both write.  Scheduling is coarse here (a pass scans in one step and    *)
(* commits in another, a feed batch applies in one step); RecalcFeed has   *)
(* the statement-by-statement interleavings.  A line's id is its index:    *)
(* the hot path holds the pool's aggregate row from before the id is drawn *)
(* until commit, so ids of one pool commit in order.                       *)
(***************************************************************************)
EXTENDS StrictFold, FiniteSets, FiniteSetsExt

CONSTANTS Dates,      \* business dates a line may carry
          ReceiptQtys, DepletionQtys,  \* quantities of a line
          Costs,      \* receipt unit costs
          Standards,  \* standard costs a pool may be configured with
          NoStandard, \* no standard: depletions record the running average
          MaxLines    \* bound on the physical lines of a behaviour

NoPass == [on |-> FALSE]
Never == <<0, 0>>     \* the NULL position: before every line

ASSUME CostingAssumption ==
    /\ Dates \subseteq Nat \ {0}
    /\ ReceiptQtys \cup DepletionQtys \subseteq Nat \ {0}
    /\ Costs \subseteq Nat
    /\ Standards \subseteq Nat \cup {NoStandard} /\ NoStandard \notin Nat
    /\ MaxLines \in Nat

VARIABLES
    newest,       \* method: FALSE fifo, TRUE lifo
    standard,     \* the pool's observation basis
    lines,        \* the physical trx_lines, [at, qty, cost], by id
    agg,          \* pool_state layer 0: [qty, cost, value]
    delivered,    \* lines at or below the slot's cursor
    queued,       \* the recalc_queue row exists
    row,          \* pool_settlement: [gen, frontier, floor]
    layers,       \* pool_state layers > 0, oldest first: [id, qty, cost]
    settlements,  \* cost_settlement: [dep, gen, auth, prior]
    draws,        \* cost_layer_consumption: [dep, layer, gen, qty, cost]
    postings,     \* adjustment posting_lines: [dep, gen, amount, debit]
    pass,         \* the open recalc transaction
    flushed       \* history: value dropped by the exact-empty flush

config == <<newest, standard>>
recalc == <<row, layers, settlements, draws, postings>>
vars == <<config, lines, agg, delivered, queued, recalc, pass, flushed>>

Ids == 1..Len(lines)
Pos(i) == <<lines[i].at, i>>
Before(a, b) == a[1] < b[1] \/ (a[1] = b[1] /\ a[2] < b[2])
Receipts == {i \in Ids : lines[i].qty > 0}
Depletions == {i \in Ids : lines[i].qty < 0}

Init ==
    /\ newest \in BOOLEAN
    /\ standard \in Standards
    /\ lines = <<>>
    /\ agg = [qty |-> 0, cost |-> 0, value |-> 0]
    /\ delivered = 0
    /\ queued = FALSE
    /\ row = [gen |-> 0, frontier |-> Never, floor |-> Never]
    /\ layers = <<>>
    /\ settlements = {}
    /\ draws = {}
    /\ postings = {}
    /\ pass = NoPass
    /\ flushed = 0

--------------------------------------------------------------------------------
(* The hot path: one statement moves the aggregate and appends the line.   *)
(* The zero aggregate stands for the absent row, whose insert arm computes *)
(* the same values.                                                        *)

\* The derived average, kept while the pool is short.
Average(qty, value) ==
    IF qty > 0 THEN SqlBankerDiv(value, qty) ELSE agg.cost

FLReceipt(at, q, c) ==
    LET value == agg.value + q * c
    IN  /\ Len(lines) < MaxLines
        /\ lines' = Append(lines, [at |-> at, qty |-> q, cost |-> c])
        /\ agg' = [qty |-> agg.qty + q, value |-> value,
                   cost |-> Average(agg.qty + q, value)]
        /\ UNCHANGED <<config, delivered, queued, recalc, pass, flushed>>

\* The cost a depletion records: the standard, else the average, never
\* negative.
Observed == IF standard # NoStandard THEN standard
            ELSE IF agg.cost < 0 THEN 0 ELSE agg.cost

FLDeplete(at, q) ==
    LET value == agg.value - q * Observed
    IN  /\ Len(lines) < MaxLines
        /\ lines' = Append(lines, [at |-> at, qty |-> -q, cost |-> Observed])
        /\ agg' = [qty |-> agg.qty - q,
                   value |-> IF agg.qty = q THEN 0 ELSE value,
                   cost |-> Average(agg.qty - q, value)]
        /\ flushed' = IF agg.qty = q THEN flushed + value ELSE flushed
        /\ UNCHANGED <<config, delivered, queued, recalc, pass>>

--------------------------------------------------------------------------------
(* The feed: a batch lowers the floor to its earliest line if that lies    *)
(* behind the frontier, and marks the pool dirty.  The cursor may stay     *)
(* behind (a crash before the advance): the batch is then delivered again. *)

Earliest(S) == CHOOSE i \in S : \A j \in S : i = j \/ Before(Pos(i), Pos(j))

Lower(r, i) ==
    IF r.floor = Never \/ Before(Pos(i), r.floor)
    THEN [r EXCEPT !.floor = Pos(i)] ELSE r

Deliver(upto, advance) ==
    LET first == Earliest((delivered + 1)..upto)
    IN  /\ row' = IF Before(Pos(first), row.frontier) THEN Lower(row, first) ELSE row
        /\ queued' = TRUE
        /\ delivered' = IF advance THEN upto ELSE delivered
        /\ UNCHANGED <<config, lines, agg, layers, settlements, draws, postings,
                       pass, flushed>>

--------------------------------------------------------------------------------
(* A recalc pass.                                                          *)

\* Any floor, or no frontier yet, replays the pool from its first event.
FullReplay(r) == r.floor # Never \/ r.frontier = Never
ScanFrom(r) == IF FullReplay(r) THEN Never ELSE r.frontier

InOrder(S) == SortSeq(SelectSeq([i \in Ids |-> i], LAMBDA i : i \in S),
                      LAMBDA i, j : Before(Pos(i), Pos(j)))
Event(i) == [id |-> i, qty |-> lines[i].qty, cost |-> lines[i].cost]
Events(seq) == [k \in DOMAIN seq |-> Event(seq[k])]

\* claim_next, hydrate_layers, scan_events: the settlement row and the lines
\* past the scan position, as of now.
PassScan ==
    /\ queued
    /\ ~pass.on
    /\ pass' = [on |-> TRUE, row |-> row,
                scan |-> {i \in Ids : Before(ScanFrom(row), Pos(i))}]
    /\ UNCHANGED <<config, lines, agg, delivered, queued, recalc, flushed>>

Fold == strict_fold(newest, IF FullReplay(pass.row) THEN <<>> ELSE layers,
                    Events(InOrder(pass.scan)))

\* A depletion's authoritative cost: its last generation's, else the cost the
\* line recorded.
Rows(dep) == {s \in settlements : s.dep = dep}
Latest(dep) == CHOOSE s \in Rows(dep) : \A t \in Rows(dep) : t.gen <= s.gen
Current(dep) == IF Rows(dep) = {} THEN lines[dep].cost ELSE Latest(dep).auth

\* load_priors, with the observed cost for a first costing.
Prior(dep) == Current(dep)

\* Mutant: every costing is written, moved or not.
PendingAll(costings) == Range(costings)

\* What the pass writes: first costings and moved costs.
Pending(costings) ==
    {c \in Range(costings) : Rows(c.dep) = {} \/ c.auth # Prior(c.dep)}

Delta(c) == (c.auth - Prior(c.dep)) * c.qty

\* Mutant: the posting's direction is always the receipt's.
PostingUnsigned(c, gen) ==
    [dep |-> c.dep, gen |-> gen, amount |-> Abs(Delta(c)), debit |-> "inventory"]

\* A positive delta moves more value out of inventory, a negative one hands
\* it back.
Posting(c, gen) ==
    [dep |-> c.dep, gen |-> gen, amount |-> Abs(Delta(c)),
     debit |-> IF Delta(c) > 0 THEN "offset" ELSE "inventory"]

write_generation(pending, gen) ==
    /\ settlements' = settlements \cup
         {[dep |-> c.dep, gen |-> gen, auth |-> c.auth, prior |-> Prior(c.dep)] :
            c \in pending}
    /\ draws' = draws \cup UNION
         {{[dep |-> c.dep, layer |-> d.id, gen |-> gen, qty |-> d.qty,
            cost |-> d.cost] : d \in Range(c.draws)} : c \in pending}
    /\ postings' = postings \cup
         {Posting(c, gen) : c \in {p \in pending : Delta(p) # 0}}

\* Mutant: the net goes to the average, not to the value.
ReconcileCost(net) == [agg EXCEPT !.cost = Average(agg.qty, agg.value - net)]

\* reconcile_aggregate_value, on the aggregate as it is at commit.
Reconcile(net) ==
    [agg EXCEPT !.value = @ - net, !.cost = Average(agg.qty, agg.value - net)]

\* settle: a floor lowered since the claim survives.
Settle(gen, frontier) ==
    [gen |-> IF row.gen > gen THEN row.gen ELSE gen, frontier |-> frontier,
     floor |-> IF row.floor = pass.row.floor THEN Never ELSE row.floor]

\* The last scanned line, else the claimed frontier.
Frontier ==
    IF pass.scan = {} THEN pass.row.frontier
    ELSE Pos(Last(InOrder(pass.scan)))

\* Mutant: lines that slipped in behind the new frontier are not looked for.
MissedNone == {}

\* decide_queue: lines inside the replayed range that the scan did not see.
Missed ==
    {i \in Ids \ pass.scan :
        Before(ScanFrom(pass.row), Pos(i)) /\ ~Before(Frontier, Pos(i))}

\* run_claimed_pass from the fold to the commit: the generation, the layers,
\* the aggregate, the settlement row, the queue row.
PassCommit ==
    LET out == Fold
        pending == Pending(out.costings)
        gen == pass.row.gen + (IF pending = {} THEN 0 ELSE 1)
        net == MapThenSumSet(Delta, pending)
        settled == IF Frontier = Never THEN row ELSE Settle(gen, Frontier)
    IN  /\ pass.on
        /\ write_generation(pending, gen)
        /\ layers' = IF pass.scan = {} THEN layers ELSE out.layers
        /\ agg' = IF net = 0 THEN agg ELSE Reconcile(net)
        /\ row' = IF Missed = {} THEN settled ELSE Lower(settled, Earliest(Missed))
        /\ queued' = \/ row'.floor # Never
                     \/ \E i \in Ids : Before(Frontier, Pos(i))
        /\ pass' = NoPass
        /\ UNCHANGED <<config, lines, delivered, flushed>>

\* An error or a lost connection: the transaction leaves nothing.
PassAbort ==
    /\ pass.on
    /\ pass' = NoPass
    /\ UNCHANGED <<config, lines, agg, delivered, queued, recalc, flushed>>

Next ==
    \/ \E at \in Dates, q \in ReceiptQtys, c \in Costs : FLReceipt(at, q, c)
    \/ \E at \in Dates, q \in DepletionQtys : FLDeplete(at, q)
    \/ \E upto \in (delivered + 1)..Len(lines), advance \in BOOLEAN :
          Deliver(upto, advance)
    \/ PassScan
    \/ PassCommit
    \/ PassAbort

Spec == Init /\ [][Next]_vars

--------------------------------------------------------------------------------
(* The reference: every unit of a receipt is a token; a depletion takes    *)
(* the tokens it needs from the oldest (FIFO) or newest (LIFO) end.        *)

Stream == InOrder(Ids)

\* Tokens carry their receipt's rank in the stream s.
Tokens(s, k) == {<<k, u>> : u \in 1..lines[s[k]].qty}
Least(S, n) == {t \in S : Cardinality({u \in S : Before(u, t)}) < n}
Most(S, n) == {t \in S : Cardinality({u \in S : Before(t, u)}) < n}
Taken(S, n) == IF newest THEN Most(S, n) ELSE Least(S, n)

\* The tokens left after the first k events of the stream.
Left(s) == LET left[k \in 0..Len(s)] ==
                 IF k = 0 THEN {}
                 ELSE LET q == lines[s[k]].qty
                      IN  IF q > 0 THEN left[k - 1] \cup Tokens(s, k)
                          ELSE left[k - 1] \ Taken(left[k - 1], -q)
           IN  left

\* The k-th event of the stream, a depletion that takes `taken', must be
\* costed at their average, with its recorded cost for what they do not
\* cover.
CostedFrom(i, taken, s) ==
    HalfEven(Current(i),
             MapThenSumSet(LAMBDA t : lines[s[t[1]]].cost, taken)
             + (-lines[i].qty - Cardinality(taken)) * lines[i].cost,
             -lines[i].qty)
StrictCosts ==
    LET s == Stream
        left == Left(s)
    IN  \A k \in Ids : lines[s[k]].qty < 0 =>
          CostedFrom(s[k], Taken(left[k - 1], -lines[s[k]].qty), s)

AtRest == ~pass.on /\ ~queued /\ delivered = Len(lines)

\* A pool at rest is costed exactly as one strict walk over its lines in
\* business order would cost it, however the passes, backdated arrivals,
\* redeliveries and rollbacks split the work.
StrictAtRest == AtRest => StrictCosts

\* The aggregate's value is, at every moment, what the lines are worth at
\* their current authoritative costs, less what exact-empty flushes dropped:
\* corrections and concurrent appends neither get lost nor count twice.
BookValue ==
    agg.value + flushed =
        MapThenSumSet(LAMBDA i : lines[i].qty * lines[i].cost, Receipts)
        + MapThenSumSet(LAMBDA i : lines[i].qty * Current(i), Depletions)

\* What the adjustments posted for a depletion adds up to its authoritative
\* value less the value its line recorded: never posted twice, never in the
\* wrong direction.
PostedIsCorrection ==
    \A i \in Depletions :
        MapThenSumSet(LAMBDA p : IF p.debit = "offset" THEN p.amount ELSE -p.amount,
                      {p \in postings : p.dep = i})
        = -lines[i].qty * (Current(i) - lines[i].cost)

\* A pass writes a generation, posts or moves the aggregate only if something
\* was not yet costed as the strict walk costs it, or lines slipped past its
\* scan: a redelivered backdate, a retry or an idle pass costs nothing.
WritesOnlyCorrections ==
    [][/\ lines' = lines
       /\ <<agg, row.gen, settlements, draws, postings>>'
            # <<agg, row.gen, settlements, draws, postings>>
       => \/ pass.scan # {i \in Ids : Before(ScanFrom(pass.row), Pos(i))}
          \/ \E i \in Depletions : Rows(i) = {}
          \/ ~StrictCosts]_vars
================================================================================
