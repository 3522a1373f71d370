-------------------------------- MODULE HotPath --------------------------------
(***************************************************************************)
(* The write path of ledger-v3.2: ledger_submit_trx called by client       *)
(* sessions, and ledger_staging_drain called by committers over the        *)
(* ledger_inbox table.  Both run apply_submission; a drain runs it for a   *)
(* batch of claimed rows in one transaction, each in a subtransaction.     *)
(*                                                                         *)
(* An actor's transaction is its overlay of what it wrote (pool_state rows *)
(* of the pools it holds, trx rows, lines, legs) and its locks.  PostgreSQL *)
(* is external: row locks held to the end of the transaction, a unique-key *)
(* insert that waits for an open one, identity columns that keep no gaps   *)
(* in mind, a deadlock detector that raises an error in one waiter.        *)
(***************************************************************************)
EXTENDS HotMethods, FiniteSets

CONSTANTS Callers,      \* sessions that call ledger_submit_trx
          Drains,       \* sessions that loop over ledger_staging_drain
          Loads,        \* a sequence of the loads to run, see MCHotPath
          Limit         \* ledger_staging_drain's p_limit

VARIABLES load,         \* the load of this behaviour
          pools,        \* committed pool_state, by pool
          trx, lines, legs,     \* committed trx, trx_line and posting_line rows
          nextId,       \* the identity sequence of trx_line
          inbox,        \* status of every ledger_inbox row, "absent" before its insert
          throttled,    \* recalc_backpressure
          tx,           \* the transaction of every actor
          sent,         \* submissions each caller has yet to send
          faults,       \* faults of the load that have happened
          interrupted   \* inbox rows failed by a cancel, a timeout or a deadlock

committed == <<pools, trx, lines, legs>>
vars == <<load, committed, nextId, inbox, throttled, tx, sent, faults, interrupted>>

Actors == Callers \cup Drains
Cfg == load.cfg
Rows == DOMAIN load.inbox
Idle == [pc |-> "idle", from |-> 0, sub |-> <<>>, todo |-> <<>>, pools |-> <<>>, trx |-> {}, lines |-> {},
         legs |-> {}, locks |-> {}, batch |-> <<>>, marks |-> <<>>, save |-> <<>>]

Fault(kind) == kind \in load.faults \ faults /\ faults' = faults \cup {kind}

Init ==
    /\ load \in ToSet(Loads)
    /\ pools = [p \in DOMAIN load.cfg |-> NoRow]
    /\ trx = {} /\ lines = {} /\ legs = {} /\ nextId = 0
    /\ inbox = [i \in DOMAIN load.inbox |-> "absent"]
    /\ throttled = {} /\ faults = {} /\ interrupted = {}
    /\ tx = [a \in Actors |-> Idle]
    /\ sent = [c \in Callers |-> load.calls[c]]

(* What an actor sees of a pool: its own writes over what is committed.    *)
See(a, p) == IF p \in DOMAIN tx[a].pools THEN tx[a].pools[p] ELSE pools[p]
HeldByOther(a, r) == \E b \in Actors \ {a} : r \in tx[b].locks

(***************************************************************************)
(* A submission as its steps.  Lines of quantity zero are dropped; the trx *)
(* row comes first, then the locks of the STD and specific pools in        *)
(* ascending order, their plan, and one statement per remaining line,      *)
(* sorted by pool and, within a pool, as submitted.                        *)
(***************************************************************************)
Applied(sub) == SelectSeq(sub.lines, LAMBDA l : l.qty # 0)
Touched(sub) == {l.pool : l \in ToSet(Applied(sub))}
Core(p) == Cfg[p].method \in {"std", "specific"}
CoreLines(sub) == SelectSeq(Applied(sub), LAMBDA l : Core(l.pool))
CorePools(sub) == {l.pool : l \in ToSet(CoreLines(sub))}
Ascending(S) == SetToSortSeq(S, LAMBDA p, q : p < q)
CteLines(sub) ==
    FlattenSeq([k \in 1..Cardinality(Touched(sub)) |->
        SelectSeq(Applied(sub), LAMBDA l : l.pool = Ascending(Touched(sub))[k] /\ ~Core(l.pool))])

Step(op, arg) == [op |-> op, arg |-> arg]
Steps(sub) ==
    LET locks == Ascending(CorePools(sub))
    IN  <<Step("trx", sub.key)>>
        \o [k \in DOMAIN locks |-> Step("lock", locks[k])]
        \o (IF locks = <<>> THEN <<>> ELSE <<Step("core", CoreLines(sub))>>)
        \o [k \in DOMAIN CteLines(sub) |-> Step("cte", CteLines(sub)[k])]

(* What apply_submission checks before it writes: line types, the throttle *)
(* when it is asked to, every touched pool known and with its accounts.    *)
Admissible(sub, enforce) ==
    /\ sub.typed
    /\ enforce => Touched(sub) \cap throttled = {}
    /\ \A p \in Touched(sub) : p \in DOMAIN Cfg /\ Cfg[p].accounts

(***************************************************************************)
(* The steps, for actor a at the head of its list.                         *)
(***************************************************************************)
Doing(a, op) == tx[a].pc = "apply" /\ tx[a].todo # <<>> /\ Head(tx[a].todo).op = op
Arg(a) == Head(tx[a].todo).arg

\* The statements of the commutative phase wait for nobody's row.
WantsNoTuple(a) ==
    IF tx[a].pc # "apply" \/ tx[a].todo = <<>> THEN {}
    ELSE IF Head(tx[a].todo).op = "trx" THEN {<<"trx", Arg(a)>>}
    ELSE IF Head(tx[a].todo).op = "lock" THEN {<<"pool", Arg(a)>>}
    ELSE {}

(* The lock the next step has to get.  A WAC depletion of a pool that has  *)
(* no committed row finds nothing to wait for.                             *)
Wants(a) ==
    IF tx[a].pc # "apply" \/ tx[a].todo = <<>> THEN {}
    ELSE IF Head(tx[a].todo).op = "trx" THEN {<<"trx", Arg(a)>>}
    ELSE IF Head(tx[a].todo).op = "lock" THEN {<<"pool", Arg(a)>>}
    ELSE IF Head(tx[a].todo).op = "cte"
            /\ (Cfg[Arg(a).pool].method = "wac" /\ Arg(a).qty < 0 => See(a, Arg(a).pool).there)
         THEN {<<"state", Arg(a).pool>>}
    ELSE {}
Blocked(a) == \E r \in Wants(a) : HeldByOther(a, r)

Advance(a, changed) ==
    tx' = [tx EXCEPT ![a] = [changed EXCEPT !.todo = Tail(@), !.locks = @ \cup Wants(a)]]

\* The error is caught, and nothing undoes what was written before it.
RolledBackNot(t) == t

(* An error.  A client's transaction ends with it; the drain rolls the     *)
(* subtransaction back, which gives up the locks taken in it, and marks    *)
(* the row.                                                                *)
RolledBack(t) == [t EXCEPT !.pools = t.save.pools, !.trx = t.save.trx, !.lines = t.save.lines,
                           !.legs = t.save.legs, !.locks = t.save.locks]
Caught(t) == [RolledBack(t) EXCEPT !.pc = "batch", !.todo = <<>>, !.marks = @ @@ (t.from :> "failed")]

Raise(a) == tx' = [tx EXCEPT ![a] = IF a \in Drains THEN Caught(@) ELSE Idle]

untouched == <<load, committed, inbox, throttled, sent, faults, interrupted>>

(* INSERT INTO trx: unique on the key.                                     *)
InsertTrx(a) ==
    /\ Doing(a, "trx") /\ ~Blocked(a)
    /\ IF \E t \in trx \cup tx[a].trx : t.key = Arg(a) THEN Raise(a)
       ELSE Advance(a, [tx[a] EXCEPT !.trx = @ \cup {[key |-> Arg(a), from |-> tx[a].from]}])
    /\ UNCHANGED <<untouched, nextId>>

LockPool(a) ==
    /\ Doing(a, "lock") /\ ~Blocked(a)
    /\ Advance(a, tx[a])
    /\ UNCHANGED <<untouched, nextId>>

Numbered(key, outs) ==
    {[id |-> nextId + k, key |-> key, pool |-> outs[k].pool, qty |-> outs[k].qty, uc |-> outs[k].uc] :
        k \in DOMAIN outs}
Posted(key, posts) ==
    {[key |-> key, n |-> nextId + k, pool |-> posts[k].pool, debit |-> posts[k].debit,
      credit |-> posts[k].credit, amount |-> posts[k].amount] : k \in DOMAIN posts}

(* Hydrate, plan and write the STD and specific lines, under the locks.    *)
ApplyCore(a) ==
    LET ps == {l.pool : l \in ToSet(Arg(a))}
        plan == plan_apply(Cfg, [p \in ps |-> See(a, p)], Arg(a))
        key == tx[a].sub.key
    IN  /\ Doing(a, "core")
        /\ IF ~plan.ok \/ ~CheckHolds(plan.lines) \/ ~AtMostOnce(plan.upserts)
           THEN Raise(a) /\ UNCHANGED nextId
           ELSE /\ Advance(a, [tx[a] EXCEPT
                      !.pools = [p \in ps |-> Mutated(plan, p, See(a, p), nextId)] @@ @,
                      !.lines = @ \cup Numbered(key, plan.lines),
                      !.legs = @ \cup Posted(key, plan.legs)])
                /\ nextId' = nextId + Len(plan.lines)
        /\ UNCHANGED untouched

(* One statement of the commutative phase.                                 *)
ApplyCte(a) ==
    LET line == Arg(a)
        out == dispatch_cte_line(Cfg, See(a, line.pool), line)
        key == tx[a].sub.key
        post == Legs(Cfg, line, out[1].uc)
    IN  /\ Doing(a, "cte") /\ ~Blocked(a)
        /\ IF out = <<>> \/ ~CheckHolds(out) THEN Raise(a) /\ UNCHANGED nextId
           ELSE /\ Advance(a, [tx[a] EXCEPT
                      !.pools = (line.pool :> out[1].row) @@ @,
                      !.lines = @ \cup Numbered(key, <<Output(line, out[1].uc)>>),
                      !.legs = @ \cup Posted(key, post)])
                /\ nextId' = nextId + 1
        /\ UNCHANGED untouched

(***************************************************************************)
(* ledger_submit_trx in a client's transaction, which the client ends.     *)
(***************************************************************************)
Submit(c) ==
    /\ tx[c].pc = "idle" /\ sent[c] # <<>>
    /\ sent' = [sent EXCEPT ![c] = Tail(@)]
    /\ LET sub == Head(sent[c])
       IN  IF sub.decodes /\ Admissible(sub, TRUE)
           THEN tx' = [tx EXCEPT ![c] = [Idle EXCEPT !.pc = "apply", !.sub = sub, !.todo = Steps(sub)]]
           ELSE UNCHANGED tx
    /\ UNCHANGED <<load, committed, nextId, inbox, throttled, faults, interrupted>>

Publish(a) ==
    /\ pools' = tx[a].pools @@ pools
    /\ trx' = trx \cup tx[a].trx /\ lines' = lines \cup tx[a].lines /\ legs' = legs \cup tx[a].legs
    /\ tx' = [tx EXCEPT ![a] = Idle]

Commit(c) ==
    /\ tx[c].pc = "apply" /\ tx[c].todo = <<>>
    /\ Publish(c)
    /\ UNCHANGED <<load, nextId, inbox, throttled, sent, faults, interrupted>>

(***************************************************************************)
(* The staging path.  A row is inserted, and committed, past the gate of   *)
(* the BEFORE INSERT trigger, which lets through what it cannot read.      *)
(***************************************************************************)
Enqueue(i) ==
    /\ inbox[i] = "absent"
    /\ load.inbox[i].decodes => Touched(load.inbox[i]) \cap throttled = {}
    /\ inbox' = [inbox EXCEPT ![i] = "pending"]
    /\ UNCHANGED <<load, committed, nextId, throttled, tx, sent, faults, interrupted>>

Claimable(d) == {i \in Rows : inbox[i] = "pending" /\ ~HeldByOther(d, <<"row", i>>)}

(* Claim up to Limit pending rows, skipping locked ones; those that do not *)
(* decode have failed already.                                             *)
Claim(d) ==
    LET ids == Ascending(Claimable(d))
        batch == SubSeq(ids, 1, IF Len(ids) < Limit THEN Len(ids) ELSE Limit)
        bad == {i \in ToSet(batch) : ~load.inbox[i].decodes}
    IN  /\ tx[d].pc = "idle" /\ ids # <<>>
        /\ tx' = [tx EXCEPT ![d] = [Idle EXCEPT !.pc = "batch",
                      !.batch = SelectSeq(batch, LAMBDA i : i \notin bad),
                      !.marks = [i \in bad |-> "failed"],
                      !.locks = {<<"row", i>> : i \in ToSet(batch)}]]
        /\ UNCHANGED <<load, committed, nextId, inbox, throttled, sent, faults, interrupted>>

(* The next submission of the batch, in a subtransaction, the throttle not *)
(* consulted.                                                              *)
BeginSub(d) ==
    LET i == Head(tx[d].batch)
        sub == load.inbox[i]
        t == [tx[d] EXCEPT !.batch = Tail(@), !.from = i, !.sub = sub, !.pc = "apply",
                           !.save = [pools |-> tx[d].pools, trx |-> tx[d].trx, lines |-> tx[d].lines,
                                     legs |-> tx[d].legs, locks |-> tx[d].locks]]
    IN  /\ tx[d].pc = "batch" /\ tx[d].batch # <<>>
        /\ tx' = [tx EXCEPT ![d] = IF Admissible(sub, FALSE) THEN [t EXCEPT !.todo = Steps(sub)] ELSE Caught(t)]
        /\ UNCHANGED <<untouched, nextId>>

ReleaseSub(d) ==
    /\ tx[d].pc = "apply" /\ tx[d].todo = <<>>
    /\ tx' = [tx EXCEPT ![d].pc = "batch", ![d].save = <<>>, ![d].marks = @ @@ (tx[d].from :> "done")]
    /\ UNCHANGED <<untouched, nextId>>

(* The outcomes are recorded in the transaction that did the writes.       *)
Record(d) ==
    /\ tx[d].pc = "batch" /\ tx[d].batch = <<>>
    /\ inbox' = tx[d].marks @@ inbox
    /\ Publish(d)
    /\ UNCHANGED <<load, nextId, throttled, sent, faults, interrupted>>

(***************************************************************************)
(* What happens to a transaction: the client rolls back or its backend     *)
(* dies; a statement is cancelled or times out, which the drain catches    *)
(* like any error; the deadlock detector chooses a waiter of a cycle.      *)
(***************************************************************************)
Abandon(a) ==
    /\ tx[a].pc # "idle" /\ Fault("abandon")
    /\ tx' = [tx EXCEPT ![a] = Idle]
    /\ UNCHANGED <<load, committed, nextId, inbox, throttled, sent, interrupted>>

Struck(a) == /\ Raise(a)
             /\ interrupted' = interrupted \cup (IF a \in Drains THEN {tx[a].from} ELSE {})
             /\ UNCHANGED <<load, committed, nextId, inbox, throttled, sent>>

Interrupt(a) == tx[a].pc = "apply" /\ tx[a].todo # <<>> /\ Fault("interrupt") /\ Struck(a)

WaitsOn(a) == {b \in Actors \ {a} : Wants(a) \cap tx[b].locks # {}}
\* A lock has one holder, so a set in which everyone waits and is waited for is made of cycles.
Cycle(S) == \A a \in S : WaitsOn(a) \cap S # {} /\ \E b \in S : a \in WaitsOn(b)
BreakDeadlock(a) ==
    /\ Blocked(a) /\ \E S \in SUBSET Actors : a \in S /\ Cycle(S)
    /\ Struck(a) /\ UNCHANGED faults

(* The feed engages the throttle and the recalc engine releases it.        *)
Engage(p) ==
    /\ throttled = {} /\ Fault("throttle")
    /\ throttled' = {p}
    /\ UNCHANGED <<load, committed, nextId, inbox, tx, sent, interrupted>>
Disengage ==
    /\ throttled # {} /\ throttled' = {}
    /\ UNCHANGED <<load, committed, nextId, inbox, tx, sent, faults, interrupted>>

Perform(a) == InsertTrx(a) \/ LockPool(a) \/ ApplyCore(a) \/ ApplyCte(a)
Drain(d) == Claim(d) \/ BeginSub(d) \/ ReleaseSub(d) \/ Record(d)

(* The load worked off: the only way to have nothing left to do.           *)
Finished ==
    /\ \A c \in Callers : sent[c] = <<>>
    /\ \A i \in Rows : inbox[i] \in {"done", "failed"}
    /\ \A a \in Actors : tx[a].pc = "idle"
    /\ UNCHANGED vars

Next ==
    \/ \E a \in Actors : Perform(a)
    \/ \E c \in Callers : Submit(c) \/ Commit(c)
    \/ \E d \in Drains : Drain(d)
    \/ \E i \in Rows : Enqueue(i)
    \/ \E a \in Actors : Abandon(a) \/ Interrupt(a) \/ BreakDeadlock(a)
    \/ \E p \in load.throttle : Engage(p)
    \/ Disengage
    \/ Finished

Spec == Init /\ [][Next]_vars

--------------------------------------------------------------------------------
(* Properties of what is committed.                                        *)
Of(p) == {l \in lines : l.pool = p}
Qty(S) == MapThenSumSet(LAMBDA l : l.qty, S)
Book(S) == MapThenSumSet(LAMBDA l : l.qty * l.uc, S)
Upto(l) == {m \in Of(l.pool) : m.id <= l.id}
Emptying(p) == {l \in Of(p) : l.qty < 0 /\ Qty(Upto(l)) = 0}
Since(p) == {l \in Of(p) : \A e \in Emptying(p) : l.id > e.id}
StockBalance(p) ==
    MapThenSumSet(LAMBDA g : IF g.pool # p THEN 0 ELSE IF g.debit = "stock" THEN g.amount
                   ELSE IF g.credit = "stock" THEN -g.amount ELSE 0, legs)

(* Every pool's aggregate is what its lines add up to, whoever wrote them  *)
(* in whatever interleaving: the quantity over all lines; the book value   *)
(* of WAC, FIFO and LIFO pools over the lines after the last depletion     *)
(* that emptied the pool (apply clears the rounding residual there), of    *)
(* STD and specific pools over all lines.  The stock account moved by the  *)
(* value of the lines, and not at all for FIFO and LIFO.  Strict pools     *)
(* never go short, and a specific pool holds its one layer exactly while   *)
(* it has stock.                                                           *)
AggregatesReconcile ==
    \A p \in DOMAIN pools :
        LET m == Cfg[p].method
        IN  /\ pools[p].qty = Qty(Of(p))
            /\ pools[p].value = Book(IF m \in {"std", "specific"} THEN Of(p) ELSE Since(p))
            /\ StockBalance(p) = IF m = "fifo" THEN 0 ELSE Book(Of(p))
            /\ m # "fifo" => pools[p].qty >= 0
            /\ m = "specific" => pools[p].qty = MapThenSumSet(LAMBDA l : l.qty, pools[p].layers)

(* An append is a submission with nothing to reject it for: FIFO and LIFO  *)
(* pools only, configured, costs not negative, a key of its own.           *)
AllSubs == ToSet(load.inbox) \cup UNION {ToSet(load.calls[c]) : c \in Callers}
PlainAppend(i) ==
    LET s == load.inbox[i]
    IN  /\ s.decodes /\ s.typed
        /\ \A p \in Touched(s) : p \in DOMAIN Cfg /\ Cfg[p].accounts /\ Cfg[p].method = "fifo"
                                   /\ (Cfg[p].basis = "standard" => Cfg[p].std # <<>>)
        /\ \A l \in ToSet(s.lines) : l.cost >= 0
        /\ \A c \in Callers : \A k \in DOMAIN load.calls[c] : load.calls[c][k].key # s.key
        /\ \A j \in Rows \ {i} : load.inbox[j].key # s.key

(* A submission is applied whole or not at all, once per (trx_type,        *)
(* source_id) whichever path it came by; an inbox row is 'done' exactly    *)
(* when the row's own trx is committed; an append that was admitted fails  *)
(* only by a cancel, a timeout or a deadlock, never for the throttle.      *)
OutcomesTruthful ==
    /\ \A t, u \in trx : t.key = u.key => t = u
    /\ \A l \in lines : \E t \in trx : t.key = l.key
    /\ \A t \in trx : \E s \in AllSubs :
           s.key = t.key /\ Cardinality({l \in lines : l.key = t.key}) = Len(Applied(s))
    /\ \A i \in Rows : inbox[i] = "done" <=> \E t \in trx : t.from = i
    /\ \A i \in Rows : inbox[i] = "failed" => ~PlainAppend(i) \/ i \in interrupted

(* The WAC statements leave the row and record the cost ledger-core's      *)
(* planner would, on every row a WAC pool reaches and for every line of    *)
(* the load ("Formula-equal to ledger_core::wac").                         *)
CteIsCore ==
    \A p \in {q \in DOMAIN pools : Cfg[q].method = "wac"} :
        \A s \in AllSubs : \A l \in ToSet(Applied(s)) :
            dispatch_cte_line(Cfg, pools[p], [l EXCEPT !.pool = p]) = apply_wac(pools[p], l)
================================================================================
