------------------------------ MODULE CommitQueue ------------------------------
(***************************************************************************)
(* The first queue extension: one shard of its shared memory (result slots *)
(* and the request ring), the caller-elected committer, and what the       *)
(* callers' database transactions make of it.  A caller pushes requests,   *)
(* and whoever finds the committer lease free drains the ring inside its   *)
(* own transaction, prices the batch, inserts its rows and fills the       *)
(* slots.  Receipts exist already; every request is an issue from one      *)
(* FIFO pool.  What an open transaction wrote sits in its session until    *)
(* it commits; a request's costing is the rows it draws.                   *)
(***************************************************************************)
EXTENDS Integers, Sequences, FiniteSets, FiniteSetsExt

CONSTANTS Backends,   \* database sessions, by process id
          NSlots, MaxProbe,   \* result slots of the shard, probes of a search
          RingCap, BatchMax,  \* ring entries, requests a drain takes
          Issues, Qty,        \* issue ids; the quantity each asks for
          Layers, LayerQty,   \* layers of the pool, oldest first; their quantity
          PoolLocked,         \* pool_lock_mode is not 'none'
          MaxTx, MaxCalls, MaxFaults, MaxRestarts  \* bounds of a behaviour

Nobody == 0
Slots == 0..NSlots - 1

ASSUME QueueAssumption ==
    /\ Nobody \notin Backends
    /\ NSlots \in Nat \ {0} /\ RingCap \in Nat \ {0} /\ BatchMax \in Nat \ {0}
    /\ MaxProbe \in 1..NSlots
    /\ Layers \subseteq Nat \ {0} /\ LayerQty \in Nat \ {0}
    /\ 0 \notin Issues /\ Qty \in [Issues -> Nat \ {0}]

VARIABLES
    slot,      \* result slots: [st, waiter, issue, res]
    nextSlot,  \* next_slot_seq, modulo the pool
    ring,      \* pending requests, head first
    lease,     \* committer_pid
    txSeq,     \* committer_tx_seq
    conn,      \* sessions: what each call and its transaction have done so far
    dead,      \* sessions whose process is gone
    rows,      \* committed depletion rows
    revs,      \* committed compensation rows: [row, ctx]
    aborted,   \* transactions that rolled back, and are recorded as such
    startup,   \* the startup recovery worker: done, seed, scan
    count,     \* bounded: transactions, calls, faults, restarts
    answers,   \* history: results handed to callers
    written,   \* history: every depletion row ever inserted
    reused,    \* history: slots freed while a request still named them
    raced,     \* history: issues costed afresh beside an uncommitted costing
    uncomp     \* history: transactions whose compensation was lost

shard == <<slot, nextSlot, ring, lease, txSeq>>
tables == <<rows, revs, aborted>>
history == <<answers, written, reused, raced, uncomp>>
vars == <<shard, conn, dead, tables, startup, count, history>>

NoResult == [total |-> 0, ctx |-> 0, err |-> FALSE]
Empty == [st |-> "free", waiter |-> Nobody, issue |-> 0, res |-> NoResult]
Idle == [pc |-> "idle", xid |-> 0, single |-> TRUE, todo |-> <<>>, slot |-> -1,
         pend |-> << >>, orphans |-> {}, batch |-> <<>>, ctx |-> 0, view |-> {},
         fills |-> <<>>, rows |-> {}, revs |-> {}, locks |-> {}, planning |-> FALSE]

Init ==
    /\ slot = [s \in Slots |-> Empty]
    /\ nextSlot = 0
    /\ ring = <<>>
    /\ lease = Nobody
    /\ txSeq = 0
    /\ conn = [b \in Backends |-> Idle]
    /\ dead = {}
    /\ rows = {} /\ revs = {} /\ aborted = {}
    /\ startup = "done"
    /\ count = [tx |-> 0, calls |-> 0, faults |-> 0, restarts |-> 0]
    /\ answers = {} /\ written = {} /\ reused = {} /\ raced = {} /\ uncomp = {}

Live == Backends \ dead
Open(b) == conn[b].xid # 0
Full == Len(ring) >= RingCap
Uncommitted == UNION {conn[b].rows : b \in Backends}
OpenRevs == UNION {conn[b].revs : b \in Backends}

\* What a statement of b sees: committed rows and its own.
Visible(b) == rows \cup conn[b].rows
OfIssue(S, i) == {r \in S : r.issue = i}

\* The layer's unit cost is its place in the order of the layers.
Total(S) == MapThenSumSet(LAMBDA r : r.qty * r.layer, S)

\* A request in the ring, one drained and not yet answered, or an orphan list
\* names slot s.
Named(s) ==
    \/ \E k \in DOMAIN ring : ring[k].kind = "apply" /\ ring[k].slot = s
    \/ \E b \in Backends : \/ \E k \in DOMAIN conn[b].batch : conn[b].batch[k].slot = s
                           \/ \E k \in DOMAIN conn[b].fills : conn[b].fills[k].slot = s
                           \/ \E o \in conn[b].orphans : o[1] = s

--------------------------------------------------------------------------------
(* Slots and ring.                                                         *)

\* mark_slot_abandoned: the exchange fails on a slot that was answered.
Abandon(S) ==
    [s \in Slots |-> IF s \in S /\ slot[s].st = "allocated"
                     THEN [slot[s] EXCEPT !.st = "abandoned"] ELSE slot[s]]

\* fill_slot_result_with_error: the result is stored first, then the state is
\* exchanged.  Nothing compares the request's sequence number.
Filled(s, res) ==
    [slot EXCEPT ![s].res = res,
                 ![s].st = IF @ = "allocated" THEN "filled" ELSE @]

Apply(s, i, x) == [kind |-> "apply", slot |-> s, issue |-> i, xid |-> x]
Compensation(x) == [kind |-> "compensate", xid |-> x]

\* The longest run of entries of one kind at the head.
Prefix(kind) ==
    Max({n \in 0..Len(ring) : n <= BatchMax /\ \A k \in 1..n : ring[k].kind = kind})

--------------------------------------------------------------------------------
(* Transactions.  A rollback's callback pushes the compensation of what    *)
(* others may have written for it; a full ring drops it.  Compensations    *)
(* that the transaction itself had inserted go with it.                    *)

\* Mutant: the callback pushes nothing.
RollbackTxSilent(b) ==
    /\ conn' = [conn EXCEPT ![b] = Idle]
    /\ aborted' = aborted \cup {conn[b].xid}
    /\ uncomp' = uncomp \cup {v.row.xid : v \in conn[b].revs}
    /\ UNCHANGED ring

RollbackTx(b) ==
    /\ conn' = [conn EXCEPT ![b] = Idle]
    /\ aborted' = aborted \cup {conn[b].xid}
    /\ ring' = IF Full THEN ring ELSE Append(ring, Compensation(conn[b].xid))
    /\ uncomp' = uncomp \cup {v.row.xid : v \in conn[b].revs}
                        \cup (IF Full THEN {conn[b].xid} ELSE {})

Commit(b) ==
    /\ conn[b].pc = "idle" /\ Open(b)
    /\ rows' = rows \cup conn[b].rows
    /\ revs' = revs \cup conn[b].revs
    /\ conn' = [conn EXCEPT ![b] = Idle]
    /\ UNCHANGED <<shard, dead, aborted, startup, count, history>>

Rollback(b) ==
    /\ conn[b].pc = "idle" /\ Open(b)
    /\ RollbackTx(b)
    /\ UNCHANGED <<slot, nextSlot, lease, txSeq, dead, rows, revs, startup, count,
                   answers, written, reused, raced>>

--------------------------------------------------------------------------------
(* Calls: poc_ledger_apply with one event, poc_ledger_apply_batch with     *)
(* several.  A batch that runs out of slots drives the committer itself.   *)

Calls == {<<TRUE, <<i>>>> : i \in Issues}
         \cup {<<FALSE, t>> : t \in {u \in Issues \X Issues : u[1] # u[2]}}

Call(b, c) ==
    /\ b \in Live /\ conn[b].pc = "idle"
    /\ count.calls < MaxCalls /\ (Open(b) \/ count.tx < MaxTx)
    /\ conn' = [conn EXCEPT ![b].pc = "acquire", ![b].single = c[1], ![b].todo = c[2],
                            ![b].xid = IF Open(b) THEN @ ELSE count.tx + 1]
    /\ count' = [count EXCEPT !.calls = @ + 1, !.tx = IF Open(b) THEN @ ELSE @ + 1]
    /\ UNCHANGED <<shard, dead, tables, startup, history>>

Probe(k) == (nextSlot + k) % NSlots
Found == {k \in 0..MaxProbe - 1 : slot[Probe(k)].st = "free"}

\* acquire_slot and the waiter's process id.  A single call raises when every
\* probe fails, a batch goes on to harvest and to drive the committer.
Acquire(b) ==
    LET k == Min(Found)
    IN  /\ conn[b].pc = "acquire" \/ (conn[b].pc = "wait" /\ conn[b].todo # <<>>)
        /\ IF Found # {}
           THEN /\ slot' = [slot EXCEPT ![Probe(k)].st = "allocated",
                                        ![Probe(k)].waiter = b]
                /\ nextSlot' = Probe(k + 1)
                /\ conn' = [conn EXCEPT ![b].pc = "push", ![b].slot = Probe(k)]
                /\ UNCHANGED <<ring, aborted, uncomp>>
           ELSE /\ nextSlot' = Probe(MaxProbe)
                /\ IF conn[b].single THEN RollbackTx(b)
                   ELSE /\ conn' = [conn EXCEPT ![b].pc = "wait"]
                        /\ UNCHANGED <<ring, aborted, uncomp>>
                /\ UNCHANGED slot
        /\ UNCHANGED <<lease, txSeq, dead, rows, revs, startup, count, answers,
                       written, reused, raced>>

\* ring_push_apply: the request, and the issue id stamped on its slot.
Push(b) ==
    LET C == conn[b]
    IN  /\ C.pc = "push" /\ ~Full
        /\ ring' = Append(ring, Apply(C.slot, Head(C.todo), C.xid))
        /\ slot' = [slot EXCEPT ![C.slot].issue = Head(C.todo)]
        /\ conn' = [conn EXCEPT ![b].todo = Tail(@), ![b].slot = -1,
                      ![b].pend = [t \in DOMAIN @ \cup {C.slot} |->
                                     IF t = C.slot THEN Head(C.todo) ELSE @[t]],
                      ![b].pc = IF Len(C.todo) = 1 THEN "wait" ELSE "acquire"]
        /\ UNCHANGED <<nextSlot, lease, txSeq, dead, tables, startup, count, history>>

Mine(b) == DOMAIN conn[b].pend \cup ({conn[b].slot} \cap Slots)

\* queue_full_timeout_ms runs out on a full ring or an exhausted slot pool.
PushTimeout(b) ==
    /\ \/ conn[b].pc = "push" /\ Full
       \/ conn[b].pc = "wait" /\ conn[b].todo # <<>> /\ Found = {}
    /\ slot' = Abandon(Mine(b))
    /\ RollbackTx(b)
    /\ UNCHANGED <<nextSlot, lease, txSeq, dead, rows, revs, startup, count, answers,
                   written, reused, raced>>

Resume(C, pend) ==
    IF C.todo # <<>> THEN "acquire" ELSE IF pend = {} THEN "idle" ELSE "wait"

\* A filled slot is read and recycled; the call returns after its last one.
Harvest(b, s) ==
    LET C == conn[b]
        left == DOMAIN C.pend \ {s}
    IN  /\ C.pc = "wait" /\ s \in DOMAIN C.pend
        /\ slot[s].st = "filled"
        /\ answers' = answers \cup {[xid |-> C.xid, issue |-> C.pend[s], clean |-> s \notin reused,
                                     res |-> slot[s].res]}
        /\ slot' = [slot EXCEPT ![s] = Empty]
        /\ reused' = IF Named(s) THEN reused \cup {s} ELSE reused
        /\ conn' = [conn EXCEPT ![b].pend = [t \in left |-> C.pend[t]],
                                ![b].pc = Resume(C, left)]
        /\ UNCHANGED <<nextSlot, ring, lease, txSeq, dead, tables, startup, count,
                       written, raced, uncomp>>

\* A slot that someone else gave up raises; the other slots stay allocated.
HarvestAbandoned(b) ==
    /\ conn[b].pc = "wait"
    /\ \E s \in DOMAIN conn[b].pend : slot[s].st = "abandoned"
    /\ RollbackTx(b)
    /\ UNCHANGED <<slot, nextSlot, lease, txSeq, dead, rows, revs, startup, count,
                   answers, written, reused, raced>>

--------------------------------------------------------------------------------
(* The committer: whoever waits and finds the lease free, or its holder    *)
(* dead, drains the ring inside its own open transaction.                  *)

Stages == {"collect", "recover", "comp", "drain", "snap", "insert", "fill", "release"}

\* try_acquire_or_takeover; a lease held by a live process is waited for.
Elect(b) ==
    /\ conn[b].pc = "wait" /\ conn[b].pend # << >>
    /\ lease = Nobody \/ lease \in dead
    /\ lease' = b
    /\ conn' = [conn EXCEPT ![b].pc = IF lease = Nobody THEN "comp" ELSE "collect"]
    /\ UNCHANGED <<slot, nextSlot, ring, txSeq, dead, tables, startup, count, history>>

\* collect_orphan_slots: every slot that waits with an issue, whether its
\* request was drained or is still in the ring.
Collect(b) ==
    LET found == {<<s, slot[s].issue>> :
                    s \in {t \in Slots : slot[t].st = "allocated" /\ slot[t].issue # 0}}
    IN  /\ conn[b].pc = "collect"
        /\ conn' = [conn EXCEPT ![b].orphans = found, ![b].ctx = txSeq + 1,
                                ![b].pc = IF found = {} THEN "comp" ELSE "recover"]
        /\ txSeq' = IF found = {} THEN txSeq ELSE txSeq + 1
        /\ UNCHANGED <<slot, nextSlot, ring, lease, dead, tables, startup, count, history>>

\* reconcile_orphan_slot: filled from the durable row, or abandoned.
Reconcile(b, o) ==
    LET found == OfIssue(Visible(b), o[2])
    IN  /\ conn[b].pc = "recover" /\ o \in conn[b].orphans
        /\ slot' = IF found # {}
                   THEN Filled(o[1], [total |-> Total(found), ctx |-> conn[b].ctx,
                                      err |-> FALSE])
                   ELSE Abandon({o[1]})
        /\ conn' = [conn EXCEPT ![b].orphans = @ \ {o},
                      ![b].pc = IF conn[b].orphans = {o} THEN "comp" ELSE @]
        /\ UNCHANGED <<nextSlot, ring, lease, txSeq, dead, tables, startup, count, history>>

Reversed(b) == {v.row : v \in revs \cup conn[b].revs}

\* drain_and_compensate: the compensations at the head leave the ring; every
\* row stamped with their transactions that the committer can see is reversed
\* once.  An insert of the same reversal elsewhere is waited for.
Compensate(b) ==
    LET n == Prefix("compensate")
        xids == {ring[k].xid : k \in 1..n}
        todo == {r \in Visible(b) : r.xid \in xids} \ Reversed(b)
        ctx == txSeq + 1
    IN  /\ conn[b].pc = "comp" /\ n > 0
        /\ \A c \in Backends \ {b} : todo \cap {v.row : v \in conn[c].revs} = {}
        /\ ring' = SubSeq(ring, n + 1, Len(ring))
        /\ txSeq' = ctx
        /\ conn' = [conn EXCEPT ![b].pc = "drain",
                      ![b].revs = @ \cup {[row |-> r, ctx |-> ctx] : r \in todo}]
        /\ uncomp' = uncomp \cup {r.xid : r \in {q \in Uncommitted \ conn[b].rows :
                                                    q.xid \in xids}}
        /\ UNCHANGED <<slot, nextSlot, lease, dead, tables, startup, count, answers,
                       written, reused, raced>>

\* Mutant: only the committer's own rows are looked up.
PriorOwn(b, i) == OfIssue(conn[b].rows, i)

\* dedup_lookup.
Prior(b, i) == OfIssue(Visible(b), i)

\* drain_apply_batch and dedup_lookup: the requests at the head leave the
\* ring; one whose issue has a visible row replays it.
Drain(b) ==
    LET n == Prefix("apply")
        batch == [k \in 1..n |-> [slot |-> ring[k].slot, issue |-> ring[k].issue,
                                  xid |-> ring[k].xid,
                                  old |-> Prior(b, ring[k].issue)]]
        again == {k \in 1..n : batch[k].old = {} /\
                    (\/ OfIssue(Uncommitted, batch[k].issue) # {}
                     \/ \E j \in 1..n \ {k} : batch[j].issue = batch[k].issue)}
    IN  /\ conn[b].pc = "drain" \/ (conn[b].pc = "comp" /\ Prefix("compensate") = 0)
        /\ ring' = SubSeq(ring, n + 1, Len(ring))
        /\ txSeq' = IF n = 0 THEN txSeq ELSE txSeq + 1
        /\ conn' = [conn EXCEPT ![b].batch = batch, ![b].ctx = txSeq + 1,
                                ![b].pc = IF n = 0 THEN "release" ELSE "snap"]
        /\ raced' = raced \cup {batch[k].issue : k \in again}
        /\ UNCHANGED <<slot, nextSlot, lease, dead, tables, startup, count, answers,
                       written, reused, uncomp>>

Fresh(b) == {k \in DOMAIN conn[b].batch : conn[b].batch[k].old = {}}
Left(S, l) == LayerQty - MapThenSumSet(LAMBDA r : r.qty, {r \in S : r.layer = l})

\* Mutant: the snapshot is taken without the pool's lock.
SnapshotUnlocked(b) ==
    /\ conn[b].pc = "snap"
    /\ conn' = [conn EXCEPT ![b].pc = "insert", ![b].view = Visible(b)]
    /\ UNCHANGED <<shard, dead, tables, startup, count, history>>

\* acquire_pool_lock, a statement of its own held to the transaction's end,
\* then the snapshot of the statement that reads the layers.
Snapshot(b) ==
    /\ conn[b].pc = "snap"
    /\ PoolLocked /\ Fresh(b) # {} => \A c \in Backends \ {b} : ~conn[c].planning
    /\ conn' = [conn EXCEPT ![b].pc = "insert", ![b].view = Visible(b),
                            ![b].planning = @ \/ (PoolLocked /\ Fresh(b) # {})]
    /\ UNCHANGED <<shard, dead, tables, startup, count, history>>

\* FifoMethod::plan_apply, for one event: the units in the layers form a line,
\* oldest layer first; the events served before it have taken the head of the
\* line, and it draws from each layer what its own stretch of the line covers.
Draws(b, served, k) ==
    LET C == conn[b]
        q == C.batch[k]
        layers == {l \in Layers : Left(C.view, l) > 0}
        from == MapThenSumSet(LAMBDA j : Qty[C.batch[j].issue], {j \in served : j < k})
        before(l) == MapThenSumSet(LAMBDA m : Left(C.view, m), {m \in layers : m < l})
        take(l) == Min({from + Qty[q.issue], before(l) + Left(C.view, l)})
                       - Max({from, before(l)})
    IN  {[issue |-> q.issue, layer |-> l, qty |-> take(l), xid |-> q.xid,
          ctx |-> C.ctx, nth |-> k] : l \in {m \in layers : take(m) > 0}}

\* An event that its draws do not cover fails alone: the others are served.
Serves(b, served) ==
    \A k \in Fresh(b) :
        k \in served <=> MapThenSumSet(LAMBDA r : r.qty, Draws(b, served, k))
                             = Qty[conn[b].batch[k].issue]

\* Mutant: results are looked up by their place among the planned events.
AnswersPacked(b, served, new) ==
    LET C == conn[b]
        nth(k) == Cardinality({j \in 1..k : C.batch[j].old = {}})
        result(k) ==
            IF C.batch[k].old # {}
            THEN [total |-> Total(C.batch[k].old), ctx |-> C.ctx, err |-> FALSE]
            ELSE [total |-> Total({r \in new : r.nth = nth(k)}), ctx |-> C.ctx,
                  err |-> k \notin served]
    IN  [k \in DOMAIN C.batch |-> [slot |-> C.batch[k].slot, res |-> result(k)]]

\* The answers of a batch, in its order.  Replays are kept by slot.
Answers(b, served, new) ==
    LET C == conn[b]
        hits(k) == {j \in DOMAIN C.batch : /\ C.batch[j].slot = C.batch[k].slot
                                           /\ C.batch[j].old # {}}
        result(k) ==
            IF hits(k) # {}
            THEN [total |-> Total(C.batch[Max(hits(k))].old), ctx |-> C.ctx, err |-> FALSE]
            ELSE [total |-> Total({r \in new : r.nth = k}), ctx |-> C.ctx,
                  err |-> k \notin served]
    IN  [k \in DOMAIN C.batch |-> [slot |-> C.batch[k].slot, res |-> result(k)]]

\* A call that raises outside the wait: the lease and the drained requests are
\* left as they are.
Raise(b, die) ==
    /\ RollbackTx(b)
    /\ dead' = IF die THEN dead \cup {b} ELSE dead

Key(r) == <<r.issue, r.layer>>

\* insert_depletions meets the key of a row it can see or of its own.
Clash(b, new) ==
    \E r \in new : \E q \in Visible(b) \cup new : q # r /\ Key(q) = Key(r)

\* The statement's snapshot is taken; FOR UPDATE waits for the layers it found
\* and reads nothing again, since a layer's row is never updated.  Then the
\* plan and its rows; a second row of one issue on one layer raises.
Insert(b) ==
    LET C == conn[b]
        layers == IF Fresh(b) = {} THEN {} ELSE {l \in Layers : Left(C.view, l) > 0}
    IN  /\ C.pc = "insert"
        /\ \A c \in Backends \ {b} : conn[c].locks \cap layers = {}
        /\ \E served \in SUBSET Fresh(b) :
              LET new == UNION {Draws(b, served, k) : k \in served}
              IN  /\ Serves(b, served)
                  /\ IF Clash(b, new)
                     THEN Raise(b, FALSE) /\ UNCHANGED written
                     ELSE /\ conn' = [conn EXCEPT ![b].pc = "fill",
                                        ![b].fills = Answers(b, served, new),
                                        ![b].rows = @ \cup new,
                                        ![b].locks = @ \cup layers,
                                        ![b].batch = <<>>, ![b].view = {}]
                          /\ written' = written \cup new
                          /\ UNCHANGED <<ring, aborted, dead, uncomp>>
        /\ UNCHANGED <<slot, nextSlot, lease, txSeq, rows, revs, startup, count, answers,
                       reused, raced>>

\* One slot of the batch.  An abandoned slot is passed over; any other state
\* than allocated raises.
Fill(b) ==
    LET C == conn[b]
        f == Head(C.fills)
    IN  /\ C.pc = "fill" /\ C.fills # <<>>
        /\ slot' = Filled(f.slot, f.res)
        /\ IF slot[f.slot].st \in {"allocated", "abandoned"}
           THEN /\ conn' = [conn EXCEPT ![b].fills = Tail(@),
                              ![b].pc = IF Len(C.fills) = 1 THEN "release" ELSE @]
                /\ UNCHANGED <<ring, aborted, dead, uncomp>>
           ELSE Raise(b, FALSE)
        /\ UNCHANGED <<nextSlot, lease, txSeq, rows, revs, startup, count, answers,
                       written, reused, raced>>

\* release_committer stores 0 whoever holds the lease.
Release(b) ==
    /\ conn[b].pc = "release"
    /\ lease' = Nobody
    /\ conn' = [conn EXCEPT ![b].ctx = 0,
                            ![b].pc = IF conn[b].todo # <<>> THEN "acquire" ELSE "wait"]
    /\ UNCHANGED <<slot, nextSlot, ring, txSeq, dead, tables, startup, count, history>>

--------------------------------------------------------------------------------
(* Faults: a query is cancelled or its process ends, the server restarts.  *)

Faulty == count.faults < MaxFaults /\ count' = [count EXCEPT !.faults = @ + 1]

\* A cancel met in a wait gives the call's slots up; a single call that holds
\* the lease releases it.
Cancel(b, die) ==
    /\ conn[b].pc = "wait" \/ (conn[b].pc = "push" /\ Full)
    /\ Faulty
    /\ slot' = Abandon(Mine(b))
    /\ lease' = IF lease = b /\ conn[b].single /\ conn[b].pc = "wait" THEN Nobody
                ELSE lease
    /\ Raise(b, die)
    /\ UNCHANGED <<nextSlot, txSeq, rows, revs, startup, answers, written, reused, raced>>

\* An error or a cancel inside the committer's statements.
Fail(b, die) ==
    /\ conn[b].pc \in {"collect", "recover", "comp", "drain", "snap", "insert"}
    /\ Faulty
    /\ Raise(b, die)
    /\ UNCHANGED <<slot, nextSlot, lease, txSeq, rows, revs, startup, answers, written,
                   reused, raced>>

\* A session ends between its calls.
Disconnect(b) ==
    /\ b \in Live /\ conn[b].pc = "idle"
    /\ Faulty
    /\ IF Open(b) THEN RollbackTx(b) ELSE UNCHANGED <<conn, aborted, ring, uncomp>>
    /\ dead' = dead \cup {b}
    /\ UNCHANGED <<slot, nextSlot, lease, txSeq, rows, revs, startup, answers, written,
                   reused, raced>>

\* slot_leak_audit_one_shard: a waiting slot whose process is gone is freed,
\* also while a request names it.
Audit(s) ==
    /\ slot[s].st = "allocated" /\ slot[s].waiter \in dead
    /\ slot' = [slot EXCEPT ![s] = Empty]
    /\ reused' = IF Named(s) THEN reused \cup {s} ELSE reused
    /\ UNCHANGED <<nextSlot, ring, lease, txSeq, conn, dead, tables, startup, count,
                   answers, written, raced, uncomp>>

Queued == {ring[k].xid : k \in {j \in DOMAIN ring : ring[j].kind = "compensate"}}

\* Shared memory starts empty.  A transaction cut off by the crash is not
\* recorded as aborted.  The startup scan passes over a transaction with one
\* compensation on record: what was queued or open beside it is lost.
Restart ==
    /\ count.restarts < MaxRestarts
    /\ count' = [count EXCEPT !.restarts = @ + 1]
    /\ slot' = [s \in Slots |-> Empty]
    /\ nextSlot' = 0 /\ ring' = <<>> /\ lease' = Nobody /\ txSeq' = 0
    /\ conn' = [b \in Backends |-> Idle]
    /\ dead' = {}
    /\ startup' = "seed"
    /\ reused' = {}
    /\ uncomp' = uncomp \cup ({v.row.xid : v \in revs}
                               \cap (Queued \cup {v.row.xid : v \in OpenRevs}))
    /\ UNCHANGED <<tables, answers, written, raced>>

\* Startup recovery, phase A: the counter is raised to the largest id on record
\* in the layers and depletions.  Calls may run before it.
Seed ==
    /\ startup = "seed"
    /\ txSeq' \in {txSeq} \cup {r.ctx : r \in rows}
    /\ txSeq' >= txSeq /\ \A r \in rows : txSeq' >= r.ctx
    /\ startup' = "scan"
    /\ UNCHANGED <<slot, nextSlot, ring, lease, conn, dead, tables, count, history>>

\* The orders in which a query without ORDER BY may return the set S.
Orders(S) ==
    {f \in UNION {[1..n -> S] : n \in 0..count.tx} :
        /\ \A x \in S : \E k \in DOMAIN f : f[k] = x
        /\ \A j, k \in DOMAIN f : f[j] = f[k] => j = k}

\* Phase B: aborted transactions with rows and not one compensation are
\* enqueued, as far as the ring takes them.
Scan ==
    LET xids == {x \in aborted : /\ \E r \in rows : r.xid = x
                                 /\ \A v \in revs : v.row.xid # x}
    IN  /\ startup = "scan"
        /\ \E some \in Orders(xids) :
              LET room == Min({Len(some), RingCap - Len(ring)})
              IN  /\ ring' = ring \o [k \in 1..room |-> Compensation(some[k])]
                  /\ uncomp' = (uncomp \ {some[k] : k \in 1..room})
                               \cup {some[k] : k \in room + 1..Len(some)}
        /\ startup' = "done"
        /\ UNCHANGED <<slot, nextSlot, lease, txSeq, conn, dead, tables, count, answers,
                       written, reused, raced>>

Committer(b) ==
    \/ Elect(b) \/ Collect(b) \/ \E o \in conn[b].orphans : Reconcile(b, o)
    \/ Compensate(b) \/ Drain(b) \/ Snapshot(b) \/ Insert(b) \/ Fill(b) \/ Release(b)
Caller(b) ==
    \/ Acquire(b) \/ Push(b) \/ PushTimeout(b) \/ HarvestAbandoned(b)
    \/ \E s \in Slots : Harvest(b, s)

Next ==
    \/ \E b \in Backends : \/ \E c \in Calls : Call(b, c)
                           \/ Caller(b) \/ Committer(b)
                           \/ Commit(b) \/ Rollback(b) \/ Disconnect(b)
                           \/ \E die \in BOOLEAN : Cancel(b, die) \/ Fail(b, die)
    \/ \E s \in Slots : Audit(s)
    \/ Restart \/ Seed \/ Scan

Spec == Init /\ [][Next]_vars

--------------------------------------------------------------------------------
(* Properties.                                                             *)

Costing(r) == <<r.ctx, r.xid>>

\* No layer is depleted beyond what it received, counting the depletions of
\* transactions still open: the locking of build_snapshot_fifo and
\* acquire_pool_lock.
NotOversold == \A l \in Layers : Left(rows \cup Uncommitted, l) >= 0

\* A caller is handed the cost of its own issue: some one costing of that issue
\* has exactly the total it was told.  Left out are slots that were freed while
\* a request or an orphan list named them, and issues costed twice
\* (fill_slot_result and read_slot_result work by slot number alone).
OwnResult ==
    \A a \in answers :
        a.clean /\ ~a.res.err /\ a.issue \notin raced =>
            \E q \in OfIssue(written, a.issue) :
                Total({r \in OfIssue(written, a.issue) : Costing(r) = Costing(q)})
                    = a.res.total

\* An issue is costed once however often it is retried, unless the retry was
\* drained while the first costing was uncommitted or in the same batch
\* (dedup_lookup).
OncePerIssue ==
    \A r, q \in rows \cup Uncommitted :
        r.issue = q.issue /\ r.issue \notin raced => Costing(r) = Costing(q)

\* A committed depletion whose requester rolled back has its reversal, or the
\* reversal is on its way: queued, in an open transaction, or left to a startup
\* scan that has yet to run.  Left out are compensations met by a full ring,
\* drained before the depletion was committed, rolled back with their committer,
\* or lost in a restart beside one on record, until a scan queues them again
\* (poc_ledger_xact_callback, drain_and_compensate, phase B).
AbortsReversed ==
    \A r \in rows :
        r.xid \in aborted \ uncomp =>
            \/ startup # "done"
            \/ \E v \in revs \cup OpenRevs : v.row = r
            \/ \E k \in DOMAIN ring : ring[k] = Compensation(r.xid)

================================================================================
