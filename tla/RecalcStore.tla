----------------------------- MODULE RecalcStore -----------------------------
(***************************************************************************)
(* The tables that the feed consumer and the recalc engine share, and the  *)
(* row locks their transactions hold on them.                              *)
(*                                                                         *)
(* A physical event of a pool is named by its rank in the R-1 business     *)
(* order (posted_at, id): the engine only ever compares events in that     *)
(* order.  0 stands for SQL NULL (no frontier, no floor), and in the WAL   *)
(* for a cost_adjustment_line, which carries no rank that anyone reads.    *)
(*                                                                         *)
(* Every transaction runs at READ COMMITTED: a statement sees the rows     *)
(* committed when it starts plus its own transaction's writes.  The        *)
(* variables hold the committed rows; a transaction's own writes live in   *)
(* its record in `worker' or `feed' until it commits.                      *)
(***************************************************************************)
EXTENDS Naturals, Sequences, FiniteSets

CONSTANTS
    Pools,        \* pool ids (numbers: the feed bumps in ascending order)
    StrictPools,  \* the pools costed by the engine (method fifo or lifo)
    MaxPos,       \* events of a pool have the ranks 1..MaxPos
    Steppers,     \* connections looping ledger_recalc_step
    Settlers,     \* connections calling ledger_settle_pool
    Sweepers,     \* connections running the close sweep of one pool
    Effects,      \* what the re-costing of a changed stream may amount to
    Bound,        \* recalc_backpressure_config.bound_events
    LowWater,     \* recalc_backpressure_config.low_water
    MaxCrashes    \* bound of a behaviour: aborted transactions, and the lines posted
                  \* to pools of another method

Pos == 1..MaxPos
Workers == Steppers \cup Settlers \cup Sweepers

\* The net result of a pass: nothing pending; first costings at exactly the
\* observed cost; adjustments that cancel out; a nonzero net adjustment.
AllEffects == {"none", "costed", "posted", "moved"}

ASSUME PoolsAssumption ==
    Pools \subseteq Nat /\ Pools # {} /\ StrictPools \subseteq Pools
ASSUME WorkersAssumption ==
    /\ Steppers \cap (Settlers \cup Sweepers) = {}
    /\ Settlers \cap Sweepers = {}
ASSUME BoundsAssumption ==
    /\ MaxPos \in Nat /\ MaxCrashes \in Nat
    /\ Bound \in Nat /\ LowWater \in Nat /\ LowWater < Bound
ASSUME EffectsAssumption == Effects \subseteq AllEffects

VARIABLES
    committed,   \* pool -> the physical trx_line events committed
    wal,         \* committed trx_line inserts in commit order
    settlement,  \* pool -> the committed pool_settlement row
    folded,      \* pool -> the events the committed costs and layers reflect
    queue,       \* the pools with a committed recalc_queue row
    backlog,     \* pool -> recalc_backlog.pending_events
    throttled,   \* the pools with a recalc_backpressure row
    cursor,      \* the slot's confirmed position in wal
    applied,     \* history: the length of wal durably applied by the feed
    feed,        \* the feed consumer and its open transaction
    worker,      \* each engine connection and its open transaction
    raced,       \* history: events committed behind a pass's last look
    crashes      \* history: transactions aborted so far

tables == <<committed, wal, settlement, folded, queue, backlog, throttled>>
slot == <<cursor, applied>>
history == <<raced, crashes>>
vars == <<tables, slot, feed, worker, history>>

-----------------------------------------------------------------------------
(* Rows and transaction records.                                           *)

Row == [gen : Nat, frontier : Nat, floor : Nat]
NoRow == [gen |-> 0, frontier |-> 0, floor |-> 0]

WalEntry == [pool : Pools, pos : 0..MaxPos]

WorkerPc ==
    {"idle", "claimed", "scanned", "settled", "checked", "counted", "decided"}

Worker ==
    [pc      : WorkerPc,
     pool    : Pools,
     claim   : Row,              \* the settlement row read at the claim
     scan    : SUBSET Pos,       \* the events of this pass's scan
     effect  : AllEffects,
     row     : Row,              \* this transaction's settlement row ...
     own     : BOOLEAN,          \* ... once it has written (locked) it
     fold    : SUBSET Pos,       \* the events its layers reflect
     pending : BOOLEAN,          \* a floor survives, or an event was missed
     tail    : Nat,              \* events counted above the new frontier
     agg     : BOOLEAN,          \* holds the aggregate pool_state row
     inserted: BOOLEAN,          \* inserted the queue row itself
     reset   : BOOLEAN,          \* wrote the counter and the queue row
     adjusted: BOOLEAN]          \* inserted a cost_adjustment_line

IdleWorker(p) ==
    [pc |-> "idle", pool |-> p, claim |-> NoRow, scan |-> {},
     effect |-> "none", row |-> NoRow, own |-> FALSE, fold |-> {},
     pending |-> FALSE, tail |-> 0, agg |-> FALSE, inserted |-> FALSE,
     reset |-> FALSE, adjusted |-> FALSE]

FeedPc == {"idle", "anchored", "peeked", "floors", "bumps", "marks", "applied"}

Feed ==
    [pc     : FeedPc,
     anchor : Nat,               \* pg_current_wal_lsn read before the peek
     upto   : Nat,               \* the peeked batch is wal[cursor+1..upto]
     todo   : SUBSET Pools,      \* rows the running statement has still to do
     floors : [Pools -> Nat],    \* floors written (and rows locked), 0: none
     bumped : SUBSET Pools,      \* counters written (and rows locked)
     marks  : SUBSET Pools]      \* queue rows inserted

IdleFeed ==
    [pc |-> "idle", anchor |-> 0, upto |-> 0, todo |-> {},
     floors |-> [p \in Pools |-> 0], bumped |-> {}, marks |-> {}]

-----------------------------------------------------------------------------
(* Row locks, read off the transactions that hold them.                    *)

Active(w, p) == worker[w].pc # "idle" /\ worker[w].pool = p

QueueRowLocked(p) == \E w \in Workers : Active(w, p)
SettleRowLocked(p) == \E w \in Workers : Active(w, p) /\ worker[w].own
BacklogRowLocked(p) == \E w \in Workers : Active(w, p) /\ worker[w].reset
AggregateLocked(p) == \E w \in Workers : Active(w, p) /\ worker[w].agg

\* ON CONFLICT DO NOTHING waits for a transaction that inserted, updated or
\* deleted the conflicting queue row, but not for one that only locked it.
QueueRowInDoubt(p) ==
    \E w \in Workers : Active(w, p) /\ (worker[w].inserted \/ worker[w].reset)

-----------------------------------------------------------------------------
\* Every table, the slot, the feed's buffers and each pass hold values of their
\* type: frontiers and floors are positions or 0, the backlog never negative.
TypeOK ==
    /\ committed \in [Pools -> SUBSET Pos]
    /\ wal \in Seq(WalEntry)
    /\ settlement \in [Pools -> Row]
    /\ folded \in [Pools -> SUBSET Pos]
    /\ queue \subseteq Pools
    /\ backlog \in [Pools -> Nat]
    /\ throttled \subseteq Pools
    /\ cursor \in Nat /\ applied \in Nat
    /\ feed \in Feed
    /\ worker \in [Workers -> Worker]
    /\ raced \in [Pools -> SUBSET Pos]
    /\ crashes \in 0..MaxCrashes

Init ==
    /\ committed = [p \in Pools |-> {}]
    /\ wal = << >>
    /\ settlement = [p \in Pools |-> NoRow]
    /\ folded = [p \in Pools |-> {}]
    /\ queue = {}
    /\ backlog = [p \in Pools |-> 0]
    /\ throttled = {}
    /\ cursor = 0 /\ applied = 0
    /\ feed = IdleFeed
    /\ worker = [w \in Workers |-> IdleWorker(CHOOSE p \in Pools : TRUE)]
    /\ raced = [p \in Pools |-> {}]
    /\ crashes = 0

-----------------------------------------------------------------------------
(* The hot path, as this protocol sees it: one line commits.  The line's   *)
(* statement updates the aggregate pool_state row first and keeps that row *)
(* lock to its commit, so it cannot commit while a pass holds it.  Whether *)
(* the submission was admitted (backpressure) was decided earlier, on      *)
(* another snapshot, and a staged one is not asked again.                  *)

\* Pools of another method matter here only by the rows they leave; their
\* lines are drawn from the same bound as the aborts, and one rank will do.
WithinBound ==
    crashes + Cardinality({e \in (Pools \ StrictPools) \X Pos : e[2] \in committed[e[1]]})
        < MaxCrashes

\* The pass has taken its last look at the events below its frontier.
PastCheck(me) == me.pc \in {"checked", "counted", "decided"} \/ me.reset

PostLine(p, e) ==
    /\ e \notin committed[p]
    /\ ~AggregateLocked(p)
    /\ p \in StrictPools \/ (WithinBound /\ e = 1)
    /\ committed' = [committed EXCEPT ![p] = @ \cup {e}]
    /\ wal' = Append(wal, [pool |-> p, pos |-> e])
    /\ raced' = IF \E w \in Workers : Active(w, p) /\ PastCheck(worker[w])
                THEN [raced EXCEPT ![p] = @ \cup {e}] ELSE raced
    /\ UNCHANGED <<settlement, folded, queue, backlog, throttled, slot, feed,
                   worker, crashes>>
=============================================================================
