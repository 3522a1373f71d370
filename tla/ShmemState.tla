----------------------------- MODULE ShmemState -----------------------------
(***************************************************************************)
(* State of the shared-memory ledger extension                             *)
(* (src/poc/ledger-extension): the balance cells of lib.rs, one FIFO       *)
(* bucket of fifo.rs, the two H arenas of h_arena.rs and h_layer_arena.rs, *)
(* the tables they are reconciled with, the backends and the drain worker. *)
(*                                                                         *)
(* One inventory pool is modelled, with the account it is posted against.  *)
(* Every unit costs one, so an amount and a quantity are one number.  A    *)
(* layer is a row [got, rem, used] of cost_layers: quantity received,      *)
(* qty_remaining, and the depletions recorded against it.                  *)
(***************************************************************************)
EXTENDS Integers, FiniteSets, SequencesExt

CONSTANTS
    Backends,     \* client backends
    Loads,        \* name |-> a load: the batches its clients submit and bounds
    NBuckets,     \* N_BUCKETS, cells the balance table holds
    MaxLayers,    \* MAX_LAYERS, layers a FIFO ring holds
    PendingCap,   \* PENDING_DRAIN_CAP
    MaxIds        \* bound: layer ids drawn from the sequence

\* A load is [jobs, full, depth, ticks, faults, restarts]: the batches, whether
\* other pools have filled the FIFO arena, and bounds on open savepoints,
\* ticks of the drain worker, failing statements and restarts.
\* A batch is [key, by, path, ops]: its idempotency key, the backends that may
\* submit it, the write path, and its receipts and issues.

VARIABLES
    load,      \* the load of this behaviour
    cells,     \* HASH_TABLE: account |-> [occ, val, last, drained]
    applySeq,  \* APPLY_SEQ
    failures,  \* LEDGER_SHMEM_INSERT_FAILURES
    bucket,    \* the pool's FifoBucket
    residual,  \* H_LAYER_TABLE: layer id |-> residual_qty
    effective, \* H_HASH_TABLE: the group's effective_qty
    db,        \* committed rows: keys, posted, layers, rollup
    nextId,    \* cost_layers_id_seq
    be,        \* backends
    worker,    \* ledger_drain
    dropped,   \* layer id |-> consumed quantity pending_drain had no room for
    undone,    \* accounts stamped as drained by a tick that did not commit
    leaked,    \* layers an H batch touched under a savepoint rolled back since
    lost,      \* account |-> committed deltas a restart found undrained
    ticks,     \* ticks the worker has started
    faults,    \* statements that failed
    restarts   \* server restarts

vars == <<load, cells, applySeq, failures, bucket, residual, effective, db,
          nextId, be, worker, dropped, undone, leaked, lost, ticks, faults, restarts>>
balances == <<cells, applySeq, failures>>
hArenas == <<residual, effective>>
environment == <<load, dropped, undone, leaked, lost, ticks, faults, restarts>>

Accounts == {"cash", "pool"}
AccountSeq == <<"cash", "pool">>
None == [x \in {} |-> 0]
NoRow == [val |-> 0, seq |-> 0]

\* Partial functions added pointwise.
Plus(f, g) == [k \in DOMAIN f \cup DOMAIN g |->
                  (IF k \in DOMAIN f THEN f[k] ELSE 0)
                + (IF k \in DOMAIN g THEN g[k] ELSE 0)]
Row(got, rem, used) == [got |-> got, rem |-> rem, used |-> used]
PlusRows(f, g) ==
    LET at(h, k) == IF k \in DOMAIN h THEN h[k] ELSE Row(0, 0, 0)
    IN [k \in DOMAIN f \cup DOMAIN g |->
           Row(at(f, k).got + at(g, k).got, at(f, k).rem + at(g, k).rem,
               at(f, k).used + at(g, k).used)]

(***************************************************************************)
(* A (sub)transaction is a frame: the balance deltas and the FIFO shadow   *)
(* it staged (one entry of PENDING_STACK and of FIFO_PENDING_STACK), the   *)
(* rows it wrote and the rows it locked.                                   *)
(***************************************************************************)
NewFrame == [bal |-> None, shadow |-> <<>>, keys |-> {}, posted |-> None,
             rows |-> None, locks |-> {}]
NoCall == [job |-> <<>>, id |-> 0, seeds |-> <<>>, layers |-> <<>>, op |-> 0,
           need |-> 0, used |-> None]
IdleBackend == [pc |-> "idle", frames |-> <<NewFrame>>, call |-> NoCall,
                work |-> None, ins |-> None, at |-> "none", seq |-> 0,
                pending |-> 0, group |-> 0, taken |-> None]
IdleWorker == [pc |-> "idle", i |-> 0, pre |-> 0, val |-> 0, dirty |-> None,
               rollup |-> None, snap |-> <<>>, snapSeq |-> 0, rows |-> None]
EmptyCell == [occ |-> FALSE, val |-> 0, last |-> 0, drained |-> 0]
EmptyBucket == [occ |-> FALSE, seeded |-> FALSE, ring |-> <<>>, pend |-> <<>>,
                over |-> FALSE, mark |-> 0, last |-> 0, drained |-> 0]

Top(b) == be[b].frames[Len(be[b].frames)]
InTop(b, f) == [be[b].frames EXCEPT ![Len(be[b].frames)] = f]

\* What a backend's own statements see: committed rows and its own writes.
OwnRows(b) == FoldLeft(LAMBDA acc, f : PlusRows(acc, f.rows), None, be[b].frames)
SeenRows(b) == PlusRows(db.layers, OwnRows(b))
SeenKeys(b) == db.keys \cup UNION {be[b].frames[i].keys : i \in DOMAIN be[b].frames}
InOrder(S) == SetToSortSeq(S, <)
Active(rows, from) == InOrder({i \in DOMAIN rows : i >= from /\ rows[i].rem > 0})

\* Row locks other transactions hold until they end.
Locked(b) ==
    UNION {UNION {be[o].frames[i].locks : i \in DOMAIN be[o].frames}
             : o \in Backends \ {b}} \cup DOMAIN worker.rows

\* The batches a backend may submit: each until it has committed.
Mine(b) == {job \in load.jobs : b \in job.by}

\* The load runs H batches; its ring batches come from one session.
HLoad == \E job \in load.jobs : job.path = "h"
OneWriter ==
    Cardinality(UNION {job.by : job \in {j \in load.jobs : j.path = "ring"}}) <= 1

\* A committed transaction's callbacks have not all run yet.
Applying(b) == be[b].pc \in {"replay", "cells", "seq", "max"}
=============================================================================
