------------------------------ MODULE RoutedShmem ------------------------------
(***************************************************************************)
(* Shared memory of the routed ledger (ledger-v3, path B) and the database *)
(* it writes: staging slots, the committer queue, the per-pool sequence    *)
(* tokens, committer identities.  A submission is a model value; its       *)
(* payload blocks are reachable exactly as long as its slot is not empty.  *)
(***************************************************************************)
EXTENDS Integers, Sequences, FiniteSets, SequencesExt

CONSTANTS Subs, Pools, Lines, KeyOf,   \* as in AsyncLedger; submissions are numbered
                                       \* in the order of their request_seq
          OrderSensitive,   \* pools costed fifo, lifo or specific
          Committers,
          Lingering,        \* submissions whose callers end some time after the call,
                            \* by commit or abort; the others commit at once
          NSlots, NQueue,   \* staging_queue_size, committer_queue_size
          BatchMax,         \* batch_size_max
          MaxEjects,        \* max_eject_count
          MaxFaults,        \* bound of a behaviour: workers' deaths and failed statements
          MaxTokens         \* bound of a behaviour: sequence tokens drawn per pool

Slots == 0..NSlots - 1
Queue == 0..NQueue - 1
NoGroup == 0
NoOwner == <<"none", 0>>

ASSUME RoutedAssumption ==
    /\ NSlots \in Nat \ {0} /\ NQueue \in Nat \ {0} /\ BatchMax \in Nat \ {0}
    /\ MaxEjects \in Nat /\ MaxFaults \in Nat /\ MaxTokens \in Nat
    /\ OrderSensitive \subseteq Pools /\ Subs \subseteq Nat
    /\ Lingering \subseteq Subs /\ Lines \in [Subs -> [Pools -> Int]]

VARIABLES
    caller,     \* the callers' transactions, as pg_xact_status shows them
    staging,    \* staging slots: [valid, sub, cg, ejects]
    stagingTail,\* where the next push starts looking
    cq,         \* committer queue: [valid, cg, list, seqs, owner]
    cqHead, cqTail,
    groups,     \* next_commit_group_id
    assigned, committed,   \* POOL_SEQ_TABLE, per pool
    generation, \* identity generation of each committer
    router,     \* the router's position
    work,       \* each committer's position
    trx,        \* committed trx rows, in commit order
    book,       \* committed pool quantities
    faults,     \* faults so far
    dropped,    \* history: submissions an error path discarded
    ejected,    \* history: submissions ejected at least once
    raced,      \* history: submissions ejected before the router stamped them, or
                \* stamped, read or freed on behalf of an earlier use of their slot
    jumped      \* history: pools whose token passed a group that had not committed

shmem == <<staging, stagingTail, cq, cqHead, cqTail, groups, assigned, committed>>
db == <<trx, book>>
history == <<dropped, ejected, raced, jumped>>
vars == <<caller, shmem, generation, router, work, db, faults, history>>

(* valid: 0 empty, 1 pending, 2 processing, 3 routed.                      *)
EmptySlot == [valid |-> 0, sub |-> CHOOSE s \in Subs : TRUE, cg |-> NoGroup, ejects |-> 0]

(* valid: 0 empty, 1 ready, 2 claimed.  finalize passes through 3 and is   *)
(* one step to everybody else, who needs the queue lock to see it.         *)
EmptyEntry == [valid |-> 0, cg |-> NoGroup, list |-> <<>>, seqs |-> << >>, owner |-> NoOwner]

Touched(s) == {p \in Pools : Lines[s][p] # 0}

(* A fault happens, within the bound.                                      *)
Fault == faults < MaxFaults /\ faults' = faults + 1

(* assign_pool_seq for every order-sensitive pool of a group.              *)
AssignSeqs(pools) == [p \in pools \cap OrderSensitive |-> assigned[p] + 1]
AssignedAfter(seqs) == [p \in Pools |-> IF p \in DOMAIN seqs THEN seqs[p] ELSE assigned[p]]

(* pool_seq_commit_advance: the token only moves forward.                  *)
Advance(seqs) ==
    [p \in Pools |-> IF p \in DOMAIN seqs /\ seqs[p] > committed[p] THEN seqs[p] ELSE committed[p]]

(* is_committer_alive: the identity slot still carries that generation.    *)
IsAlive(owner) == owner # NoOwner /\ generation[owner[1]] = owner[2]

(* try_restamp_staging_to_routed, on the slot function f.                  *)
Restamp(f, s, cg) ==
    IF f[s].valid = 2 /\ f[s].cg \in {NoGroup, cg}
    THEN [f EXCEPT ![s].valid = 3, ![s].cg = cg]
    ELSE f

(* The lowest free position at or after a ring's tail.                     *)
FirstFree(ring, size, tail) ==
    LET free == {i \in 0..size - 1 : ring[(tail + i) % size].valid = 0}
    IN  IF free = {} THEN -1 ELSE (tail + Min(free)) % size
================================================================================
