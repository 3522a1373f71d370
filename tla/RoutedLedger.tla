------------------------------ MODULE RoutedLedger -----------------------------
(***************************************************************************)
(* The routed ledger (ledger-v3, path B): callers, router and committers   *)
(* over one shared memory, and what they keep together.                    *)
(***************************************************************************)
EXTENDS RoutedRouter, RoutedCommitter

Init ==
    /\ caller = [s \in Subs |-> "none"]
    /\ staging = [s \in Slots |-> EmptySlot] /\ stagingTail = 0
    /\ cq = [q \in Queue |-> EmptyEntry] /\ cqHead = 0 /\ cqTail = 0 /\ groups = 0
    /\ assigned = [p \in Pools |-> 0] /\ committed = [p \in Pools |-> 0]
    /\ generation = [c \in Committers |-> 1]
    /\ router = AtRest
    /\ work = [c \in Committers |-> NoWork]
    /\ trx = <<>> /\ book = [p \in Pools |-> 0]
    /\ faults = 0
    /\ dropped = {} /\ ejected = {} /\ raced = {} /\ jumped = {}

notCaller == <<cq, cqHead, cqTail, groups, assigned, committed, generation, router, work,
               db, faults, history>>

Calls(s) == caller[s] = "none" /\ \A t \in Subs : t < s => caller[t] # "none"

(* ledger_enqueue_trx, inside the caller's transaction.                    *)
Enqueue(s) ==
    /\ Calls(s)
    /\ LET i == FirstFree(staging, NSlots, stagingTail)
       IN  /\ i # -1
           /\ staging' = [staging EXCEPT ![i] = [valid |-> 1, sub |-> s, cg |-> NoGroup, ejects |-> 0]]
           /\ stagingTail' = (i + 1) % NSlots
    /\ caller' = [caller EXCEPT ![s] = IF s \in Lingering THEN "open" ELSE "committed"]
    /\ UNCHANGED notCaller

(* No slot came free in time: the caller gets an error and aborts.         *)
EnqueueTimeout(s) ==
    /\ Calls(s) /\ FirstFree(staging, NSlots, stagingTail) = -1
    /\ caller' = [caller EXCEPT ![s] = "aborted"]
    /\ UNCHANGED <<notCaller, staging, stagingTail>>

CallerEnds(s) ==
    /\ caller[s] = "open"
    /\ \E e \in {"committed", "aborted"} : caller' = [caller EXCEPT ![s] = e]
    /\ UNCHANGED <<notCaller, staging, stagingTail>>

Next ==
    \/ \E s \in Subs : Enqueue(s) \/ EnqueueTimeout(s) \/ CallerEnds(s)
    \/ RouterNext
    \/ \E c \in Committers : CommitterNext(c)

Spec == Init /\ [][Next]_vars

--------------------------------------------------------------------------------

(* The routed ledger implements AsyncLedger: whatever the router, the      *)
(* committers and their crashes do, a submission is booked at most once    *)
(* per business key, only after its caller committed, whole, and the pool  *)
(* rows the concurrent committers write are the sum of what was booked.    *)
Ledger == INSTANCE AsyncLedger WITH applied <- ToSet(trx)
Refines == Ledger!Spec

(* On an order-sensitive pool submissions are booked in the order they     *)
(* were enqueued, across groups, ticks and committers, unless one of them  *)
(* was ejected on the way or the pool's token passed an uncommitted group. *)
OrderKept ==
    \A i, j \in DOMAIN trx :
        LET s == trx[i]
            t == trx[j]
        IN  i < j /\ s > t
            /\ t \notin ejected \cup dropped /\ {s, t} \cap raced = {}
            => \A p \in (Touched(s) \cap Touched(t) \cap OrderSensitive) \ jumped : FALSE

(* A committed caller's submission is booked, or was given up on an error  *)
(* path, or is still in a slot that the router or a live or recoverable    *)
(* group will come to; ejection before the stamp is the one way out.       *)
Held(s) ==
    \E i \in Slots :
        /\ staging[i].sub = s /\ staging[i].valid # 0
        /\ \/ staging[i].valid = 1
           \/ \E q \in Queue : cq[q].valid # 0 /\ i \in ToSet(cq[q].list)
           \/ staging[i].valid = 2
              /\ (router.pc \in {"bootQueue", "bootStaging"}
                    \/ i \in ToSet(router.packed))
NothingLost ==
    \A s \in Subs : caller[s] = "committed" => s \in ToSet(trx) \cup dropped \cup raced \/ Held(s)
================================================================================
