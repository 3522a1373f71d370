------------------------------ MODULE AsyncLedger ------------------------------
(***************************************************************************)
(* What the asynchronous ledgers promise their callers, without queue,     *)
(* router or committers.  A caller opens a transaction, hands over one     *)
(* submission in it, and commits or aborts.  Some time after the commit    *)
(* the ledger applies the submission, alone or together with others: all   *)
(* of its lines at once, at most once for each business key, and only      *)
(* while every pool it touches can cover it.                               *)
(***************************************************************************)
EXTENDS Integers, FiniteSets, FiniteSetsExt

CONSTANTS Subs, Pools,
          Lines,   \* what each submission adds to each pool, negative for issues
          KeyOf    \* the business key (trx_type, source_id) of each submission

VARIABLES caller,   \* each caller's transaction
          applied,  \* submissions that have a row in trx
          book      \* on-hand quantity of each pool

ledgerVars == <<caller, applied, book>>

Init ==
    /\ caller = [s \in Subs |-> "none"]
    /\ applied = {}
    /\ book = [p \in Pools |-> 0]

Submit(s) ==
    /\ caller[s] = "none"
    /\ caller' = [caller EXCEPT ![s] = "open"]
    /\ UNCHANGED <<applied, book>>

End(s) ==
    /\ caller[s] \in {"none", "open"}
    /\ \E e \in {"committed", "aborted"} : caller' = [caller EXCEPT ![s] = e]
    /\ UNCHANGED <<applied, book>>

(* One commit of the ledger books a whole set of submissions.              *)
Apply(S) ==
    /\ \A s \in S : caller[s] = "committed" /\ s \notin applied
    /\ \A s \in S, t \in S \cup applied : s # t => KeyOf[s] # KeyOf[t]
    /\ applied' = applied \cup S
    /\ book' = [p \in Pools |-> book[p] + MapThenSumSet(LAMBDA s : Lines[s][p], S)]
    /\ \A p \in Pools : book'[p] >= 0
    /\ UNCHANGED caller

Next ==
    \/ \E s \in Subs : Submit(s) \/ End(s)
    \/ \E S \in (SUBSET Subs) \ {{}} : Apply(S)

Spec == Init /\ [][Next]_ledgerVars
================================================================================
