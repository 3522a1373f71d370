----------------------------- MODULE MCCommitQueue -----------------------------
(* CommitQueue for TLC: quantities of the issues, symmetry.             *)
EXTENDS CommitQueue, TLC

Units == [i \in Issues |-> 1]
Symmetry == Permutations(Backends) \cup Permutations(Issues)
================================================================================
