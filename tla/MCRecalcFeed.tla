---------------------------- MODULE MCRecalcFeed ----------------------------
(* RecalcFeed on small instances; connections of one kind are alike.       *)
EXTENDS RecalcFeed, TLC

Symmetry ==
    Permutations(Steppers) \cup Permutations(Settlers) \cup Permutations(Sweepers)
=============================================================================
