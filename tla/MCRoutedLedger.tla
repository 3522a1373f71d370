---------------------------- MODULE MCRoutedLedger -----------------------------
(* RoutedLedger for TLC.  Pool 1 is order-sensitive.  Submissions 1 and 2     *)
(* both receive into it, so that either could be booked first; 2 receives     *)
(* into pool 2 as well, and 3 issues that unit under the business key of 1.   *)
EXTENDS RoutedLedger

MCLines == << <<1, 0>>, <<1, 1>>, <<0, -1>> >>
MCKeys == <<1, 2, 1>>
Symmetry == Permutations(Committers)
================================================================================
