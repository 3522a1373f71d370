----------------------------- MODULE MCPeriodClose -----------------------------
(* PeriodClose for TLC: the calendars of the runs.                         *)
EXTENDS PeriodClose

LongPeriod == <<[first |-> 1, last |-> 2]>>
LatePeriods == <<[first |-> 2, last |-> 2], [first |-> 3, last |-> 3]>>
================================================================================
