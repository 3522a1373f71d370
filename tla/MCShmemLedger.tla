---------------------------- MODULE MCShmemLedger ----------------------------
(* ShmemLedger with two sessions.  Ring batches come from one of them, but   *)
(* in the load contend.                                                     *)
EXTENDS ShmemLedger

CONSTANTS b1, b2
R(q) == [kind |-> "receipt", qty |-> q]
I(q) == [kind |-> "issue", qty |-> q]
Job(key, by, path, ops) == [key |-> key, by |-> by, path |-> path, ops |-> ops]
Load(jobs, depth, ticks_, faults_, restarts_) ==
    [jobs |-> jobs, full |-> FALSE, depth |-> depth, ticks |-> ticks_, faults |-> faults_,
     restarts |-> restarts_]

MCLoads ==
    [delta |-> Load({Job(1, {b1}, "delta", <<R(2)>>), Job(2, {b1}, "delta", <<I(1)>>),
                     Job(3, {b2}, "delta", <<R(1)>>)}, 1, 1, 1, 0),
     restart |-> Load({Job(1, {b1}, "delta", <<R(2)>>), Job(3, {b2}, "delta", <<R(1)>>)},
                      0, 2, 0, 1),
     ring |-> Load({Job(1, {b1}, "ring", <<R(1), R(2), R(1)>>),
                    Job(2, {b1}, "ring", <<I(3)>>), Job(3, {b1}, "ring", <<I(1), R(1)>>)},
                   1, 1, 1, 0),
     reseed |-> Load({Job(1, {b1}, "ring", <<R(1), R(1), R(1)>>),
                      Job(2, {b1}, "ring", <<I(2)>>), Job(3, {b1}, "ring", <<I(1)>>)},
                     0, 2, 0, 1),
     full |-> [Load({Job(1, {b1}, "ring", <<R(2), R(1)>>), Job(2, {b1}, "ring", <<I(2)>>),
                    Job(3, {b1}, "ring", <<I(1)>>)}, 0, 1, 0, 0) EXCEPT !.full = TRUE],
     inline |-> Load({Job(1, {b1}, "inline", <<R(1), R(1)>>), Job(2, {b1}, "inline", <<I(1)>>),
                      Job(3, {b2}, "inline", <<I(1)>>)}, 0, 0, 0, 0),
     h |-> Load({Job(1, {b1}, "h", <<R(1), R(1)>>), Job(2, {b1, b2}, "h", <<I(1)>>),
                 Job(3, {b2}, "h", <<I(2), R(1)>>)}, 0, 0, 1, 0),
     hsave |-> Load({Job(1, {b1}, "h", <<R(2)>>), Job(2, {b2}, "h", <<I(1)>>)}, 1, 0, 1, 0),
     contend |-> Load({Job(1, {b1}, "ring", <<R(2)>>), Job(2, {b1}, "ring", <<I(1)>>),
                       Job(3, {b2}, "ring", <<I(2)>>)}, 0, 0, 0, 0)]
=============================================================================
