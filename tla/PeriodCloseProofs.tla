--------------------------- MODULE PeriodCloseProofs ---------------------------
(***************************************************************************)
(* What PeriodClose guarantees for every calendar, every set of pools,     *)
(* sessions and workers and every number of lines, losses and crashes.     *)
(* The steps of ledger_close_period, like those of PeriodCloseInv, keep    *)
(* the inductive invariant, which then carries the six theorems at the     *)
(* end.                                                                    *)
(***************************************************************************)
EXTENDS PeriodCloseInv, FiniteSetTheorems

--------------------------------------------------------------------------------
(* ledger_close_period.                                                    *)

\* A step of the close that publishes nothing has its phase, its claims and
\* its rows to keep.
LEMMA CloserStep ==
    ASSUME IInv, UNCHANGED <<lines, engine, process, sub, worker, misbooked>>,
           period' \in [Periods -> {"open", "closing", "closed"}],
           \A q \in Periods : period'[q] = "closed" <=> period[q] = "closed",
           closer' \in CloserType \cup {Idle},
           ClaimsOK', CloseOrderOK', SweptOK', AccountOK'
    PROVE  IInv'
  <1>1. UNCHANGED <<row, cost, queued, halted, slot, delivered, feed, losses, unseeded>>
    BY Zenon DEF engine, process
  <1>2. TypeOK'
    BY <1>1, Zenon DEF IInv, TypeOK
  <1>3. RowsOK' /\ WorkersOK'
    BY <1>1, FrameRows, FrameWorkers, Zenon DEF IInv
  <1>4. \A at : ClosedThrough(at)' <=> ClosedThrough(at)
    BY Zenon DEF ClosedThrough
  <1>5. \A i : Frozen(i)' <=> Frozen(i)
    BY <1>4, Zenon DEF Frozen
  <1>6. OrderOK'
    BY Zenon DEF IInv, OrderOK
  <1>7. SubsOK'
    BY <1>4, Zenon DEF IInv, SubsOK
  <1>8. DetectedOK'
    <2>1. ASSUME NEW w \in Workers
          PROVE  Costings(worker[w].row, worker[w].scan)'
                 = Costings(worker[w].row, worker[w].scan)
      BY Zenon DEF Costings, Basis, Folded, FullReplay, Pos
    <2> QED BY <1>1, <1>5, <2>1, Zenon DEF IInv, DetectedOK, Diverges, Pending
  <1>9. MisbookedOK'
    BY <1>1, <1>5, Zenon DEF IInv, MisbookedOK, PeriodNotMisbooked, Ids
  <1>10. \A i : /\ (i \in StrictOuts)' <=> (i \in StrictOuts)
                /\ RightlyCosted(i)' <=> RightlyCosted(i)
    BY <1>1, Zenon DEF StrictOuts, RightlyCosted, Ids, Basis, LinesOf, Pos
  <1>11. FrozenRight'
    BY <1>1, <1>5, <1>10, Zenon DEF IInv, FrozenRight
  <1>12. HaltedContradicts'
    BY <1>1, <1>5, <1>10, Zenon DEF IInv, HaltedContradicts
  <1> QED BY <1>2, <1>3, <1>6, <1>7, <1>8, <1>9, <1>11, <1>12, Zenon DEF IInv

\* A close that gives up leaves nothing behind.
LEMMA CloserGone ==
    ASSUME IInv, UNCHANGED <<lines, engine, process, sub, worker, misbooked>>,
           period' \in [Periods -> {"open", "closing", "closed"}],
           \A q \in Periods : period'[q] = "closed" <=> period[q] = "closed",
           closer' = Idle
    PROVE  IInv'
  <1>1. UNCHANGED <<row, cost, queued, halted, slot, delivered, feed, losses, unseeded>>
    BY Zenon DEF engine, process
  <1>2. closer'.pc = "idle"
    BY Zenon DEF Idle
  <1>3. ClaimsOK' /\ CloseOrderOK' /\ SweptOK'
    BY <1>1, <1>2, ZenonT(60) DEF IInv, ClaimsOK, CloseOrderOK, SweptOK
  <1>4. AccountOK'
    <2>1. (Broken' <=> Broken) /\ (Accounted => Accounted')
      BY <1>1, Zenon DEF Broken, Accounted, LinesOf, Ids, Pos
    <2> QED BY <1>1, <1>2, <2>1, Zenon DEF IInv, AccountOK
  <1> QED BY <1>3, <1>4, CloserStep, Zenon

\* A close that goes on with the rows and costs it has.
LEMMA CloserMoved ==
    ASSUME IInv, UNCHANGED <<ledger, engine, process, sub, worker, misbooked>>,
           closer.pc # "idle", closer' \in CloserType,
           closer'.period = closer.period, closer'.baseline = closer.baseline,
           closer.claimed \subseteq closer'.claimed, closer'.swept = closer.swept,
           closer'.rows = closer.rows, closer'.cost = closer.cost,
           closer'.residue = closer.residue,
           closer'.lsn = closer.lsn \/ (closer.pc = "lsn" /\ closer.residue = {}),
           ClaimsOK', CloseOrderOK'
    PROVE  IInv'
  <1>1. UNCHANGED <<period, lines, row, cost, queued, halted, slot, delivered, feed,
                    losses, unseeded>>
    BY Zenon DEF ledger, engine, process
  <1>2. SweptOK'
    <2>1. Over(closer.cost, cost)' = Over(closer.cost, cost)
      BY <1>1, Zenon DEF Over
    <2>2. \A q : /\ RowRight(q, closer.rows[q])' = RowRight(q, closer.rows[q])
                 /\ LayersCosted(Over(closer.cost, cost), closer.rows[q])'
                      = LayersCosted(Over(closer.cost, cost), closer.rows[q])
      BY <1>1, <2>1, ZenonT(60) DEF RowRight, LayersCosted, LinesOf, Ids, Pos, Basis
    <2>3. \A i : Frozen(i)' = Frozen(i)
      BY <1>1, Zenon DEF Frozen, ClosedThrough
    <2> QED BY <1>1, <2>2, <2>3, Zenon DEF IInv, SweptOK, Ids
  <1>3. AccountOK'
    <2>1. (Broken' <=> Broken) /\ (Accounted => Accounted')
      BY <1>1, Zenon DEF Broken, Accounted, LinesOf, Ids, Pos
    <2> QED BY <1>1, <2>1, Zenon DEF IInv, AccountOK, LinesOf, Ids
  <1>4. UNCHANGED <<lines, engine, process, sub, worker, misbooked>>
    BY <1>1, Zenon
  <1>5. period \in [Periods -> {"open", "closing", "closed"}]
    BY Zenon DEF IInv, TypeOK
  <1> QED BY <1>1, <1>2, <1>3, <1>4, <1>5, CloserStep, Zenon

\* The lines that a close values are finitely many.
LEMMA DueFinite ==
    ASSUME FiniteFacts, IInv, NEW p \in Periods, NEW D \in SUBSET Due(p)
    PROVE  IsFiniteSet(D) /\ Cardinality(D) \in Nat
  BY LinesFinite, Zenon DEF IInv, Due

\* The close starts on the first period that is not closed.
LEMMA CloseBeginKeeps ==
    ASSUME FiniteFacts, IInv, NEW p \in Periods, NEW force \in ForceArgs, CloseBegin(p, force)
    PROVE  IInv'
  <1> DEFINE new == [pc |-> "lsn", period |-> p, force |-> force,
                  baseline |-> Cardinality(Due(p)), lsn |-> 0, lagging |-> FALSE,
                  todo |-> {}, pool |-> 0, claimed |-> {}, inserted |-> {},
                  held |-> {}, swept |-> {}, fence |-> FALSE,
                  rows |-> Empty, cost |-> Empty, residue |-> {}]
  <1>1. /\ period[p] # "closed" /\ closer' = new
        /\ \A q \in Periods : Calendar[q].first < Calendar[p].first => period[q] = "closed"
        /\ UNCHANGED <<period, lines, engine, process, sub, worker, misbooked>>
    BY Zenon DEF CloseBegin, CloseStep, ledger
  <1>2. Cardinality(Due(p)) \in Nat
    BY DueFinite, Zenon
  <1>3. new \in CloserType
    <2>1. Empty \in CostMap /\ Empty \in RowMap
      BY EmptyMap, Zenon
    <2> QED BY <1>2, <2>1, Zenon DEF CloserType
  <1>4. /\ new.pc = "lsn" /\ new.period = p /\ new.baseline = Cardinality(Due(p))
        /\ new.claimed = {} /\ new.swept = {} /\ ~new.fence /\ new.rows = Empty
        /\ new.cost = Empty /\ new.residue = {} /\ new.lsn = 0
    BY Zenon
  <1> HIDE DEF new
  <1>5. UNCHANGED <<row, cost, queued, halted, slot, delivered, feed, losses, unseeded>>
    BY <1>1, Zenon DEF engine, process
  <1>6. ClaimsOK'
    BY <1>1, <1>4, <1>5, Zenon DEF IInv, ClaimsOK
  <1>7. CloseOrderOK'
    <2>1. {i \in Due(closer.period) : closer.pc = "lsn" \/ i <= closer.lsn}' = Due(p)
      BY <1>1, <1>4, Zenon DEF Due, Ids, EndOf
    <2>2. 0 <= Len(lines)
      BY LineFacts DEF IInv
    <2>3. (closer.baseline <= Cardinality(
             {i \in Due(closer.period) : closer.pc = "lsn" \/ i <= closer.lsn}))'
      <3>1. closer'.baseline = Cardinality(Due(p))
        BY <1>1, <1>4, Zenon
      <3>2. Cardinality(Due(p)) <= Cardinality(Due(p))
        BY <1>2
      <3> QED BY <2>1, <3>1, <3>2, Zenon
    <2> QED BY <1>1, <1>4, <2>2, <2>3, Zenon DEF CloseOrderOK
  <1>8. SweptOK'
    BY <1>1, <1>4, EmptyMap, Zenon DEF SweptOK
  <1>9. AccountOK'
    <2>1. (Broken' <=> Broken) /\ (Accounted => Accounted')
      BY <1>1, <1>5, Zenon DEF Broken, Accounted, LinesOf, Ids, Pos
    <2> QED BY <1>1, <1>4, <1>5, <2>1, Zenon DEF IInv, AccountOK
  <1>10. period \in [Periods -> {"open", "closing", "closed"}]
    BY Zenon DEF IInv, TypeOK
  <1> QED BY <1>1, <1>3, <1>6, <1>7, <1>8, <1>9, <1>10, CloserStep, Zenon

\* The lsn read at the start bounds the lines the baseline counts.
LEMMA CloseLsnKeeps ==
    ASSUME IInv, CloseLsn
    PROVE  IInv'
  <1>1. /\ closer.pc = "lsn" /\ closer.pc # "idle"
        /\ closer' = [closer EXCEPT !.pc = "gate", !.lsn = Len(lines)]
        /\ UNCHANGED <<ledger, engine, process, sub, worker, misbooked>>
    BY Zenon DEF CloseLsn, CloseStep
  <1>2. closer \in CloserType /\ closer.period \in Periods /\ Len(lines) \in Nat
    BY <1>1, CloserFacts, LineFacts, Zenon DEF IInv
  <1>3. /\ closer' \in CloserType /\ closer'.pc = "gate" /\ closer'.lsn = Len(lines)
        /\ closer'.period = closer.period /\ closer'.baseline = closer.baseline
        /\ closer'.claimed = closer.claimed /\ closer'.swept = closer.swept
        /\ closer'.rows = closer.rows /\ closer'.cost = closer.cost
        /\ closer'.residue = closer.residue /\ closer'.fence = closer.fence
    BY <1>1, <1>2, Zenon DEF CloserType
  <1>4. UNCHANGED <<period, lines, halted, delivered>>
    BY <1>1, Zenon DEF ledger, engine, process
  <1>5. ClaimsOK'
    BY <1>1, <1>3, <1>4, Zenon DEF IInv, ClaimsOK
  <1>6. CloseOrderOK'
    <2> DEFINE p == closer.period
    <2>1. \A i \in Due(p) : i <= Len(lines)
      BY <1>2 DEF Due, Ids
    <2>2. {i \in Due(p) : closer.pc = "lsn" \/ i <= closer.lsn} = Due(p)
      BY <1>1, Zenon
    <2>3. Due(p)' = Due(p)
      BY <1>3, <1>4, Zenon DEF Due, Ids, EndOf
    <2>4. {i \in Due(closer.period) : closer.pc = "lsn" \/ i <= closer.lsn}' = Due(p)
      BY <1>3, <2>1, <2>3, Zenon
    <2>5. closer.baseline <= Cardinality(Due(p))
      BY <1>1, <2>2, Zenon DEF IInv, CloseOrderOK
    <2>6. (closer.baseline <= Cardinality(
             {i \in Due(closer.period) : closer.pc = "lsn" \/ i <= closer.lsn}))'
      BY <1>3, <2>4, <2>5, Zenon
    <2>7. Len(lines) <= Len(lines)
      BY <1>2
    <2> QED BY <1>1, <1>3, <1>4, <2>6, <2>7, Zenon DEF IInv, CloseOrderOK
  <1>7. closer.residue = {}
    BY <1>1, Zenon DEF IInv, CloseOrderOK
  <1> QED BY <1>1, <1>3, <1>5, <1>6, <1>7, CloserMoved, Zenon

\* A step that keeps the close's lsn as well; after the gate, the lines up to
\* it are delivered.
LEMMA CloserOrdered ==
    ASSUME IInv, UNCHANGED <<ledger, engine, process, sub, worker, misbooked>>,
           closer.pc # "idle", closer' \in CloserType, closer.pc # "lsn", closer'.pc # "lsn",
           closer'.period = closer.period, closer'.baseline = closer.baseline,
           closer'.lsn = closer.lsn,
           closer'.pc \in {"sweep", "lock", "drain"} => closer.lsn <= delivered,
           closer'.pc \in {"lock", "drain"} => closer'.pool \in closer'.claimed,
           closer'.fence => \A s \in Submitters : sub[s].pc # "idle" => ~sub[s].fence
    PROVE  CloseOrderOK'
  <1>1. UNCHANGED <<period, lines, delivered, sub>>
    BY Zenon DEF ledger, process
  <1>2. Due(closer.period)' = Due(closer.period)
    BY <1>1, Zenon DEF Due, Ids, EndOf
  <1>3. {i \in Due(closer.period) : closer.pc = "lsn" \/ i <= closer.lsn}'
        = {i \in Due(closer.period) : closer.pc = "lsn" \/ i <= closer.lsn}
    BY <1>2, Zenon
  <1> QED BY <1>1, <1>3, Zenon DEF IInv, CloseOrderOK

\* The gate's pools, and whether one lags, are recorded.
LEMMA CloseGateKeeps ==
    ASSUME IInv, CloseGate
    PROVE  IInv'
  <1> DEFINE gate == GatePools(closer.period)
             lag == \E q \in gate : Lagging(closer.period, q)
  <1>1. /\ closer.pc = "gate" /\ closer.pc # "idle"
        /\ closer' = [closer EXCEPT !.pc = "arms", !.todo = gate, !.lagging = lag]
        /\ UNCHANGED <<ledger, engine, process, sub, worker, misbooked>>
    BY Zenon DEF CloseGate, CloseStep
  <1>2. closer \in CloserType
    BY <1>1, CloserFacts, Zenon
  <1>3. gate \in SUBSET Strict /\ lag \in BOOLEAN
    BY Zenon DEF GatePools, Due
  <1> HIDE DEF gate, lag
  <1>4. /\ closer' \in CloserType /\ closer'.pc = "arms" /\ closer'.lsn = closer.lsn
        /\ closer'.period = closer.period /\ closer'.baseline = closer.baseline
        /\ closer'.claimed = closer.claimed /\ closer'.swept = closer.swept
        /\ closer'.rows = closer.rows /\ closer'.cost = closer.cost
        /\ closer'.residue = closer.residue /\ closer'.fence = closer.fence
    BY <1>1, <1>2, <1>3, Zenon DEF CloserType
  <1>5. ClaimsOK'
    BY <1>1, <1>4, Zenon DEF IInv, ClaimsOK, engine
  <1>6. CloseOrderOK'
    BY <1>1, <1>4, CloserOrdered, Zenon DEF IInv, CloseOrderOK
  <1>7. closer.claimed \subseteq closer'.claimed
    BY <1>4, Zenon
  <1> QED BY <1>1, <1>4, <1>5, <1>6, <1>7, CloserMoved, Zenon

\* The arms let the sweep begin, on a current feed, or mark the period closing
\* and end the call.
LEMMA CloseArmsKeeps ==
    ASSUME IInv, CloseArms
    PROVE  IInv'
  <1>1. /\ closer.pc = "arms" /\ closer.pc # "idle"
        /\ UNCHANGED <<lines, engine, process, sub, worker, misbooked>>
    BY Zenon DEF CloseArms
  <1>2. closer \in CloserType /\ closer.period \in Periods
    BY <1>1, CloserFacts, Zenon
  <1>3. CASE GatePassed
    <2>1. closer' = [closer EXCEPT !.pc = "sweep"] /\ UNCHANGED period
      BY <1>3, Zenon DEF CloseArms
    <2>2. /\ closer' \in CloserType /\ closer'.pc = "sweep" /\ closer'.lsn = closer.lsn
          /\ closer'.period = closer.period /\ closer'.baseline = closer.baseline
          /\ closer'.claimed = closer.claimed /\ closer'.swept = closer.swept
          /\ closer'.rows = closer.rows /\ closer'.cost = closer.cost
          /\ closer'.residue = closer.residue /\ closer'.fence = closer.fence
      BY <1>2, <2>1, Zenon DEF CloserType
    <2>3. closer.lsn <= delivered
      BY <1>1, <1>3, CloserFacts, LineFacts, Zenon DEF IInv, TypeOK, GatePassed
    <2>4. UNCHANGED <<ledger, engine, process, sub, worker, misbooked>>
      BY <1>1, <2>1, Zenon DEF ledger
    <2>5. ClaimsOK'
      BY <1>1, <2>2, Zenon DEF IInv, ClaimsOK, engine
    <2>6. CloseOrderOK'
      BY <1>1, <2>2, <2>3, <2>4, CloserOrdered, Zenon DEF IInv, CloseOrderOK
    <2>7. closer.claimed \subseteq closer'.claimed
      BY <2>2, Zenon
    <2> QED BY <1>1, <2>2, <2>4, <2>5, <2>6, <2>7, CloserMoved, Zenon
  <1>4. CASE ~GatePassed
    <2>1. closer' = Idle /\ period' = [period EXCEPT ![closer.period] = "closing"]
      BY <1>4, Zenon DEF CloseArms
    <2>2. period[closer.period] # "closed" /\ period \in [Periods -> {"open", "closing", "closed"}]
      BY <1>1, Zenon DEF IInv, CloseOrderOK, TypeOK
    <2>3. /\ period' \in [Periods -> {"open", "closing", "closed"}]
          /\ \A q \in Periods : period'[q] = "closed" <=> period[q] = "closed"
      BY <1>2, <2>1, <2>2, Zenon
    <2> QED BY <1>1, <2>1, <2>3, CloserGone, Zenon
  <1> QED BY <1>3, <1>4, Zenon

\* The sweep claims a pool that no pass holds, or rolls back at a halted one.
LEMMA SweepClaimKeeps ==
    ASSUME FiniteFacts, IInv, SweepClaim
    PROVE  IInv'
  <1> DEFINE p == Min(closer.todo)
             ins == IF p \in queued THEN closer.inserted ELSE closer.inserted \cup {p}
  <1>1. /\ closer.pc = "sweep" /\ closer.pc # "idle" /\ closer.todo # {}
        /\ UNCHANGED <<ledger, engine, process, sub, worker, misbooked>>
    BY Zenon DEF SweepClaim, CloseStep
  <1>2. closer \in CloserType /\ closer.todo \subseteq Strict
    BY <1>1, CloserFacts, Zenon
  <1>3. p \in Strict /\ p \in Nat
    <2>1. closer.todo \in SUBSET Nat /\ IsFiniteSet(closer.todo)
      BY <1>2, CloseAssumption, Zenon DEF FiniteFacts
    <2> QED BY <1>1, <1>2, <2>1, MinIn, Zenon
  <1>4. CASE closer' = Idle
    <2>1. UNCHANGED period /\ period \in [Periods -> {"open", "closing", "closed"}]
      BY <1>1, Zenon DEF IInv, TypeOK, ledger
    <2>2. UNCHANGED <<lines, engine, process, sub, worker, misbooked>>
      BY <1>1, Zenon DEF ledger
    <2> QED BY <1>4, <2>1, <2>2, CloserGone, Zenon
  <1>5. CASE /\ p \notin halted /\ \A w \in Workers : ~WorkerClaims(w, p)
             /\ closer' = [closer EXCEPT !.pc = "lock", !.pool = p,
                             !.claimed = @ \cup {p}, !.inserted = ins]
    <2>1. ins \in SUBSET Strict
      BY <1>2, <1>3, Zenon DEF CloserType
    <2> HIDE DEF p, ins
    <2>2. /\ closer' \in CloserType /\ closer'.pc = "lock" /\ closer'.lsn = closer.lsn
          /\ closer'.period = closer.period /\ closer'.baseline = closer.baseline
          /\ closer'.claimed = closer.claimed \cup {p} /\ closer'.swept = closer.swept
          /\ closer'.rows = closer.rows /\ closer'.cost = closer.cost
          /\ closer'.residue = closer.residue /\ closer'.fence = closer.fence
          /\ closer'.pool = p
      BY <1>2, <1>3, <1>5, <2>1, Zenon DEF CloserType
    <2>3. ClaimsOK'
      BY <1>1, <1>5, <2>2, ZenonT(60) DEF IInv, ClaimsOK, WorkerClaims, engine
    <2>4. CloseOrderOK'
      BY <1>1, <2>2, CloserOrdered, Zenon DEF IInv, CloseOrderOK
    <2>5. closer.claimed \subseteq closer'.claimed
      BY <2>2, Zenon
    <2> QED BY <1>1, <2>2, <2>3, <2>4, <2>5, CloserMoved, Zenon
  <1> QED BY <1>4, <1>5, Zenon DEF SweepClaim

\* The aggregate of the claimed pool is locked.
LEMMA SweepLockKeeps ==
    ASSUME IInv, SweepLock
    PROVE  IInv'
  <1>1. /\ closer.pc = "lock" /\ closer.pc # "idle"
        /\ closer' = [closer EXCEPT !.pc = "drain", !.held = @ \cup {closer.pool}]
        /\ UNCHANGED <<ledger, engine, process, sub, worker, misbooked>>
    BY Zenon DEF SweepLock, CloseStep
  <1>2. closer \in CloserType /\ closer.claimed \subseteq Strict /\ closer.pool \in closer.claimed
    BY <1>1, CloserFacts, Zenon DEF IInv, CloseOrderOK
  <1>3. /\ closer' \in CloserType /\ closer'.pc = "drain" /\ closer'.lsn = closer.lsn
        /\ closer'.period = closer.period /\ closer'.baseline = closer.baseline
        /\ closer'.claimed = closer.claimed /\ closer'.swept = closer.swept
        /\ closer'.rows = closer.rows /\ closer'.cost = closer.cost
        /\ closer'.residue = closer.residue /\ closer'.fence = closer.fence
        /\ closer'.pool = closer.pool
    BY <1>1, <1>2, ZenonT(60) DEF CloserType
  <1>4. ClaimsOK'
    BY <1>1, <1>3, Zenon DEF IInv, ClaimsOK, engine
  <1>5. CloseOrderOK'
    BY <1>1, <1>2, <1>3, CloserOrdered, Zenon DEF IInv, CloseOrderOK
  <1>6. closer.claimed \subseteq closer'.claimed
    BY <1>3, Zenon
  <1> QED BY <1>1, <1>3, <1>4, <1>5, <1>6, CloserMoved, Zenon

\* The fence is granted when no submission, no pass and no reseed shares it.
LEMMA CloseFenceKeeps ==
    ASSUME IInv, CloseFence
    PROVE  IInv'
  <1>1. /\ closer.pc = "sweep" /\ closer.pc # "idle"
        /\ \A s \in Submitters : ~Sharing(s)
        /\ closer' = [closer EXCEPT !.fence = TRUE]
        /\ UNCHANGED <<ledger, engine, process, sub, worker, misbooked>>
    BY Zenon DEF CloseFence, CloseStep
  <1>2. closer \in CloserType
    BY <1>1, CloserFacts, Zenon
  <1>3. /\ closer' \in CloserType /\ closer'.pc = "sweep" /\ closer'.lsn = closer.lsn
        /\ closer'.period = closer.period /\ closer'.baseline = closer.baseline
        /\ closer'.claimed = closer.claimed /\ closer'.swept = closer.swept
        /\ closer'.rows = closer.rows /\ closer'.cost = closer.cost
        /\ closer'.residue = closer.residue
    BY <1>1, <1>2, Zenon DEF CloserType
  <1>4. \A s \in Submitters : sub[s].pc # "idle" => ~sub[s].fence
    BY <1>1, Zenon DEF Sharing
  <1>5. ClaimsOK'
    BY <1>1, <1>3, Zenon DEF IInv, ClaimsOK, engine
  <1>6. CloseOrderOK'
    BY <1>1, <1>3, <1>4, CloserOrdered, Zenon DEF IInv, CloseOrderOK
  <1>7. closer.claimed \subseteq closer'.claimed
    BY <1>3, Zenon
  <1> QED BY <1>1, <1>3, <1>5, <1>6, <1>7, CloserMoved, Zenon

\* Under the fence the close finds the pools that submissions reached in the
\* meantime and sweeps them too.
LEMMA CloseRecheckKeeps ==
    ASSUME IInv, CloseRecheck
    PROVE  IInv'
  <1>1. /\ closer.pc = "sweep" /\ closer.pc # "idle"
        /\ closer' = [closer EXCEPT !.todo = Stragglers]
        /\ UNCHANGED <<ledger, engine, process, sub, worker, misbooked>>
    BY Zenon DEF CloseRecheck, CloseStep
  <1>2. closer \in CloserType /\ Stragglers \in SUBSET Strict
    BY <1>1, CloserFacts, Zenon DEF Stragglers, GatePools, Due
  <1>3. /\ closer' \in CloserType /\ closer'.pc = "sweep" /\ closer'.lsn = closer.lsn
        /\ closer'.period = closer.period /\ closer'.baseline = closer.baseline
        /\ closer'.claimed = closer.claimed /\ closer'.swept = closer.swept
        /\ closer'.rows = closer.rows /\ closer'.cost = closer.cost
        /\ closer'.residue = closer.residue /\ closer'.fence = closer.fence
    BY <1>1, <1>2, Zenon DEF CloserType
  <1>4. ClaimsOK'
    BY <1>1, <1>3, Zenon DEF IInv, ClaimsOK, engine
  <1>5. CloseOrderOK'
    BY <1>1, <1>3, CloserOrdered, Zenon DEF IInv, CloseOrderOK
  <1>6. closer.claimed \subseteq closer'.claimed
    BY <1>3, Zenon
  <1> QED BY <1>1, <1>3, <1>4, <1>5, <1>6, CloserMoved, Zenon

\* What the drain of a claimed pool starts from and comes to.
LEMMA DrainFacts ==
    ASSUME FiniteFacts, IInv, closer.pc = "drain"
    PROVE  LET p == closer.pool
               r == OwnRow(p)
               new == Costings(r, Scan(p, r))
               F == Folded(r, Scan(p, r))
               base == Over(closer.cost, cost)
           IN  /\ p \in Strict /\ p \in closer.claimed
               /\ r \in RowType /\ RowRight(p, r) /\ row[p].folded \subseteq r.folded
               /\ base \in CostMap /\ LayersCosted(base, r)
               /\ r.folded \subseteq F /\ F \subseteq LinesOf(p)
               /\ Settled(r, r, Scan(p, r)) \in RowType
               /\ RowRight(p, Settled(r, r, Scan(p, r)))
               /\ Settled(r, r, Scan(p, r)).folded = F
               /\ new \in CostMap /\ DOMAIN new \subseteq F
               /\ \A i \in F : lines[i].out =>
                    i \in DOMAIN Over(new, base) /\ Over(new, base)[i] = Basis(i, F)
               /\ ~Broken => \A i \in LinesOf(p) : i > delivered \/ i \in F
  <1> DEFINE p == closer.pool
             r == OwnRow(p)
             scan == Scan(p, r)
             new == Costings(r, scan)
             F == Folded(r, scan)
             base == Over(closer.cost, cost)
  <1>0. closer.pc # "idle" /\ TypeOK
    BY Zenon DEF IInv
  <1>1. p \in Strict /\ p \in Pools /\ p \in closer.claimed
    BY <1>0, CloserFacts, CloseAssumption, Zenon DEF IInv, CloseOrderOK
  <1>2. cost \in CostMap /\ closer.cost \in CostMap /\ row[p] \in RowType
    BY <1>0, <1>1, CloserFacts, Zenon DEF TypeOK
  <1>3. /\ base \in CostMap /\ DOMAIN base = DOMAIN closer.cost \cup DOMAIN cost
        /\ \A i \in DOMAIN cost : i \notin DOMAIN closer.cost => base[i] = cost[i]
    BY <1>2, OverFacts, Zenon
  <1>4. /\ r \in RowType /\ RowRight(p, r) /\ row[p].folded \subseteq r.folded
        /\ LayersCosted(base, r)
    <2>1. CASE p \in closer.swept
      <3>1. r = closer.rows[p]
        BY <1>0, <2>1, Zenon DEF IInv, SweptOK, OwnRow
      <3>2. closer.rows[p] \in RowType
        BY <1>0, <2>1, CloserFacts, Zenon
      <3> QED BY <1>0, <2>1, <3>1, <3>2, Zenon DEF IInv, SweptOK
    <2>2. CASE p \notin closer.swept
      <3>1. r = row[p]
        BY <1>0, <2>2, Zenon DEF IInv, SweptOK, OwnRow
      <3>2. RowRight(p, row[p]) /\ LayersCosted(cost, row[p])
        BY <1>1, Zenon DEF IInv, RowsOK
      <3>3. ASSUME NEW i \in row[p].folded, lines[i].out
            PROVE  i \in DOMAIN base /\ base[i] = Basis(i, row[p].folded)
        <4>1. i \in DOMAIN cost /\ cost[i] = Basis(i, row[p].folded)
          BY <3>2, <3>3, Zenon DEF LayersCosted
        <4>2. lines[i].pool = p
          BY <3>2, <3>3, Zenon DEF RowRight, LinesOf
        <4>3. i \notin DOMAIN closer.cost
          BY <1>0, <2>2, <4>2, Zenon DEF IInv, SweptOK
        <4>4. i \in DOMAIN base /\ base[i] = cost[i]
          BY <1>3, <4>1, <4>3, Zenon
        <4> QED BY <4>1, <4>4, Zenon
      <3>4. LayersCosted(base, row[p])
        BY <3>3, Zenon DEF LayersCosted
      <3> QED BY <1>2, <3>1, <3>2, <3>4, Zenon
    <2> QED BY <2>1, <2>2, Zenon
  <1> HIDE DEF r, base, p
  <1>5. /\ scan \subseteq LinesOf(p) /\ scan \in SUBSET Scan(p, r) /\ scan \in SUBSET Nat
        /\ r.folded \subseteq Folded(r, scan)
        /\ FullReplay(r) => scan = LinesOf(p)
    BY <1>0, <1>1, <1>4, ScanFacts, Zenon
  <1>6. scan \in SUBSET Ids /\ r.folded \subseteq Ids
    BY <1>4, <1>5, Zenon DEF LinesOf, RowRight
  <1>7. scan \subseteq F
    BY Zenon DEF Folded
  <1> HIDE DEF scan
  <1>8. /\ Settled(r, r, scan) \in RowType /\ RowRight(p, Settled(r, r, scan))
        /\ Settled(r, r, scan).folded = F /\ F \subseteq LinesOf(p)
    BY <1>0, <1>1, <1>4, <1>5, Refold, ZenonT(60)
  <1>9. new \in CostMap /\ DOMAIN new \subseteq F
    <2>1. new \in CostMap /\ DOMAIN new = {j \in scan : lines[j].out}
      BY <1>0, <1>4, <1>6, CostingsFacts, Zenon
    <2> HIDE DEF F, new
    <2> QED BY <1>7, <2>1, Zenon
  <1>10. \A i \in F : lines[i].out =>
           i \in DOMAIN Over(new, base) /\ Over(new, base)[i] = Basis(i, F)
    BY <1>0, <1>1, <1>3, <1>4, <1>5, RefoldCosts, Zenon
  <1>11. ASSUME ~Broken, NEW i \in LinesOf(p)
         PROVE  i > delivered \/ i \in F
    <2>1. CASE FullReplay(r)
      BY <1>5, <1>7, <2>1, <1>11, Zenon
    <2>2. CASE ~FullReplay(r) /\ p \in closer.swept
      <3>1. r = closer.rows[p]
        BY <1>0, <2>2, Zenon DEF IInv, SweptOK, OwnRow, r
      <3>2. i > delivered \/ i \in r.folded
        BY <1>0, <1>11, <2>2, <3>1, Zenon DEF IInv, AccountOK
      <3> QED BY <3>2, <1>5, Zenon
    <2>3. CASE ~FullReplay(r) /\ p \notin closer.swept
      <3>1. r = row[p]
        BY <1>0, <2>3, Zenon DEF IInv, SweptOK, OwnRow, r
      <3>2. \/ i > delivered \/ i \in row[p].folded
            \/ row[p].floor # Never \/ Before(row[p].frontier, Pos(i))
        BY <1>1, <1>11, Zenon DEF IInv, AccountOK, Accounted
      <3>3. row[p].floor = Never
        BY <2>3, <3>1, Zenon DEF FullReplay
      <3>4. CASE Before(row[p].frontier, Pos(i))
        <4>1. i \in scan
          BY <1>11, <2>3, <3>1, <3>4, Zenon DEF scan, Scan, ScanFrom
        <4> QED BY <4>1, <1>7, Zenon
      <3> QED BY <3>1, <3>2, <3>3, <3>4, <1>5, Zenon
    <2> QED BY <2>1, <2>2, <2>3, Zenon
  <1> QED BY <1>1, <1>3, <1>4, <1>5, <1>8, <1>9, <1>10, <1>11, Zenon DEF p, r, scan, base

\* A drain gives the pool the layers of all its lines, or rolls back when a
\* frozen cost would move.
LEMMA SweepDrainKeeps ==
    ASSUME FiniteFacts, IInv, SweepDrain
    PROVE  IInv'
  <1> DEFINE p == closer.pool
             r == OwnRow(p)
             scan == Scan(p, r)
             new == Costings(r, scan)
             F == Folded(r, scan)
             base == Over(closer.cost, cost)
             settled == Settled(r, r, scan)
             rows == [q \in closer.swept \cup {p} |->
                        IF q = p THEN settled ELSE closer.rows[q]]
             residue == (closer.residue \ LinesOf(p)) \cup (LinesOf(p) \ F)
  <1>1. /\ closer.pc = "drain" /\ closer.pc # "idle"
        /\ UNCHANGED <<ledger, engine, process, sub, worker, misbooked>>
    BY Zenon DEF SweepDrain, CloseStep
  <1>2. CASE Diverges(Pending(new, base))
    <2>1. closer' = Idle
      BY <1>2, Zenon DEF SweepDrain
    <2>2. UNCHANGED period /\ period \in [Periods -> {"open", "closing", "closed"}]
      BY <1>1, Zenon DEF IInv, TypeOK, ledger
    <2>3. UNCHANGED <<lines, engine, process, sub, worker, misbooked>>
      BY <1>1, Zenon DEF ledger
    <2> QED BY <2>1, <2>2, <2>3, CloserGone, Zenon
  <1>3. CASE ~Diverges(Pending(new, base))
    <2>1. closer' = [closer EXCEPT !.pc = "sweep", !.todo = @ \ {p}, !.swept = @ \cup {p},
                       !.rows = rows, !.cost = Over(new, closer.cost), !.residue = residue]
      BY <1>3, Zenon DEF SweepDrain
    <2>2. /\ p \in Strict /\ p \in closer.claimed
          /\ row[p].folded \subseteq r.folded
          /\ base \in CostMap
          /\ r.folded \subseteq F /\ F \subseteq LinesOf(p)
          /\ settled \in RowType /\ RowRight(p, settled) /\ settled.folded = F
          /\ new \in CostMap /\ DOMAIN new \subseteq F
          /\ \A i \in F : lines[i].out =>
               i \in DOMAIN Over(new, base) /\ Over(new, base)[i] = Basis(i, F)
          /\ ~Broken => \A i \in LinesOf(p) : i > delivered \/ i \in F
      BY <1>1, DrainFacts, Zenon
    <2>r. p \in closer.swept => r = closer.rows[p]
      BY <1>1, Zenon DEF IInv, SweptOK, OwnRow
    <2> HIDE DEF r, scan, new, F, base, settled, p
    <2>3. /\ closer \in CloserType /\ closer.cost \in CostMap /\ closer.swept \subseteq Strict
          /\ \A q \in closer.swept : closer.rows[q] \in RowType
          /\ cost \in CostMap
      BY <1>1, CloserFacts, Zenon DEF IInv, TypeOK
    <2>4. /\ rows \in [closer.swept \cup {p} -> RowType] /\ rows[p] = settled
          /\ \A q \in closer.swept : q # p => rows[q] = closer.rows[q]
      BY <2>2, <2>3, Zenon
    <2>5. rows \in RowMap
      <3>1. closer.swept \cup {p} \in SUBSET Strict
        BY <2>2, <2>3, Zenon
      <3> HIDE DEF rows
      <3> QED BY <2>4, <3>1, Zenon DEF RowMap
    <2>6. residue \in SUBSET Nat
      BY <2>3, LineFacts, Zenon DEF CloserType, LinesOf, IInv
    <2> DEFINE mine == Over(new, closer.cost)
    <2>7. /\ mine \in CostMap /\ DOMAIN mine = DOMAIN new \cup DOMAIN closer.cost
          /\ \A i \in DOMAIN new : mine[i] = new[i]
          /\ \A i \in DOMAIN closer.cost : i \notin DOMAIN new => mine[i] = closer.cost[i]
      BY <2>2, <2>3, OverFacts, Zenon
    <2> HIDE DEF rows, residue, mine
    <2>8. /\ closer' \in CloserType /\ closer'.pc = "sweep" /\ closer'.lsn = closer.lsn
          /\ closer'.period = closer.period /\ closer'.baseline = closer.baseline
          /\ closer'.claimed = closer.claimed /\ closer'.swept = closer.swept \cup {p}
          /\ closer'.rows = rows /\ closer'.cost = mine
          /\ closer'.residue = residue /\ closer'.fence = closer.fence
      <3>1. closer.swept \cup {p} \in SUBSET Strict
        BY <2>2, <2>3, Zenon
      <3>2. closer' = [closer EXCEPT !.pc = "sweep", !.todo = @ \ {p},
                         !.swept = @ \cup {p}, !.rows = rows, !.cost = mine,
                         !.residue = residue]
        BY <2>1, Zenon DEF mine
      <3> QED BY <2>3, <2>5, <2>6, <2>7, <3>1, <3>2, Zenon DEF CloserType
    <2>9. ClaimsOK'
      BY <1>1, <2>8, Zenon DEF IInv, ClaimsOK, engine
    <2>10. CloseOrderOK'
      BY <1>1, <2>8, CloserOrdered, Zenon DEF IInv, CloseOrderOK
    <2>11. DOMAIN rows = closer.swept \cup {p}
      BY <2>4, Zenon
    <2>12. \A q : LinesOf(q)' = LinesOf(q)
      BY <1>1, Zenon DEF LinesOf, Ids, ledger
    <2>13. \A i : Pos(i)' = Pos(i) /\ Frozen(i)' = Frozen(i)
      BY <1>1, Zenon DEF Pos, Frozen, ClosedThrough, ledger
    <2>14. \A i, S : Basis(i, S)' = Basis(i, S)
      BY <2>13, Zenon DEF Basis
    <2>15. /\ DOMAIN base = DOMAIN closer.cost \cup DOMAIN cost
           /\ \A i \in DOMAIN closer.cost : base[i] = closer.cost[i]
           /\ \A i \in DOMAIN cost : i \notin DOMAIN closer.cost => base[i] = cost[i]
      BY <2>3, OverFacts, Zenon DEF base
    <2> DEFINE all == Over(mine, cost)
               over == Over(new, base)
    <2>16. /\ DOMAIN all = DOMAIN mine \cup DOMAIN cost
           /\ \A i \in DOMAIN mine : all[i] = mine[i]
           /\ \A i \in DOMAIN cost : i \notin DOMAIN mine => all[i] = cost[i]
      BY <2>3, <2>7, OverFacts, ZenonT(60)
    <2>17. /\ DOMAIN over = DOMAIN new \cup DOMAIN base
           /\ \A i \in DOMAIN new : over[i] = new[i]
           /\ \A i \in DOMAIN base : i \notin DOMAIN new => over[i] = base[i]
      BY <2>2, OverFacts, Zenon
    <2>18. \A i \in F : lines[i].out => i \in DOMAIN over /\ over[i] = Basis(i, F)
      BY <2>2, Zenon
    <2> HIDE DEF all, over
    <2>19. DOMAIN all = DOMAIN over /\ \A i \in DOMAIN all : all[i] = over[i]
      BY <2>7, <2>15, <2>16, <2>17, ZenonT(60)
    <2>20. SweptOK'
      <3>1. (closer.swept \subseteq closer.claimed /\ DOMAIN closer.rows = closer.swept)'
        BY <1>1, <2>2, <2>8, <2>11, Zenon DEF IInv, SweptOK
      <3>2. ASSUME NEW q \in closer.swept \cup {p}
            PROVE  /\ RowRight(q, rows[q]) /\ row[q].folded \subseteq rows[q].folded
                   /\ \A i \in rows[q].folded : lines[i].out =>
                        i \in DOMAIN all /\ all[i] = Basis(i, rows[q].folded)
        <4>1. CASE q = p
          BY <2>2, <2>4, <2>18, <2>19, <4>1, Zenon
        <4>2. CASE q # p
          <5>1. q \in closer.swept /\ rows[q] = closer.rows[q]
            BY <2>4, <4>2, Zenon
          <5>2. /\ RowRight(q, rows[q]) /\ row[q].folded \subseteq rows[q].folded
                /\ LayersCosted(base, rows[q])
            BY <1>1, <5>1, Zenon DEF IInv, SweptOK, base
          <5>3. ASSUME NEW i \in rows[q].folded, lines[i].out
                PROVE  i \in DOMAIN all /\ all[i] = Basis(i, rows[q].folded)
            <6>1. i \in DOMAIN base /\ base[i] = Basis(i, rows[q].folded)
              BY <5>2, <5>3, Zenon DEF LayersCosted
            <6>2. i \notin DOMAIN new
              BY <2>2, <4>2, <5>2, <5>3 DEF RowRight, LinesOf
            <6> QED BY <2>17, <2>19, <6>1, <6>2, Zenon
          <5> QED BY <5>2, <5>3, Zenon
        <4> QED BY <4>1, <4>2, Zenon
      <3>3. (\A q \in closer.swept :
             /\ RowRight(q, closer.rows[q])
             /\ row[q].folded \subseteq closer.rows[q].folded
             /\ LayersCosted(Over(closer.cost, cost), closer.rows[q]))'
        <4>1. Over(closer'.cost, cost') = all
          BY <1>1, <2>8, Zenon DEF all, engine
        <4> QED BY <1>1, <2>8, <2>12, <2>13, <2>14, <3>2, <4>1, ZenonT(60)
                DEF RowRight, LayersCosted, engine, ledger
      <3>4. ASSUME NEW i \in DOMAIN mine
            PROVE  /\ i \in Ids /\ lines[i].pool \in closer.swept \cup {p}
                   /\ i \in rows[lines[i].pool].folded
                   /\ Frozen(i) => i \in DOMAIN cost /\ cost[i] = mine[i]
        <4>1. CASE i \in DOMAIN new
          <5>1. i \in F /\ i \in Ids /\ lines[i].pool = p
            BY <2>2, <4>1, Zenon DEF LinesOf
          <5>2. ASSUME Frozen(i) PROVE i \in DOMAIN cost /\ cost[i] = mine[i]
            <6>1. i \in DOMAIN base /\ over[i] = base[i]
              BY <1>3, <2>2, <2>17, <4>1, <5>2, FrozenCosts, ZenonT(60)
                 DEF over, new, base, r, scan, p
            <6>2. mine[i] = base[i]
              BY <2>7, <2>17, <4>1, <6>1, Zenon
            <6>3. i \in DOMAIN cost /\ cost[i] = base[i]
              BY <1>1, <2>15, <5>2, <6>1, Zenon DEF IInv, SweptOK
            <6> QED BY <6>2, <6>3, Zenon
          <5> QED BY <2>2, <2>4, <5>1, <5>2, Zenon
        <4>2. CASE i \notin DOMAIN new
          <5>1. i \in DOMAIN closer.cost /\ mine[i] = closer.cost[i]
            BY <2>7, <3>4, <4>2, Zenon
          <5>2. /\ i \in Ids /\ lines[i].pool \in closer.swept
                /\ i \in closer.rows[lines[i].pool].folded
                /\ Frozen(i) => i \in DOMAIN cost /\ cost[i] = closer.cost[i]
            BY <1>1, <5>1, Zenon DEF IInv, SweptOK
          <5>3. i \in rows[lines[i].pool].folded
            BY <2>2, <2>4, <2>r, <5>2, Zenon
          <5> QED BY <5>1, <5>2, <5>3, Zenon
        <4> QED BY <4>1, <4>2, Zenon
      <3>5. (\A i \in DOMAIN closer.cost :
             /\ i \in Ids /\ lines[i].pool \in closer.swept
             /\ i \in closer.rows[lines[i].pool].folded
             /\ Frozen(i) => i \in DOMAIN cost /\ cost[i] = closer.cost[i])'
        BY <1>1, <2>8, <2>13, <3>4, Zenon DEF Ids, ledger, engine
      <3>6. ASSUME NEW i \in residue
            PROVE  /\ i \in Ids /\ lines[i].pool \in Strict
                   /\ losses = 0 => i > closer.lsn
        <4>1. CASE i \in closer.residue
          BY <1>1, <4>1, Zenon DEF IInv, SweptOK
        <4>2. CASE i \in LinesOf(p) \ F
          <5>1. i \in Ids /\ lines[i].pool \in Strict /\ i \in Nat
            BY <2>2, <4>2, LineFacts, Zenon DEF LinesOf, IInv
          <5>2. ASSUME losses = 0 PROVE i > closer.lsn
            <6>1. i > delivered
              BY <2>2, <4>2, <5>2, ZenonT(60) DEF IInv, AccountOK
            <6>2. closer.lsn <= delivered /\ closer.lsn \in Nat /\ delivered \in Nat
              BY <1>1, CloserFacts, DeliveredFacts, Zenon DEF IInv, CloseOrderOK
            <6> QED BY <5>1, <6>1, <6>2
          <5> QED BY <5>1, <5>2, Zenon
        <4> QED BY <3>6, <4>1, <4>2, Zenon DEF residue
      <3>7. (\A i \in closer.residue : /\ i \in Ids /\ lines[i].pool \in Strict
                                       /\ losses = 0 => i > closer.lsn)'
        BY <1>1, <2>8, <3>6, Zenon DEF Ids, ledger, process
      <3> QED BY <3>1, <3>3, <3>5, <3>7, Zenon DEF SweptOK
    <2>21. AccountOK'
      <3>1. Broken' = Broken /\ Accounted' = Accounted
        BY <1>1, <2>12, <2>13, Zenon DEF Broken, Accounted, process, engine
      <3>2. ASSUME ~Broken, NEW q \in closer.swept \cup {p}, NEW i \in LinesOf(q)
            PROVE  i > delivered \/ i \in rows[q].folded
        <4>1. CASE q = p
          BY <2>2, <2>4, <3>2, <4>1, Zenon
        <4>2. CASE q # p
          BY <1>1, <2>4, <3>2, <4>2, Zenon DEF IInv, AccountOK
        <4> QED BY <4>1, <4>2, Zenon
      <3> QED BY <1>1, <2>8, <2>12, <3>1, <3>2, Zenon DEF IInv, AccountOK, process
    <2>22. UNCHANGED <<lines, engine, process, sub, worker, misbooked>> /\ UNCHANGED period
      BY <1>1, Zenon DEF ledger
    <2>23. period' \in [Periods -> {"open", "closing", "closed"}]
      BY <2>22, Zenon DEF IInv, TypeOK
    <2> QED BY <2>8, <2>9, <2>10, <2>20, <2>21, <2>22, <2>23, CloserStep, Zenon
  <1> QED BY <1>2, <1>3, Zenon

\* What the stamp rests on: the frozen lines after it are the due ones, each
\* was there when the lsn was read, and their pools are swept.
LEMMA StampFacts ==
    ASSUME FiniteFacts, IInv, closer.pc = "sweep", closer.fence, Stragglers = {}, CloseRecount,
           UNCHANGED lines, period' = [period EXCEPT ![closer.period] = "closed"]
    PROVE  /\ \A i \in Ids : lines[i].pool \in Strict =>
                (Frozen(i)' <=> i \in Due(closer.period))
           /\ \A i : Frozen(i) => Frozen(i)'
           /\ \A i \in Due(closer.period) :
                /\ i <= closer.lsn /\ lines[i].pool \in closer.swept
                /\ losses = 0 => i \in closer.rows[lines[i].pool].folded
  <1> DEFINE P == closer.period
             D == Due(P)
  <1>1. closer.pc # "idle" /\ P \in Periods /\ closer.lsn \in Nat /\ closer.baseline \in Nat
    BY CloserFacts, Zenon
  <1>2. period \in [Periods -> {"open", "closing", "closed"}] /\ TypeOK
    BY Zenon DEF IInv, TypeOK
  <1>3. period'[P] = "closed" /\ \A q \in Periods : q # P => period'[q] = period[q]
    BY <1>1, <1>2, Zenon
  <1>4. \A i \in Ids : lines[i].at \in Nat
    BY <1>2, LineFacts, CloseAssumption, Zenon DEF LineType
  <1>5. \A q \in Periods : Calendar[q].first \in Nat /\ Calendar[q].last \in Nat
    BY CloseAssumption, Zenon
  <1>6. ASSUME NEW i \in Ids, lines[i].pool \in Strict
        PROVE  Frozen(i)' <=> i \in D
    <2>1. Frozen(i)' <=> \E q \in Periods : period'[q] = "closed" /\ lines[i].at <= Calendar[q].last
      BY Zenon DEF Frozen, ClosedThrough
    <2>2. i \in D <=> lines[i].at <= Calendar[P].last
      BY <1>6, Zenon DEF Due, EndOf
    <2>3. ASSUME NEW q \in Periods, q # P, period[q] = "closed"
          PROVE  Calendar[q].last < Calendar[P].last
      <3>1. period[P] # "closed"
        BY <1>1, Zenon DEF IInv, CloseOrderOK
      <3>2. ~(Calendar[P].first < Calendar[q].first)
        BY <1>1, <2>3, <3>1, Zenon DEF IInv, OrderOK
      <3> QED BY <1>1, <1>5, <2>3, <3>2, CloseAssumption
    <2> QED BY <1>1, <1>3, <1>4, <1>5, <1>6, <2>1, <2>2, <2>3
  <1>7. ASSUME NEW i, Frozen(i) PROVE Frozen(i)'
    BY <1>1, <1>3, <1>7, Zenon DEF Frozen, ClosedThrough
  <1>8. \A i \in D : i <= closer.lsn
    <2> DEFINE E == {i \in D : i <= closer.lsn}
    <2>1. closer.baseline <= Cardinality({i \in D : closer.pc = "lsn" \/ i <= closer.lsn})
      BY <1>1, Zenon DEF IInv, CloseOrderOK
    <2>2. E = {i \in D : closer.pc = "lsn" \/ i <= closer.lsn}
      BY Zenon
    <2>3. closer.baseline <= Cardinality(E)
      BY <2>1, <2>2, Zenon
    <2>4. Cardinality(D) = closer.baseline
      BY Zenon DEF CloseRecount
    <2>5. E \in SUBSET D /\ D \in SUBSET D
      BY Zenon
    <2> HIDE DEF D, E
    <2>6. IsFiniteSet(D) /\ Cardinality(D) \in Nat /\ Cardinality(E) \in Nat
      BY <1>1, <2>5, DueFinite, Zenon DEF D
    <2>7. Cardinality(E) <= Cardinality(D) /\ (Cardinality(D) = Cardinality(E) => D = E)
      BY <2>5, <2>6, Zenon DEF FiniteFacts
    <2>8. D = E
      BY <1>1, <2>3, <2>4, <2>6, <2>7
    <2> QED BY <2>8, Zenon DEF E
  <1>9. ASSUME NEW i \in D
        PROVE  /\ lines[i].pool \in closer.swept
               /\ losses = 0 => i \in closer.rows[lines[i].pool].folded
    <2>1. i \in Ids /\ lines[i].pool \in GatePools(P)
      BY <1>9, Zenon DEF GatePools, Due
    <2>2. lines[i].pool \in closer.swept
      BY <2>1, ZenonT(60) DEF Stragglers
    <2>3. i \in Nat /\ closer.lsn <= delivered /\ delivered \in Nat
      BY <1>1, <1>2, <2>1, LineFacts DEF IInv, CloseOrderOK, TypeOK
    <2>4. ~(i > delivered)
      BY <1>1, <1>8, <1>9, <2>3
    <2>5. i \in LinesOf(lines[i].pool)
      BY <2>1, Zenon DEF LinesOf
    <2> QED BY <1>1, <2>2, <2>4, <2>5, Zenon DEF IInv, AccountOK
  <1> QED BY <1>6, <1>7, <1>8, <1>9, Zenon

\* The stamp freezes the period: the sweep has costed every line it covers.
LEMMA CloseStampKeeps ==
    ASSUME FiniteFacts, IInv, CloseStamp
    PROVE  IInv'
  <1> DEFINE P == closer.period
  <1>1. /\ closer.pc = "sweep" /\ closer.pc # "idle" /\ closer.fence /\ Stragglers = {}
        /\ closer' = Idle
        /\ UNCHANGED <<lines, halted, process, sub, worker>>
    BY Zenon DEF CloseStamp
  <1>2. CASE ~CloseRecount
    <2>1. UNCHANGED <<lines, engine, process, sub, worker, misbooked>> /\ UNCHANGED period
      BY <1>1, <1>2, Zenon DEF CloseStamp, engine
    <2>2. period' \in [Periods -> {"open", "closing", "closed"}]
      BY <2>1, Zenon DEF IInv, TypeOK
    <2> QED BY <1>1, <2>1, <2>2, CloserGone, Zenon
  <1>3. CASE CloseRecount
    <2>1. /\ period' = [period EXCEPT ![P] = "closed"]
          /\ row' = [p \in Pools |-> OwnRow(p)]
          /\ cost' = Over(closer.cost, cost)
          /\ queued' = queued \ DOMAIN closer.rows
          /\ misbooked' = {i \in misbooked : lines[i].pool \notin closer.swept}
                           \cup closer.residue
      BY <1>3, Zenon DEF CloseStamp
    <2>2. /\ \A i \in Ids : lines[i].pool \in Strict => (Frozen(i)' <=> i \in Due(P))
          /\ \A i : Frozen(i) => Frozen(i)'
          /\ \A i \in Due(P) :
               /\ i <= closer.lsn /\ lines[i].pool \in closer.swept
               /\ losses = 0 => i \in closer.rows[lines[i].pool].folded
      BY <1>1, <1>3, <2>1, StampFacts, Zenon
    <2>3. /\ closer \in CloserType /\ closer.cost \in CostMap
          /\ closer.swept \subseteq Strict /\ closer.swept \subseteq Pools
          /\ P \in Periods /\ closer.lsn \in Nat /\ Strict \subseteq Pools
          /\ \A q \in closer.swept : closer.rows[q] \in RowType
          /\ closer.swept \subseteq closer.claimed /\ DOMAIN closer.rows = closer.swept
      BY <1>1, CloserFacts, CloseAssumption, Zenon DEF IInv, SweptOK
    <2> HIDE DEF P
    <2>4. /\ cost \in CostMap /\ row \in [Pools -> RowType] /\ TypeOK
          /\ period \in [Periods -> {"open", "closing", "closed"}]
      BY Zenon DEF IInv, TypeOK
    <2>5. /\ cost' \in CostMap /\ DOMAIN cost' = DOMAIN closer.cost \cup DOMAIN cost
          /\ \A i \in DOMAIN closer.cost : cost'[i] = closer.cost[i]
          /\ \A i \in DOMAIN cost : i \notin DOMAIN closer.cost => cost'[i] = cost[i]
      <3> DEFINE c == Over(closer.cost, cost)
      <3>1. /\ c \in CostMap /\ DOMAIN c = DOMAIN closer.cost \cup DOMAIN cost
            /\ \A i \in DOMAIN closer.cost : c[i] = closer.cost[i]
            /\ \A i \in DOMAIN cost : i \notin DOMAIN closer.cost => c[i] = cost[i]
        BY <2>3, <2>4, OverFacts, Zenon
      <3>2. cost' = c
        BY <2>1, Zenon
      <3> HIDE DEF c
      <3> QED BY <3>1, <3>2, Zenon
    <2>6. \A p \in Pools : /\ p \in closer.swept => row'[p] = closer.rows[p]
                           /\ p \notin closer.swept => row'[p] = row[p]
      BY <2>1, <2>3, Zenon DEF OwnRow
    <2>7. period'[P] = "closed" /\ \A q \in Periods : q # P => period'[q] = period[q]
      BY <2>1, <2>3, <2>4, Zenon
    <2>8. \A q : LinesOf(q)' = LinesOf(q)
      BY <1>1, Zenon DEF LinesOf, Ids
    <2>9. Ids' = Ids /\ \A i : Pos(i)' = Pos(i)
      BY <1>1, Zenon DEF Pos, Ids
    <2>10. \A i, S : Basis(i, S)' = Basis(i, S)
      BY <2>9, Zenon DEF Basis
    <2>11. closer'.pc = "idle"
      BY <1>1, Zenon DEF Idle
    <2>12. \A i \in DOMAIN closer.cost :
             /\ i \in Ids /\ lines[i].pool \in closer.swept
             /\ i \in closer.rows[lines[i].pool].folded
      BY <1>1, Zenon DEF IInv, SweptOK
    <2>13. TypeOK'
      <3>1. row' \in [Pools -> RowType]
        <4>1. \A p \in Pools : row'[p] \in RowType
          BY <2>3, <2>4, <2>6, Zenon
        <4> QED BY <2>1, <4>1, Zenon
      <3>2. period' \in [Periods -> {"open", "closing", "closed"}]
        BY <2>1, <2>4, Zenon
      <3>3. queued' \subseteq Pools
        BY <2>1, Zenon DEF IInv, TypeOK
      <3> QED BY <1>1, <2>4, <2>5, <3>1, <3>2, <3>3, Zenon DEF TypeOK, process
    <2>14. OrderOK'
      <3>1. \A q \in Periods : Calendar[q].first < Calendar[P].first => period[q] = "closed"
        BY <1>1, Zenon DEF IInv, CloseOrderOK, P
      <3> QED BY <2>3, <2>7, <3>1, Zenon DEF IInv, OrderOK
    <2>15. RowsOK'
      <3>1. ASSUME NEW p \in Pools PROVE RowRight(p, row'[p])
        BY <1>1, <2>6, Zenon DEF IInv, SweptOK, RowsOK
      <3>2. ASSUME NEW p \in Strict, NEW i \in row'[p].folded, lines[i].out
            PROVE  i \in DOMAIN cost' /\ cost'[i] = Basis(i, row'[p].folded)
        <4>1. CASE p \in closer.swept
          <5>1. row'[p] = closer.rows[p]
            BY <2>3, <2>6, <4>1, Zenon
          <5> QED BY <1>1, <2>1, <3>2, <4>1, <5>1, ZenonT(60)
                     DEF IInv, SweptOK, LayersCosted
        <4>2. CASE p \notin closer.swept
          <5>1. row'[p] = row[p] /\ p \in Pools
            BY <2>3, <2>6, <4>2, Zenon
          <5>2. i \in DOMAIN cost /\ cost[i] = Basis(i, row[p].folded)
            BY <3>2, <5>1, Zenon DEF IInv, RowsOK, LayersCosted
          <5>3. lines[i].pool = p
            BY <3>2, <5>1, Zenon DEF IInv, RowsOK, RowRight, LinesOf
          <5>4. i \notin DOMAIN closer.cost
            BY <2>12, <4>2, <5>3, Zenon
          <5> QED BY <2>5, <5>1, <5>2, <5>4, Zenon
        <4> QED BY <4>1, <4>2, Zenon
      <3>3. ASSUME NEW i \in DOMAIN cost'
            PROVE  /\ i \in Ids /\ lines[i].pool \in Strict
                   /\ i \in row'[lines[i].pool].folded
        <4>1. CASE i \in DOMAIN closer.cost
          BY <2>3, <2>6, <2>12, <4>1, Zenon
        <4>2. CASE i \in DOMAIN cost
          <5>1. i \in Ids /\ lines[i].pool \in Strict /\ i \in row[lines[i].pool].folded
            BY <4>2, Zenon DEF IInv, RowsOK
          <5>2. row[lines[i].pool].folded \subseteq row'[lines[i].pool].folded
            BY <1>1, <2>3, <2>6, <5>1, Zenon DEF IInv, SweptOK
          <5> QED BY <5>1, <5>2, Zenon
        <4> QED BY <2>5, <4>1, <4>2, Zenon
      <3> QED BY <1>1, <2>8, <2>9, <2>10, <3>1, <3>2, <3>3, ZenonT(60)
              DEF RowsOK, RowRight, LayersCosted
    <2>16. SubsOK'
      BY <1>1, Zenon DEF IInv, SubsOK, CloseOrderOK
    <2>17. \A w \in Workers : worker[w].pc # "idle" =>
             /\ worker[w].pool \notin closer.swept
             /\ row'[worker[w].pool] = row[worker[w].pool]
      <3> TAKE w \in Workers
      <3> HAVE worker[w].pc # "idle"
      <3>1. worker[w].pool \in Pools
        BY PassFacts, Zenon
      <3>2. worker[w].pool \notin closer.claimed
        BY <1>1, Zenon DEF IInv, ClaimsOK
      <3> QED BY <2>3, <2>6, <3>1, <3>2, Zenon
    <2>18. \A p, r : Scan(p, r)' = Scan(p, r)
      BY <2>8, <2>9, ZenonT(60) DEF Scan, ScanFrom, FullReplay
    <2>19. WorkersOK'
      BY <1>1, <2>1, <2>3, <2>17, <2>18 DEF IInv, WorkersOK, Folded, FullReplay
    <2>20. ASSUME NEW w \in Workers, worker[w].pc # "idle", NEW i \in worker[w].scan
           PROVE  ~Frozen(i)'
      <3>1. i \in Ids /\ lines[i].pool = worker[w].pool /\ worker[w].pool \in Strict
        BY <2>20, PassFacts, Zenon DEF LinesOf
      <3> QED BY <2>2, <2>17, <2>20, <3>1, Zenon
    <2>21. DetectedOK'
      <3> SUFFICES ASSUME NEW w \in Workers,
                          worker[w].pc \in {"write", "reconcile", "commit"}
                   PROVE  /\ \A i \in worker[w].pending : ~Frozen(i)'
                          /\ ~Diverges(Pending(Costings(worker[w].row, worker[w].scan), cost))'
        BY <1>1, Zenon DEF DetectedOK
      <3>1. worker[w].pc # "idle"
        BY Zenon
      <3>2. worker[w].pending \subseteq worker[w].scan
        BY <3>1, Zenon DEF IInv, WorkersOK
      <3>3. \A i \in DOMAIN Costings(worker[w].row, worker[w].scan)' : ~Frozen(i)'
        BY <1>1, <2>20, <3>1, Zenon DEF Costings
      <3>4. ~Diverges(Pending(Costings(worker[w].row, worker[w].scan), cost))'
        BY <3>3, Zenon DEF Diverges, Pending
      <3> QED BY <2>20, <3>1, <3>2, <3>4, Zenon
    <2>22. ClaimsOK' /\ CloseOrderOK' /\ SweptOK'
      BY <1>1, <2>11, ZenonT(60) DEF IInv, ClaimsOK, CloseOrderOK, SweptOK
    <2>23. AccountOK'
      <3>1. Broken' = Broken
        BY <1>1, Zenon DEF Broken, process
      <3>2. ASSUME ~Broken, NEW p \in Strict, NEW i \in LinesOf(p)
            PROVE  \/ i > delivered
                   \/ i \in row'[p].folded
                   \/ p \in queued' /\ (row'[p].floor # Never \/ Before(row'[p].frontier, Pos(i)))
        <4>1. CASE p \in closer.swept
          BY <1>1, <2>3, <2>6, <3>2, <4>1, Zenon DEF IInv, AccountOK
        <4>2. CASE p \notin closer.swept
          <5>1. row'[p] = row[p] /\ (p \in queued => p \in queued')
            BY <2>1, <2>3, <2>6, <4>2, Zenon
          <5> QED BY <3>2, <5>1, Zenon DEF IInv, AccountOK, Accounted
        <4> QED BY <4>1, <4>2, Zenon
      <3> QED BY <1>1, <2>8, <2>9, <2>11, <3>1, <3>2, Zenon DEF IInv, AccountOK,
                 Accounted, process
    <2>24. MisbookedOK'
      <3>1. ASSUME NEW i \in misbooked'
            PROVE  /\ i \in Ids /\ lines[i].pool \in Strict
                   /\ losses = 0 => ~Frozen(i)'
        <4>1. CASE i \in closer.residue
          <5>1. i \in Ids /\ lines[i].pool \in Strict /\ (losses = 0 => i > closer.lsn)
            BY <1>1, <4>1, Zenon DEF IInv, SweptOK
          <5>2. i \in Nat
            BY <2>4, <5>1, LineFacts, Zenon
          <5> QED BY <2>2, <2>3, <5>1, <5>2
        <4>2. CASE i \in misbooked /\ lines[i].pool \notin closer.swept
          BY <2>2, <4>2, Zenon DEF IInv, MisbookedOK
        <4> QED BY <2>1, <3>1, <4>1, <4>2, Zenon
      <3> QED BY <1>1, <2>9, <3>1, Zenon DEF MisbookedOK, PeriodNotMisbooked, process
    <2>25. FrozenRight'
      <3>1. ASSUME losses = 0, NEW i \in Ids, lines[i].out, lines[i].pool \in Strict, Frozen(i)'
            PROVE  i \in DOMAIN cost' /\ cost'[i] = Basis(i, LinesOf(lines[i].pool))
        <4> DEFINE q == lines[i].pool
                   R == closer.rows[q].folded
        <4>1. i \in Due(P) /\ q \in closer.swept /\ i \in R
          BY <2>2, <3>1, Zenon
        <4>2. i \in DOMAIN cost' /\ cost'[i] = Basis(i, R)
          BY <1>1, <2>1, <3>1, <4>1, Zenon DEF IInv, SweptOK, LayersCosted
        <4>3. R \subseteq LinesOf(q)
          BY <1>1, <4>1, Zenon DEF IInv, SweptOK, RowRight
        <4>4. ASSUME NEW j \in LinesOf(q), Before(Pos(j), Pos(i)) PROVE j \in R
          <5>1. j \in Ids /\ lines[j].pool = q
            BY <4>4, Zenon DEF LinesOf
          <5>2. /\ lines[j].at \in Nat /\ lines[i].at \in Nat
                /\ Calendar[P].last \in Nat
            BY <2>3, <2>4, <3>1, <5>1, LineFacts, CloseAssumption, Zenon DEF LineType
          <5>3. lines[j].at <= lines[i].at
            BY <4>4, <5>2 DEF Before, Pos
          <5>4. lines[i].at <= Calendar[P].last
            BY <4>1, Zenon DEF Due, EndOf
          <5>5. lines[j].at <= Calendar[P].last
            BY <5>2, <5>3, <5>4
          <5>6. j \in Due(P)
            BY <3>1, <5>1, <5>5, Zenon DEF Due, EndOf
          <5> QED BY <2>2, <3>1, <5>1, <5>6, Zenon
        <4>5. Basis(i, R) = Basis(i, LinesOf(q))
          BY <4>3, <4>4, Zenon DEF Basis
        <4> QED BY <4>2, <4>5, Zenon
      <3> QED BY <1>1, <2>8, <2>9, <2>10, <3>1, Zenon
              DEF FrozenRight, StrictOuts, RightlyCosted, process
    <2>26. HaltedContradicts'
      <3> SUFFICES ASSUME NEW p \in halted
                   PROVE  \E i \in StrictOuts' :
                            lines'[i].pool = p /\ Frozen(i)' /\ ~RightlyCosted(i)'
        BY <1>1, Zenon DEF HaltedContradicts
      <3>1. PICK i \in StrictOuts : lines[i].pool = p /\ Frozen(i) /\ ~RightlyCosted(i)
        BY Zenon DEF IInv, HaltedContradicts
      <3>2. p \notin closer.swept
        BY <1>1, <2>3, Zenon DEF IInv, ClaimsOK
      <3>3. i \notin DOMAIN closer.cost
        BY <2>12, <3>1, <3>2, Zenon
      <3>4. ~RightlyCosted(i)'
        BY <1>1, <2>5, <2>8, <2>10, <3>1, <3>3, Zenon DEF RightlyCosted
      <3>5. i \in StrictOuts' /\ lines'[i].pool = p
        BY <1>1, <2>9, <3>1, Zenon DEF StrictOuts
      <3> QED BY <2>2, <3>1, <3>4, <3>5, Zenon
    <2> QED BY <2>13, <2>14, <2>15, <2>16, <2>19, <2>21, <2>22, <2>23, <2>24, <2>25,
               <2>26, ZenonT(60)
            DEF IInv
  <1> QED BY <1>2, <1>3, Zenon

--------------------------------------------------------------------------------
(* Finite sets.                                                            *)

\* A finite non-empty set that R orders totally has a first element.
LEMMA FirstOf ==
    ASSUME NEW S, IsFiniteSet(S), S # {}, NEW R,
           \A x, y \in S : x # y => <<x, y>> \in R \/ <<y, x>> \in R,
           \A x, y, z \in S : <<x, y>> \in R /\ <<y, z>> \in R => <<x, z>> \in R
    PROVE  \E x \in S : \A y \in S : x = y \/ <<x, y>> \in R
  <1> DEFINE Leads(x, T) == \A y \in T : x = y \/ <<x, y>> \in R
             Bad == {T \in SUBSET S : T # {} /\ ~ \E x \in T : Leads(x, T)}
  <1>1. SUFFICES ASSUME Bad # {} PROVE FALSE
    BY <1>1, Zenon
  <1>2. IsWellFoundedOn(StrictSubsetOrdering(S), SUBSET S)
    BY FS_StrictSubsetOrderingWellFounded, FS_FiniteSubsetsOfFinite, Zenon
  <1>3. PICK T \in Bad : \A U \in Bad : ~(<<U, T>> \in StrictSubsetOrdering(S))
    <2> HIDE DEF Leads
    <2>1. Bad \subseteq SUBSET S
      BY Zenon
    <2> HIDE DEF Bad
    <2> QED BY <1>1, <1>2, <2>1, WFMin, ZenonT(60)
  <1>4. PICK x \in T : TRUE
    BY <1>3, Zenon
  <1> DEFINE U == T \ {x}
  <1>5. U # {}
    BY <1>3, <1>4, ZenonT(60)
  <1>6. U \notin Bad
    <2>1. U \in SUBSET S /\ T \in SUBSET S /\ U \subseteq T /\ U # T
      BY <1>3, <1>4, Zenon
    <2> HIDE DEF U, Bad
    <2>2. <<U, T>> \in StrictSubsetOrdering(S)
      BY <2>1, Zenon DEF StrictSubsetOrdering
    <2> QED BY <1>3, <2>2, Zenon
  <1>7. PICK y \in U : Leads(y, U)
    BY <1>3, <1>5, <1>6, ZenonT(60)
  <1>8. x \in S /\ y \in S /\ x # y /\ T \subseteq S
    BY <1>3, <1>4, <1>7, ZenonT(60)
  <1>9. CASE <<x, y>> \in R
    <2>1. Leads(x, T)
      BY <1>7, <1>8, <1>9, Zenon
    <2> QED BY <1>3, <1>4, <2>1, Zenon
  <1>10. CASE <<y, x>> \in R
    <2>1. Leads(y, T)
      BY <1>7, <1>8, <1>10, ZenonT(60)
    <2> QED BY <1>3, <1>7, <2>1, ZenonT(60)
  <1> QED BY <1>8, <1>9, <1>10, ZenonT(60)

\* So the steps may use what they ask of finite sets.
LEMMA Finite == FiniteFacts
  <1>1. \A n \in Nat : IsFiniteSet(1..n)
    BY FS_Interval
  <1>2. \A T : IsFiniteSet(T) =>
          /\ Cardinality(T) \in Nat
          /\ \A S \in SUBSET T : /\ IsFiniteSet(S)
                                 /\ Cardinality(S) <= Cardinality(T)
                                 /\ Cardinality(S) = Cardinality(T) => S = T
    BY FS_CardinalityType, FS_Subset, Zenon
  <1>3. \A S, R :
          /\ IsFiniteSet(S) /\ S # {}
          /\ \A x, y \in S : x # y => <<x, y>> \in R \/ <<y, x>> \in R
          /\ \A x, y, z \in S : <<x, y>> \in R /\ <<y, z>> \in R => <<x, z>> \in R
          => \E x \in S : \A y \in S : x = y \/ <<x, y>> \in R
    <2> TAKE S, R
    <2>1. HAVE /\ IsFiniteSet(S) /\ S # {}
               /\ \A x, y \in S : x # y => <<x, y>> \in R \/ <<y, x>> \in R
               /\ \A x, y, z \in S : <<x, y>> \in R /\ <<y, z>> \in R => <<x, z>> \in R
    <2> QED BY <2>1, FirstOf, ZenonT(60)
  <1> QED BY <1>1, <1>2, <1>3, ZenonT(60) DEF FiniteFacts

--------------------------------------------------------------------------------
(* The deadlock detector, and every step.                                  *)

\* A deadlock's victim aborts: its locks and its unpublished rows go.
LEMMA BreakDeadlockKeeps ==
    ASSUME IInv, NEW x \in Parties, BreakDeadlock(x)
    PROVE  IInv'
  <1>1. /\ sub' = IF x \in Submitters THEN [sub EXCEPT ![x] = Idle] ELSE sub
        /\ worker' = IF x \in Workers THEN [worker EXCEPT ![x] = Idle] ELSE worker
        /\ closer' = IF x = Closer THEN Idle ELSE closer
        /\ feed' = IF x = Consumer THEN "down" ELSE feed
        /\ unseeded' = (unseeded \/ x = Consumer)
        /\ UNCHANGED <<ledger, engine, slot, delivered, losses, crashes, misbooked>>
    BY Zenon DEF BreakDeadlock
  <1>2. unseeded \in BOOLEAN
    BY Zenon DEF IInv, TypeOK
  <1>3. x # Consumer => UNCHANGED process
    BY <1>1, <1>2, Zenon DEF process
  <1>4. CASE x \in Submitters
    <2>1. x \notin Workers /\ x # Closer /\ x # Consumer
      BY <1>4, CloseAssumption, ZenonT(60)
    <2>2. UNCHANGED <<ledger, engine, process, worker, closer, misbooked>>
      BY <1>1, <1>3, <2>1, ZenonT(60)
    <2>3. sub \in [Submitters -> SubType \cup {Idle}]
      BY Zenon DEF IInv, TypeOK
    <2>4. \A s \in Submitters : sub'[s] = IF s = x THEN Idle ELSE sub[s]
      BY <1>1, <1>4, <2>3, ZenonT(60)
    <2>5. sub' \in [Submitters -> SubType \cup {Idle}]
      BY <1>1, <1>4, <2>3, ZenonT(60)
    <2>6. \A s \in Submitters : sub'[s].pc # "idle" => sub'[s] = sub[s]
      BY <2>4 DEF Idle
    <2>7. SubsOK'
      BY <2>2, <2>6, ZenonT(60) DEF IInv, SubsOK, ClosedThrough, ledger
    <2>8. CloseOrderOK'
      <3>1. Due(closer.period)' = Due(closer.period)
        BY <2>2, Zenon DEF Due, Ids, ledger
      <3> QED BY <2>2, <2>6, <3>1, ZenonT(60) DEF IInv, CloseOrderOK, ledger, process
    <2> QED BY <2>2, <2>5, <2>7, <2>8, SubStep, ZenonT(60)
  <1>5. CASE x \in Workers
    <2>1. x \notin Submitters /\ x # Closer /\ x # Consumer
      BY <1>5, CloseAssumption, ZenonT(60)
    <2>2. UNCHANGED <<ledger, engine, process, sub, closer, misbooked>>
      BY <1>1, <1>3, <2>1, ZenonT(60)
    <2>3. UNCHANGED <<lines, period, cost, row, queued, halted, closer>>
      BY <2>2, Zenon DEF ledger, engine
    <2>4. worker' = [worker EXCEPT ![x] = Idle]
      BY <1>1, <1>5, ZenonT(60)
    <2>5. /\ worker' \in [Workers -> WorkerType \cup {Idle}]
          /\ WorkersOK' /\ DetectedOK' /\ ClaimsOK'
      BY <1>5, <2>3, <2>4, WorkerMoved, ZenonT(60)
    <2> QED BY <2>2, <2>5, WorkerStep, ZenonT(60)
  <1>6. CASE x = Closer
    <2>1. x \notin Submitters /\ x \notin Workers /\ x # Consumer
      BY <1>6, CloseAssumption, ZenonT(60)
    <2>2. UNCHANGED <<lines, engine, process, sub, worker, misbooked>> /\ UNCHANGED period
      BY <1>1, <1>3, <2>1, ZenonT(60) DEF ledger
    <2>3. period' \in [Periods -> {"open", "closing", "closed"}]
      BY <2>2, ZenonT(60) DEF IInv, TypeOK
    <2> QED BY <1>1, <1>6, <2>2, <2>3, CloserGone, ZenonT(60)
  <1>7. CASE x = Consumer
    <2>1. x \notin Submitters /\ x \notin Workers /\ x # Closer
      BY <1>7, CloseAssumption, ZenonT(60)
    <2>2. /\ UNCHANGED <<ledger, row, cost, queued, halted, slot, delivered, losses, sub,
                         worker, closer, misbooked>>
          /\ feed' = "down" /\ unseeded' = TRUE
      BY <1>1, <1>7, <2>1, ZenonT(60) DEF engine
    <2>3. feed \in {"fresh", "seeding"}
      <3>1. PICK y \in Parties : Waits(x, y)
        BY Zenon DEF BreakDeadlock, Deadlocked
      <3> QED BY <2>1, <3>1, ZenonT(60) DEF Waits
    <2>4. Broken' /\ losses' # 0
      BY <2>2, <2>3, ZenonT(60) DEF IInv, AccountOK, Broken
    <2>5. AccountOK'
      BY <2>4, ZenonT(60) DEF AccountOK
    <2>6. delivered <= delivered' /\ delivered' \in 0..Len(lines)
      BY <2>2, LineFacts DEF IInv, TypeOK
    <2>7. /\ row' \in [Pools -> RowType] /\ queued' \subseteq Pools
          /\ slot' \in BOOLEAN /\ unseeded' \in BOOLEAN
          /\ feed' \in {"loop", "down", "fresh", "seeding"}
      BY <2>2, ZenonT(60) DEF IInv, TypeOK
    <2> QED BY <2>2, <2>5, <2>6, <2>7, FloorStep, ZenonT(60)
  <1> QED BY <1>4, <1>5, <1>6, <1>7, Zenon DEF Parties

\* The invariant reads the variables alone.
LEMMA Stutters == IInv /\ UNCHANGED vars => IInv'
  <1> SUFFICES ASSUME IInv, UNCHANGED vars PROVE IInv'
    BY Zenon
  <1>1. UNCHANGED <<ledger, engine, process, worker, closer, misbooked>> /\ sub' = sub
    BY Zenon DEF vars
  <1>2. SubsOK' /\ CloseOrderOK'
    BY <1>1, FrameSubs, FrameClose, ZenonT(60) DEF IInv, ledger, process
  <1>3. sub' \in [Submitters -> SubType \cup {Idle}]
    BY <1>1, ZenonT(60) DEF IInv, TypeOK
  <1> QED BY <1>1, <1>2, <1>3, SubStep, ZenonT(60)

\* Every step keeps the invariant.
LEMMA StepIInv == IInv /\ [Next]_vars => IInv'
  <1> SUFFICES ASSUME IInv, [Next]_vars PROVE IInv'
    BY Zenon
  <1>1. CASE \E s \in Submitters, at \in Dates, S \in (SUBSET Pools) \ {{}} :
               \E outs \in SUBSET S : Submit(s, at, S, outs)
    BY <1>1, SubmitKeeps, ZenonT(60)
  <1>2. CASE \E s \in Submitters : SubmitNext(s)
    BY <1>2, Finite, SubmitAggregateKeeps, SubmitGuardKeeps, SubmitCommitKeeps, ZenonT(60)
       DEF SubmitNext
  <1>3. CASE \E w \in Workers : WorkNext(w)
    BY <1>3, Finite, WorkerClaimKeeps, WorkerDetectKeeps, WorkerWriteKeeps,
       WorkerReconcileKeeps,
       WorkerCommitKeeps, ZenonT(60) DEF WorkNext
  <1>4. CASE \E p \in Pools : WorkerSkip(p)
    BY <1>4, WorkerSkipKeeps, ZenonT(60)
  <1>5. CASE FeedNext
    BY <1>5, Finite, DeliverKeeps, ConsumerStartKeeps, ReseedBeginKeeps,
       ReseedApplyKeeps, ZenonT(60)
       DEF FeedNext
  <1>6. CASE SlotLost \/ ConsumerCrash
    BY <1>6, SlotLostKeeps, ConsumerCrashKeeps, ZenonT(60)
  <1>7. CASE \E p \in Periods, force \in ForceArgs : CloseBegin(p, force)
    BY <1>7, Finite, CloseBeginKeeps, ZenonT(60)
  <1>8. CASE CloseNext
    BY <1>8, Finite, CloseLsnKeeps, CloseGateKeeps, CloseArmsKeeps, SweepClaimKeeps,
       SweepLockKeeps,
       SweepDrainKeeps, CloseFenceKeeps, CloseRecheckKeeps, CloseStampKeeps, ZenonT(60) DEF CloseNext
  <1>9. CASE \E x \in Parties : BreakDeadlock(x)
    BY <1>9, BreakDeadlockKeeps, ZenonT(60)
  <1>10. CASE UNCHANGED vars
    BY <1>10, Stutters, Zenon
  <1> QED BY <1>1, <1>2, <1>3, <1>4, <1>5, <1>6, <1>7, <1>8, <1>9, <1>10, ZenonT(60)
             DEF Next

\* So it holds throughout.
LEMMA AlwaysIInv == Spec => []IInv
  BY InitIInv, StepIInv, PTL DEF Spec

--------------------------------------------------------------------------------
(* The theorems.                                                           *)

\* What ledger_close_period freezes is right as long as the feed's slot is
\* never lost: submissions, passes, deliveries and consumer crashes may fall
\* anywhere between its statements, and a forced close is no exception.
THEOREM CloseFreezesRight == Spec => []FrozenRight
  <1>1. IInv => FrozenRight
    BY ZenonT(60) DEF IInv
  <1> QED BY <1>1, AlwaysIInv, PTL

\* apply_residue leaves no line of a closed period in variance as long as the
\* slot is never lost.
THEOREM CloseBooksPeriod == Spec => []PeriodNotMisbooked
  <1>1. IInv => PeriodNotMisbooked
    BY ZenonT(60) DEF IInv, MisbookedOK
  <1> QED BY <1>1, AlwaysIInv, PTL

\* A pass whose detect_closed_period_divergence found nothing is never turned
\* away by period_guard_cost_settlement, lost slots or not: no close can stamp
\* a line of a pool that a worker holds.
THEOREM DetectorSuffices == Spec => []GuardSilent
  <1>1. IInv => GuardSilent
    BY ZenonT(60) DEF IInv, DetectedOK, GuardSilent, Rejected
  <1> QED BY <1>1, AlwaysIInv, PTL

\* record_escalation is never a false alarm, and what it reports stays true
\* while the pool is halted.
THEOREM HaltsForCause == Spec => []HaltedContradicts
  <1>1. IInv => HaltedContradicts
    BY Zenon DEF IInv
  <1> QED BY <1>1, AlwaysIInv, PTL

\* Outside its startup the consumer has a slot.
SlotOK == feed # "down" => slot

\* ensure_slot and the reseed lose no line that the new slot skips, whatever
\* is submitted, costed or closed meanwhile.
THEOREM ReseedCovers == Spec => []NothingSkipped
  <1>1. Init => SlotOK
    BY Zenon DEF Init, SlotOK
  <1>2. SlotOK /\ [Next]_vars => SlotOK'
    BY ZenonT(60) DEF SlotOK, Next, vars, process, Submit, SubmitNext, SubmitAggregate,
       SubmitGuard,
       SubmitCommit, WorkNext, WorkerClaim, WorkerDetect, WorkerWrite, WorkerReconcile,
       WorkerCommit, WorkerSkip, FeedNext, Deliver, ConsumerStart, ReseedBegin,
       ReseedApply, SlotLost, ConsumerCrash, CloseBegin, CloseStep, CloseNext, CloseLsn,
       CloseGate, CloseArms, SweepClaim, SweepLock, SweepDrain, CloseFence, CloseRecheck,
       CloseStamp, BreakDeadlock
  <1>3. IInv /\ SlotOK => NothingSkipped
    BY Zenon DEF IInv, AccountOK, Broken, SlotOK, NothingSkipped
  <1> QED BY <1>1, <1>2, <1>3, AlwaysIInv, PTL DEF Spec

\* The step of ClosedStands.
Stands ==
    /\ \A i \in DOMAIN lines' \ DOMAIN lines : ~ClosedThrough(lines'[i].at)
    /\ \A i \in DOMAIN cost' : Frozen(i) => i \in DOMAIN cost /\ cost'[i] = cost[i]
    /\ \A p \in Periods : period[p] = "closed" => period'[p] = "closed"

\* The four steps that write lines, costs or period states.
LEMMA SubmitCommitStands ==
    ASSUME FiniteFacts, IInv, NEW s \in Submitters, SubmitCommit(s)
    PROVE  Stands
  <1>1. UNCHANGED <<period, cost>>
    BY Zenon DEF SubmitCommit, engine
  <1>2. lines \in Seq(LineType) /\ lines' \in Seq(LineType)
    BY Appended, ZenonT(60) DEF IInv, TypeOK
  <1>3. DOMAIN lines = Ids /\ DOMAIN lines' = Ids'
    BY <1>2 DEF Ids
  <1>4. \A i \in Ids' : i \notin Ids => lines'[i].at = sub[s].at
    BY Appended, Zenon
  <1>5. ~ClosedThrough(sub[s].at)
    BY Appended, Zenon
  <1> QED BY <1>1, <1>3, <1>4, <1>5, Zenon DEF Stands

\* A pass that commits leaves the costs of the closed periods.
LEMMA WorkerCommitStands ==
    ASSUME FiniteFacts, IInv, NEW w \in Workers, WorkerCommit(w)
    PROVE  Stands
  <1> DEFINE new == Costings(worker[w].row, worker[w].scan)
  <1>1. UNCHANGED <<period, lines>>
    BY Zenon DEF WorkerCommit, ledger
  <1>2. new \in CostMap /\ cost' = Over(new, cost) /\ ~Diverges(Pending(new, cost))
    BY CommitFacts, ZenonT(60)
  <1>3. cost \in CostMap
    BY Zenon DEF IInv, TypeOK
  <1> HIDE DEF new
  <1>4. \A i : Frozen(i) => /\ i \in DOMAIN Over(new, cost) <=> i \in DOMAIN cost
                            /\ i \in DOMAIN cost => Over(new, cost)[i] = cost[i]
    BY <1>2, <1>3, FrozenCosts, ZenonT(60)
  <1> QED BY <1>1, <1>2, <1>4, ZenonT(60) DEF Stands

\* Marking a period closing changes no cost and reopens no period.
LEMMA CloseArmsStands ==
    ASSUME IInv, CloseArms
    PROVE  Stands
  <1>1. closer.pc # "idle" /\ UNCHANGED <<lines, cost>>
    BY Zenon DEF CloseArms, engine
  <1>2. period \in [Periods -> {"open", "closing", "closed"}]
    BY Zenon DEF IInv, TypeOK
  <1>3. period[closer.period] # "closed"
    BY <1>1, ZenonT(60) DEF IInv, CloseOrderOK
  <1>4. \A p \in Periods : period[p] = "closed" => period'[p] = "closed"
    BY <1>2, <1>3, ZenonT(60) DEF CloseArms
  <1> QED BY <1>1, <1>4, Zenon DEF Stands

\* A stamp publishes the sweep's costs, none of a closed period.
LEMMA CloseStampStands ==
    ASSUME IInv, CloseStamp
    PROVE  Stands
  <1>1. closer.pc # "idle" /\ UNCHANGED lines
    BY Zenon DEF CloseStamp
  <1>2. period \in [Periods -> {"open", "closing", "closed"}] /\ cost \in CostMap
    BY Zenon DEF IInv, TypeOK
  <1>3. CASE ~CloseRecount
    BY <1>1, <1>3, ZenonT(60) DEF CloseStamp, Stands
  <1>4. CASE CloseRecount
    <2> DEFINE c == Over(closer.cost, cost)
    <2>1. period' = [period EXCEPT ![closer.period] = "closed"] /\ cost' = c
      BY <1>4, ZenonT(60) DEF CloseStamp
    <2>2. /\ DOMAIN c = DOMAIN closer.cost \cup DOMAIN cost
          /\ \A i \in DOMAIN closer.cost : c[i] = closer.cost[i]
          /\ \A i \in DOMAIN cost : i \notin DOMAIN closer.cost => c[i] = cost[i]
      BY <1>1, <1>2, CloserFacts, OverFacts, ZenonT(60)
    <2> HIDE DEF c
    <2>3. \A i \in DOMAIN closer.cost :
            Frozen(i) => i \in DOMAIN cost /\ cost[i] = closer.cost[i]
      BY <1>1, ZenonT(60) DEF IInv, SweptOK
    <2> QED BY <1>1, <1>2, <2>1, <2>2, <2>3, ZenonT(60) DEF Stands
  <1> QED BY <1>3, <1>4, ZenonT(60)

\* Closed history stands still under every step: period_guard_trx_line admits
\* no line there, no pass and no later close moves a cost there, and
\* mark_closing never takes a closed period back.
THEOREM ClosedHistoryStands == Spec => ClosedStands
  <1>1. ASSUME IInv, Next PROVE Stands
    <2>1. CASE UNCHANGED <<lines, cost, period>>
      BY <2>1, ZenonT(60) DEF Stands
    <2>2. \/ UNCHANGED <<lines, cost, period>>
          \/ \E s \in Submitters : SubmitCommit(s)
          \/ \E w \in Workers : WorkerCommit(w)
          \/ CloseArms \/ CloseStamp
      BY <1>1, ZenonT(60) DEF Next, ledger, engine, Submit, SubmitNext, SubmitAggregate,
         SubmitGuard,
         WorkNext, WorkerClaim, WorkerDetect, WorkerWrite, WorkerReconcile, WorkerSkip,
         FeedNext, Deliver, ConsumerStart, ReseedBegin, ReseedApply, SlotLost,
         ConsumerCrash, CloseBegin, CloseStep, CloseNext, CloseLsn, CloseGate, SweepClaim,
         SweepLock, SweepDrain, CloseFence, CloseRecheck, BreakDeadlock
    <2> QED BY <1>1, <2>1, <2>2, Finite, SubmitCommitStands, WorkerCommitStands,
               CloseArmsStands,
               CloseStampStands, ZenonT(60)
  <1>2. IInv /\ [Next]_vars => [Stands]_vars
    BY <1>1, Zenon
  <1> QED BY <1>2, AlwaysIInv, PTL DEF Spec, ClosedStands, Stands

================================================================================
