------------------------- MODULE RecalcRecoveryProofs -------------------------
(***************************************************************************)
(* Proofs that the costing pipeline loses no event outside the window that *)
(* `raced' names, that settlement only moves forward and that a drain ends *)
(* at the stream head: for any pools, ranks and numbers of connections and *)
(* any number of crashes.                                                  *)
(***************************************************************************)
EXTENDS RecalcFeedProofs

\* An event the given row and costs account for: it is in the costs, or above
\* the frontier where the next pass scans, or a floor forces its replay.
Covered(p, row, fold, e) ==
    \/ e \in fold \cup raced[p]
    \/ e > row.frontier
    \/ row.floor # 0 /\ row.floor <= e

\* Accounted for by what is committed.
Kept(p, e) == Covered(p, settlement[p], folded[p], e)

\* The WAL carries committed events only.
WalOK ==
    \A i \in 1..Len(wal) : wal[i].pos # 0 => wal[i].pos \in committed[wal[i].pool]

\* The costs reflect committed events, the frontier's own event among them.
FoldOK ==
    \A p \in StrictPools :
        /\ folded[p] \subseteq committed[p]
        /\ settlement[p].frontier # 0 => settlement[p].frontier \in folded[p]

\* What an open pass may commit.  It never drops a costed event nor moves
\* the row back; and whatever the committed row accounts for, its own row
\* does, but for the events it has still to look at between settle and
\* decide_queue's first statement.
PassSound(w, me) ==
    LET p == me.pool
    IN  /\ folded[p] \subseteq me.fold /\ me.fold \subseteq committed[p]
        /\ me.scan \subseteq me.fold
        /\ me.own => /\ me.row.frontier \in me.fold
                     /\ me.row.gen >= settlement[p].gen
                     /\ me.row.frontier >= settlement[p].frontier
        /\ me.own /\ me.pc \notin Decision => me.reset
        /\ me.pc = "scanned" /\ me.scan # {} =>
             \E e \in me.scan : e >= me.claim.frontier
        /\ me.own /\ me.pc = "settled" =>
             \A e \in Pos :
                (e \in committed[p] \/ ~me.reset) /\ Kept(p, e) =>
                    Covered(p, me.row, me.fold, e) \/ e > ScanFrom(me.claim)
        /\ me.own /\ me.pc # "settled" =>
             \A e \in committed[p] : Kept(p, e) => Covered(p, me.row, me.fold, e)
        /\ me.pc \in {"counted", "decided"} /\ me.tail = 0 =>
             \A e \in committed[p] : e > me.row.frontier => e \in raced[p]
        /\ me.pc = "decided" /\ w \notin Steppers => ~Keep(me)

PassesSound ==
    \A w \in Workers : worker[w].pc # "idle" /\ worker[w].pool \in StrictPools =>
        PassSound(w, worker[w])

\* Once the floor UPDATE has dealt with a pool, every event of its batch is
\* accounted for by the committed row or by the floor about to be; and every
\* strict pool of the batch is counted, which holds back its passes.
FeedSound ==
    /\ feed.pc \in {"floors", "bumps", "marks"} =>
         \A p \in StrictPools : \A e \in Positions(p) :
            \/ feed.pc = "floors" /\ p \in feed.todo
            \/ Kept(p, e)
            \/ feed.floors[p] # 0
    /\ \A p \in StrictPools : feed.floors[p] # 0 =>
         /\ \A e \in Positions(p) : feed.floors[p] <= e
         /\ settlement[p].floor = 0 \/ feed.floors[p] < settlement[p].floor
    /\ \A p \in StrictPools : Positions(p) # {} =>
         /\ feed.pc = "bumps" => p \in feed.todo \cup feed.bumped
         /\ feed.pc = "marks" => p \in feed.bumped

\* Every delivered event is accounted for, and its pool queued until it is in
\* the costs.
DeliveredOK ==
    \A p \in StrictPools : \A e \in Delivered(p) :
        /\ Kept(p, e)
        /\ e \in folded[p] \cup raced[p] \/ p \in queue

JInv == WalOK /\ FoldOK /\ PassesSound /\ FeedSound /\ DeliveredOK

-----------------------------------------------------------------------------
(* The initial states, and the steps of an engine connection.              *)

\* A fresh database has nothing to account for.
LEMMA InitJInv == Init => JInv
  <1> SUFFICES ASSUME Init PROVE JInv
    BY Zenon
  <1>1. \A w \in Workers : worker[w].pc = "idle"
    BY Zenon DEF Init, IdleWorker
  <1>2. WalOK /\ FoldOK
    BY PoolsAssumption DEF Init, WalOK, FoldOK, NoRow
  <1>3. feed.pc = "idle" /\ \A p \in Pools : feed.floors[p] = 0
    BY Zenon DEF Init, IdleFeed
  <1>4. FeedSound
    BY <1>3, PoolsAssumption, Zenon DEF FeedSound
  <1>5. \A p \in Pools : Delivered(p) = {}
    BY DEF Init, Delivered
  <1> QED BY <1>1, <1>2, <1>4, <1>5, PoolsAssumption, ZenonT(60)
          DEF JInv, PassesSound, DeliveredOK

\* A step that only moves one connection has that pass alone to account for.
LEMMA LocalSound ==
    ASSUME IInv, JInv, NEW w \in Workers, NEW me,
           worker' = [worker EXCEPT ![w] = me],
           UNCHANGED <<tables, slot, feed>>, raced' = raced,
           me.pc # "idle" /\ me.pool \in StrictPools => PassSound(w, me)
    PROVE  JInv'
  <1> USE DEF tables, slot
  <1>0. worker \in [Workers -> Worker]
    BY Zenon DEF IInv, TypeOK
  <1>1. WalOK' /\ FoldOK'
    BY Zenon DEF JInv, WalOK, FoldOK
  <1>2. PassesSound'
    <2> SUFFICES ASSUME NEW v \in Workers, worker'[v].pc # "idle",
                        worker'[v].pool \in StrictPools
                 PROVE  PassSound(v, worker[v])'
      BY Zenon DEF PassesSound
    <2>1. CASE v = w
      <3>1. worker'[v] = me
        BY <1>0, <2>1, Zenon
      <3> QED BY <2>1, <3>1, ZenonT(60) DEF PassSound, Kept, Covered
    <2>2. CASE v # w
      <3>1. worker'[v] = worker[v]
        BY <1>0, <2>2, Zenon
      <3>2. PassSound(v, worker[v])
        BY <3>1, Zenon DEF JInv, PassesSound
      <3> QED BY <3>1, <3>2, ZenonT(60) DEF PassSound, Kept, Covered
    <2> QED BY <2>1, <2>2, Zenon
  <1>3. FeedSound'
    BY DEF JInv, FeedSound, Positions, Physical, Batch, Kept, Covered
  <1>4. DeliveredOK'
    BY ZenonT(60) DEF JInv, DeliveredOK, Delivered, Kept, Covered
  <1> QED BY <1>1, <1>2, <1>3, <1>4, Zenon DEF JInv

\* What an open pass of a strict pool already satisfies.
LEMMA OpenSound ==
    ASSUME IInv, JInv, NEW w \in Workers, worker[w].pc # "idle",
           worker[w].pool \in StrictPools
    PROVE  /\ PassSound(w, worker[w])
           /\ settlement[worker[w].pool] \in Row
           /\ committed[worker[w].pool] \in SUBSET Pos
           /\ folded[worker[w].pool] \in SUBSET Pos
           /\ folded[worker[w].pool] \subseteq committed[worker[w].pool]
           /\ settlement[worker[w].pool].frontier # 0 =>
                settlement[worker[w].pool].frontier \in folded[worker[w].pool]
  BY PoolsAssumption, Zenon DEF JInv, PassesSound, FoldOK, IInv, TypeOK

\* A claim starts from what is committed.
LEMMA ClaimSound ==
    ASSUME IInv, JInv, NEW w \in Workers, NEW p \in Pools,
           ClaimNext(w, p) \/ ClaimPool(w, p)
    PROVE  JInv'
  <1>1. PICK ins \in BOOLEAN : Begin(w, p, ins)
    BY Zenon DEF ClaimNext, ClaimPool
  <1> DEFINE me == [IdleWorker(p) EXCEPT !.pc = "claimed",
                                         !.claim = settlement[p],
                                         !.row = settlement[p],
                                         !.fold = folded[p],
                                         !.agg = w \in Sweepers,
                                         !.inserted = ins]
  <1>2. /\ worker' = [worker EXCEPT ![w] = me]
        /\ UNCHANGED <<tables, slot, feed>> /\ raced' = raced
    BY <1>1, Zenon DEF ClaimNext, ClaimPool, Begin, history
  <1>5. /\ me.pc = "claimed" /\ me.pool = p /\ me.fold = folded[p]
        /\ me.scan = {} /\ me.own = FALSE
    BY Zenon DEF IdleWorker
  <1> HIDE DEF me
  <1>6. ASSUME p \in StrictPools PROVE PassSound(w, me)
    BY <1>5, <1>6, Zenon DEF PassSound, JInv, FoldOK, Decision
  <1> QED BY <1>2, <1>5, <1>6, LocalSound, Zenon

\* A replay from the start reads every committed event, a later one adds to
\* the checkpoint: either way the fold grows, within what is committed.
LEMMA RefoldGrows ==
    ASSUME NEW c \in Row, NEW f \in SUBSET Pos, NEW C \in SUBSET Pos, f \subseteq C,
           c.frontier # 0 => c.frontier \in f,
           NEW scan, \A e : e \in scan <=> e \in C /\ e > ScanFrom(c),
           NEW new, new = Refold(c, f, scan)
    PROVE  /\ f \subseteq new /\ new \subseteq C /\ scan \subseteq new
           /\ scan # {} => \E e \in scan : e >= c.frontier
  <1>1. c.frontier \in Nat /\ C \subseteq Nat /\ \A e \in C : e > 0
    BY BoundsAssumption DEF Row, Pos
  <1>2. CASE FullReplay(c)
    <2>1. scan = C
      BY <1>1, <1>2, Zenon DEF ScanFrom
    <2>2. scan # {} => new = C
      BY <1>2, <2>1, Zenon DEF Refold
    <2>3. scan = {} => new = f
      BY Zenon DEF Refold
    <2>4. c.frontier = 0 => \A e \in scan : e >= c.frontier
      BY <1>1, <2>1
    <2>5. c.frontier # 0 => c.frontier \in scan /\ c.frontier >= c.frontier
      BY <1>1, <2>1
    <2>6. scan # {} => \E e \in scan : e >= c.frontier
      BY <2>4, <2>5, Zenon
    <2> QED BY <2>1, <2>2, <2>3, <2>6, Zenon
  <1>3. CASE ~FullReplay(c)
    <2>1. \A e : e \in new <=> e \in f \/ e \in scan
      <3>1. CASE scan = {}
        BY <3>1, Zenon DEF Refold
      <3>2. CASE scan # {}
        BY <1>3, <3>2, Zenon DEF Refold
      <3> QED BY <3>1, <3>2, Zenon
    <2>2. ASSUME NEW e \in scan PROVE e >= c.frontier
      <3>1. e \in C /\ e > c.frontier
        BY <1>3, Zenon DEF ScanFrom
      <3> QED BY <1>1, <3>1
    <2> QED BY <2>1, <2>2, Zenon
  <1> QED BY <1>2, <1>3, Zenon

\* scan_events and the fold.
LEMMA ScanSound ==
    ASSUME IInv, JInv, NEW w \in Workers, Scan(w)
    PROVE  JInv'
  <1> DEFINE old == worker[w]
             p == old.pool
             scan == {e \in committed[p] : e > ScanFrom(old.claim)}
             new == Refold(old.claim, old.fold, scan)
  <1>1. old.pc = "claimed" /\ p \in StrictPools
    BY Zenon DEF Scan
  <1>2. PICK eff : worker' = [worker EXCEPT ![w] =
               [old EXCEPT !.pc = "scanned", !.scan = scan, !.effect = eff,
                           !.fold = new]]
    BY Zenon DEF Scan
  <1> DEFINE me == [old EXCEPT !.pc = "scanned", !.scan = scan, !.effect = eff,
                               !.fold = new]
  <1>3. UNCHANGED <<tables, slot, feed>> /\ raced' = raced
    BY Zenon DEF Scan, history
  <1>4. old \in Worker /\ PassOK(old, settlement[p])
    BY <1>1, OpenPass, Zenon
  <1>5. /\ PassSound(w, old) /\ committed[p] \in SUBSET Pos
        /\ settlement[p].frontier # 0 => settlement[p].frontier \in folded[p]
    BY <1>1, OpenSound, Zenon
  <1>6. /\ me.pc = "scanned" /\ me.pool = p /\ me.scan = scan /\ me.fold = new
        /\ me.own = old.own /\ me.row = old.row /\ me.claim = old.claim
        /\ me.reset = old.reset
    <2> HIDE DEF scan, new
    <2> QED BY <1>4, Zenon DEF Worker
  <1>7. old.claim \in Row /\ old.fold \in SUBSET Pos /\ old.own \in BOOLEAN
    BY <1>4, Zenon DEF Worker
  <1>8. folded[p] \subseteq old.fold /\ old.fold \subseteq committed[p]
    BY <1>5, Zenon DEF PassSound
  <1>9. old.claim.frontier # 0 => old.claim.frontier \in old.fold
    BY <1>1, <1>4, <1>5, <1>7, <1>8, ZenonT(60) DEF PassSound, PassOK, Decision
  <1>10. /\ old.fold \subseteq new /\ new \subseteq committed[p] /\ scan \subseteq new
         /\ scan # {} => \E e \in scan : e >= old.claim.frontier
    <2> DEFINE c == old.claim
               f == old.fold
               C == committed[p]
    <2>1. /\ c \in Row /\ f \in SUBSET Pos /\ C \in SUBSET Pos /\ f \subseteq C
          /\ c.frontier # 0 => c.frontier \in f
      BY <1>5, <1>7, <1>8, <1>9, ZenonT(60)
    <2>2. /\ \A e : e \in scan <=> e \in C /\ e > ScanFrom(c)
          /\ new = Refold(c, f, scan)
      BY Zenon
    <2> HIDE DEF c, f, C, scan, new
    <2>3. /\ f \subseteq new /\ new \subseteq C /\ scan \subseteq new
          /\ scan # {} => \E e \in scan : e >= c.frontier
      BY <2>1, <2>2, RefoldGrows
    <2> QED BY <2>3, Zenon DEF c, f, C
  <1>11. old.own => /\ old.row.frontier \in old.fold /\ old.reset
                    /\ old.row.gen >= settlement[p].gen
                    /\ old.row.frontier >= settlement[p].frontier
                    /\ \A e \in committed[p] :
                         Kept(p, e) => Covered(p, old.row, old.fold, e)
    BY <1>1, <1>5, Zenon DEF PassSound, Decision
  <1> HIDE DEF me, scan, new, p
  <1>12. PassSound(w, me)
    <2>1. old.own => \A e \in committed[p] :
                       Kept(p, e) => Covered(p, old.row, new, e)
      BY <1>10, <1>11, Zenon DEF Covered
    <2> QED BY <1>6, <1>8, <1>10, <1>11, <2>1, ZenonT(60) DEF PassSound
  <1> QED BY <1>2, <1>3, <1>12, LocalSound, ZenonT(60) DEF me

\* settle: the row it writes leaves to decide_queue's check what it no longer
\* accounts for itself.
LEMMA SettleSound ==
    ASSUME IInv, JInv, NEW w \in Workers, Settle(w)
    PROVE  JInv'
  <1> DEFINE old == worker[w]
             p == old.pool
  <1>1. old.pc = "scanned"
    BY Zenon DEF Settle
  <1>2. UNCHANGED <<tables, slot, feed>> /\ raced' = raced
    BY Zenon DEF Settle, history
  <1>3. PICK f \in Frontiers(old) :
          LET cur == IF old.own THEN old.row ELSE settlement[p]
              row == SettledRow(cur, old.claim, old.effect # "none", f)
          IN  IF f = 0
              THEN worker' = [worker EXCEPT ![w] =
                     [old EXCEPT !.pc = "settled", !.pending = FALSE]]
              ELSE /\ feed.floors[p] = 0
                   /\ worker' = [worker EXCEPT ![w] =
                        [old EXCEPT
                           !.pc = "settled", !.row = row, !.own = TRUE,
                           !.pending = row.floor # 0,
                           !.agg = @ \/ old.effect = "moved",
                           !.adjusted = @ \/ old.effect \in {"posted", "moved"}]]
    BY Zenon DEF Settle
  <1>4. /\ old \in Worker /\ PassOK(old, settlement[p]) /\ p \in StrictPools
        /\ old.claim \in Row /\ old.row \in Row /\ old.scan \in SUBSET Pos
        /\ old.own \in BOOLEAN /\ old.fold \in SUBSET Pos
    BY <1>1, OpenPass, Zenon DEF Worker, PassOK
  <1>5. /\ PassSound(w, old) /\ committed[p] \in SUBSET Pos
        /\ settlement[p] \in Row /\ folded[p] \in SUBSET Pos
        /\ settlement[p].frontier # 0 => settlement[p].frontier \in folded[p]
    BY <1>1, <1>4, OpenSound, Zenon
  <1>6. /\ folded[p] \subseteq old.fold /\ old.fold \subseteq committed[p]
        /\ old.scan \subseteq old.fold
        /\ old.scan # {} => \E e \in old.scan : e >= old.claim.frontier
    BY <1>1, <1>5, Zenon DEF PassSound
  <1>7. CASE f = 0
    <2> DEFINE me == [old EXCEPT !.pc = "settled", !.pending = FALSE]
    <2>1. worker' = [worker EXCEPT ![w] = me]
      BY <1>3, <1>7, ZenonT(60)
    <2>2. old.scan = {} /\ old.claim.frontier = 0
      BY <1>4, <1>7, SMTT(60) DEF Frontiers, Pos, Row
    <2>3. ~old.own
      BY <1>1, <1>4, <2>2, Zenon DEF PassOK, Decision
    <2>4. /\ me.pc = "settled" /\ me.pool = p /\ me.scan = old.scan
          /\ me.fold = old.fold /\ me.own = old.own
      BY <1>4, Zenon DEF Worker
    <2> HIDE DEF me, p
    <2>5. PassSound(w, me)
      BY <1>6, <2>3, <2>4, ZenonT(60) DEF PassSound
    <2> QED BY <1>2, <2>1, <2>5, LocalSound, Zenon
  <1>8. CASE f # 0
    <2> DEFINE cur == IF old.own THEN old.row ELSE settlement[p]
               row == SettledRow(cur, old.claim, old.effect # "none", f)
               me == [old EXCEPT
                        !.pc = "settled", !.row = row, !.own = TRUE,
                        !.pending = row.floor # 0,
                        !.agg = @ \/ old.effect = "moved",
                        !.adjusted = @ \/ old.effect \in {"posted", "moved"}]
    <2>1. worker' = [worker EXCEPT ![w] = me]
      BY <1>3, <1>8, Zenon
    <2>2. /\ me.pc = "settled" /\ me.pool = p /\ me.scan = old.scan
          /\ me.fold = old.fold /\ me.own /\ me.row = row
          /\ me.claim = old.claim /\ me.reset = old.reset
      <3> HIDE DEF row
      <3> QED BY <1>4, Zenon DEF Worker
    <2>3. cur \in Row /\ cur.frontier = old.claim.frontier
      BY <1>1, <1>4, <1>5, Zenon DEF PassOK, Decision
    <2>4. f \in Nat /\ f \in old.fold /\ f >= old.claim.frontier
      <3>1. CASE old.scan = {}
        <4>1. f = old.claim.frontier
          BY <3>1, Zenon DEF Frontiers
        <4>2. f \in Nat
          BY <1>4, <4>1, Zenon DEF Row
        <4>3. f \in old.fold
          BY <1>1, <1>4, <1>5, <1>6, <1>8, <4>1, ZenonT(60) DEF PassOK, PassSound,
             Decision
        <4> QED BY <4>1, <4>2, <4>3
      <3>2. CASE old.scan # {}
        <4>1. f \in old.scan /\ \A d \in old.scan : d <= f
          BY <3>2, Zenon DEF Frontiers
        <4>2. PICK d \in old.scan : d >= old.claim.frontier
          BY <1>6, <3>2, ZenonT(60)
        <4> QED BY <1>4, <1>6, <4>1, <4>2, BoundsAssumption DEF Row, Pos
      <3> QED BY <3>1, <3>2, Zenon
    <2>5. /\ row.frontier = f /\ row.gen >= cur.gen
          /\ row.floor = IF cur.floor = old.claim.floor THEN 0 ELSE cur.floor
      BY <1>4, <2>3 DEF SettledRow, Row
    <2>6. /\ row.frontier \in old.fold /\ row.gen >= settlement[p].gen
          /\ row.frontier >= settlement[p].frontier
      <3>1. cur.gen >= settlement[p].gen /\ cur.frontier >= settlement[p].frontier
        BY <1>5 DEF PassSound, Row
      <3>2. row \in Row
        BY <1>4, <2>3, <2>4 DEF SettledRow, Row
      <3> HIDE DEF cur, row
      <3> QED BY <1>5, <2>3, <2>4, <2>5, <3>1, <3>2 DEF Row
    <2>7. ASSUME NEW e \in Pos, e \in committed[p] \/ ~old.reset, Kept(p, e)
          PROVE  Covered(p, row, old.fold, e) \/ e > ScanFrom(old.claim)
      <3>1. Covered(p, cur, old.fold, e)
        <4>1. CASE old.own
          <5>1. old.reset
            BY <1>1, <1>5, <4>1, Zenon DEF PassSound, Decision
          <5> QED BY <1>1, <1>5, <2>7, <4>1, <5>1, ZenonT(60) DEF PassSound
        <4>2. CASE ~old.own
          BY <1>6, <2>7, <4>2, Zenon DEF Kept, Covered
        <4> QED BY <4>1, <4>2, Zenon
      <3>2. CASE e \in old.fold \cup raced[p]
        BY <3>2, ZenonT(60) DEF Covered
      <3>3. CASE e > cur.frontier
        BY <1>4, <2>3, <3>3, BoundsAssumption DEF ScanFrom, Row, Pos
      <3>4. CASE cur.floor # 0 /\ cur.floor <= e
        <4>1. CASE cur.floor = old.claim.floor
          BY <3>4, <4>1, BoundsAssumption DEF ScanFrom, FullReplay, Pos
        <4>2. CASE cur.floor # old.claim.floor
          <5>1. row.floor = cur.floor
            BY <2>5, <4>2, Zenon
          <5> QED BY <3>4, <5>1, Zenon DEF Covered
        <4> QED BY <4>1, <4>2, ZenonT(60)
      <3> QED BY <3>1, <3>2, <3>3, <3>4, ZenonT(60) DEF Covered
    <2> HIDE DEF me, row, cur, p
    <2>8. PassSound(w, me)
      BY <1>6, <2>2, <2>6, <2>7, Zenon DEF PassSound, Decision
    <2> QED BY <1>2, <2>1, <2>8, LocalSound, Zenon
  <1> QED BY <1>7, <1>8, Zenon

\* decide_queue's first statement: an event the check finds is floored, and
\* one it does not find is in the costs or above the frontier.
LEMMA CheckSound ==
    ASSUME IInv, JInv, NEW w \in Workers, CheckMissed(w)
    PROVE  JInv'
  <1> DEFINE old == worker[w]
             p == old.pool
  <1>1. old.pc = "settled"
    BY Zenon DEF CheckMissed
  <1>2. UNCHANGED <<tables, slot, feed>> /\ raced' = raced
    BY ZenonT(60) DEF CheckMissed, history
  <1>3. /\ old \in Worker /\ p \in StrictPools /\ old.row \in Row
        /\ old.own \in BOOLEAN
    BY <1>1, OpenPass, Zenon DEF Worker, PassOK
  <1>4. /\ PassSound(w, old) /\ committed[p] \in SUBSET Pos
    BY <1>1, <1>3, OpenSound, Zenon
  <1>5. /\ folded[p] \subseteq old.fold /\ old.fold \subseteq committed[p]
        /\ old.scan \subseteq old.fold
        /\ old.own => /\ old.row.frontier \in old.fold
                      /\ old.row.gen >= settlement[p].gen
                      /\ old.row.frontier >= settlement[p].frontier
    BY <1>4, Zenon DEF PassSound
  <1>6. ASSUME old.own, NEW e \in committed[p], Kept(p, e), e \notin Missed(old)
        PROVE  Covered(p, old.row, old.fold, e)
    <2>1. Covered(p, old.row, old.fold, e) \/ e > ScanFrom(old.claim)
      BY <1>1, <1>4, <1>6, ZenonT(60) DEF PassSound
    <2>2. CASE e > ScanFrom(old.claim)
      <3>1. ~(e <= old.row.frontier) \/ e \in old.scan
        BY <1>6, <2>2, ZenonT(60) DEF Missed
      <3>2. e \in Nat /\ old.row.frontier \in Nat
        BY <1>3, <1>4, BoundsAssumption DEF Row, Pos
      <3> QED BY <1>5, <3>1, <3>2 DEF Covered
    <2> QED BY <2>1, <2>2, Zenon
  <1>7. CASE Missed(old) = {} /\ worker' = [worker EXCEPT ![w].pc = "checked"]
    <2> DEFINE me == [old EXCEPT !.pc = "checked"]
    <2>1. worker' = [worker EXCEPT ![w] = me]
      BY <1>7, Zenon DEF IInv, TypeOK
    <2>2. /\ me.pc = "checked" /\ me.pool = p /\ me.scan = old.scan
          /\ me.fold = old.fold /\ me.own = old.own /\ me.row = old.row
      BY <1>3, Zenon DEF Worker
    <2> HIDE DEF me, p
    <2>3. PassSound(w, me)
      BY <1>5, <1>6, <1>7, <2>2, ZenonT(60) DEF PassSound, Decision
    <2> QED BY <1>2, <2>1, <2>3, LocalSound, ZenonT(60)
  <1>8. ASSUME NEW m \in Missed(old), \A e \in Missed(old) : m <= e,
               worker' = [worker EXCEPT ![w] =
                 [old EXCEPT !.pc = "checked", !.pending = TRUE,
                             !.row.floor = IF @ = 0 \/ m < @ THEN m ELSE @]]
        PROVE  JInv'
    <2> DEFINE fl == IF old.row.floor = 0 \/ m < old.row.floor THEN m
                     ELSE old.row.floor
               me == [old EXCEPT !.pc = "checked", !.pending = TRUE,
                                 !.row.floor = fl]
    <2>1. worker' = [worker EXCEPT ![w] = me]
      BY <1>8, Zenon
    <2>2. /\ me.pc = "checked" /\ me.pool = p /\ me.scan = old.scan
          /\ me.fold = old.fold /\ me.own = old.own
          /\ me.row.gen = old.row.gen /\ me.row.frontier = old.row.frontier
          /\ me.row.floor = fl
      BY <1>3, ZenonT(60) DEF Worker, Row
    <2>3. m \in Nat \ {0} /\ old.row.floor \in Nat
      BY <1>3, <1>4, BoundsAssumption DEF Missed, Pos, Row
    <2>4. fl # 0 /\ fl <= m /\ (old.row.floor # 0 => fl <= old.row.floor)
      BY <2>3
    <2>5. ASSUME old.own, NEW e \in committed[p], Kept(p, e)
          PROVE  Covered(p, me.row, me.fold, e)
      <3>1. e \in Nat /\ fl \in Nat
        BY <1>4, <2>3, BoundsAssumption DEF Pos
      <3> HIDE DEF me, fl, p
      <3>2. CASE e \in Missed(old)
        BY <1>8, <2>2, <2>3, <2>4, <3>1, <3>2 DEF Covered
      <3>3. CASE e \notin Missed(old)
        BY <1>6, <2>2, <2>3, <2>4, <2>5, <3>1, <3>3 DEF Covered
      <3> QED BY <3>2, <3>3, ZenonT(60)
    <2> HIDE DEF me, p
    <2>6. PassSound(w, me)
      BY <1>5, <2>2, <2>5, ZenonT(60) DEF PassSound, Decision
    <2> QED BY <1>2, <2>1, <2>6, LocalSound, ZenonT(60)
  <1> QED BY <1>7, <1>8, ZenonT(60) DEF CheckMissed

\* decide_queue's second statement: an empty tail means that no event lies
\* above the frontier; one that commits from now on is in the window.
LEMMA CountSound ==
    ASSUME IInv, JInv, NEW w \in Workers, CountTail(w)
    PROVE  JInv'
  <1> DEFINE old == worker[w]
             p == old.pool
             S == {e \in committed[p] : e > old.row.frontier}
             n == Cardinality(S)
             me == [old EXCEPT !.pc = "counted", !.tail = n]
  <1>1. old.pc = "checked" /\ worker' = [worker EXCEPT ![w] = me]
    BY Zenon DEF CountTail
  <1>2. UNCHANGED <<tables, slot, feed>> /\ raced' = raced
    BY Zenon DEF CountTail, history
  <1>3. old \in Worker /\ p \in StrictPools
    BY <1>1, OpenPass, Zenon DEF PassOK
  <1>4. PassSound(w, old) /\ committed[p] \in SUBSET Pos
    BY <1>1, <1>3, OpenSound, Zenon
  <1>5. n = 0 => S = {}
    <2>1. S \in SUBSET (1..MaxPos) /\ IsFiniteSet(1..MaxPos)
      BY <1>4, BoundsAssumption, FS_Interval DEF Pos
    <2>2. IsFiniteSet(S)
      BY <2>1, FS_Subset, Zenon
    <2> HIDE DEF S
    <2> QED BY <2>2, FS_EmptySet, ZenonT(60)
  <1>6. n = 0 => \A e \in committed[p] : ~(e > old.row.frontier)
    BY <1>5, Zenon
  <1> HIDE DEF n, S
  <1>7. /\ me.pc = "counted" /\ me.pool = p /\ me.scan = old.scan /\ me.tail = n
        /\ me.fold = old.fold /\ me.own = old.own /\ me.row = old.row
    BY <1>3, Zenon DEF Worker
  <1> HIDE DEF me, p
  <1>8. PassSound(w, me)
    BY <1>1, <1>4, <1>6, <1>7, Zenon DEF PassSound, Decision, p
  <1> QED BY <1>1, <1>2, <1>8, LocalSound, ZenonT(60)

\* decide_queue's writes: a drain that keeps its row goes on from its own
\* settlement row; otherwise there is nothing left to serve.
LEMMA DecideSound ==
    ASSUME IInv, JInv, NEW w \in Workers, DecideQueue(w)
    PROVE  JInv'
  <1> DEFINE old == worker[w]
             p == old.pool
             c == IF old.own THEN old.row ELSE settlement[p]
             again == [old EXCEPT !.pc = "claimed", !.reset = TRUE, !.claim = c]
             done == [old EXCEPT !.pc = "decided", !.reset = TRUE]
             me == IF w \notin Steppers /\ Keep(old) THEN again ELSE done
  <1>1. old.pc = "counted" /\ worker' = [worker EXCEPT ![w] = me]
    BY Zenon DEF DecideQueue
  <1>2. UNCHANGED <<tables, slot, feed>> /\ raced' = raced
    BY Zenon DEF DecideQueue, history
  <1>3. old \in Worker /\ p \in StrictPools
    BY <1>1, OpenPass, Zenon DEF PassOK
  <1>4. PassSound(w, old)
    BY <1>1, <1>3, OpenSound, Zenon
  <1> HIDE DEF c
  <1>5. /\ again.pc = "claimed" /\ again.pool = p /\ again.scan = old.scan
        /\ again.fold = old.fold /\ again.own = old.own /\ again.row = old.row
        /\ again.reset
    BY <1>3, Zenon DEF Worker
  <1>6. /\ done.pc = "decided" /\ done.pool = p /\ done.scan = old.scan
        /\ done.fold = old.fold /\ done.own = old.own /\ done.row = old.row
        /\ done.tail = old.tail /\ done.pending = old.pending
    BY <1>3, Zenon DEF Worker
  <1> HIDE DEF again, done
  <1>7. PassSound(w, again)
    BY <1>1, <1>4, <1>5, Zenon DEF PassSound, Decision
  <1>8. ASSUME w \in Steppers \/ ~Keep(old) PROVE PassSound(w, done)
    <2>1. w \notin Steppers => ~Keep(done)
      BY <1>6, <1>8, Zenon DEF Keep
    <2> QED BY <1>1, <1>4, <1>6, <2>1, ZenonT(60) DEF PassSound, Decision
  <1>9. PassSound(w, me)
    BY <1>7, <1>8, Zenon
  <1> HIDE DEF me
  <1> QED BY <1>1, <1>2, <1>9, LocalSound, ZenonT(60)

\* Dropping the mark of a pool of another method.
LEMMA DropSound ==
    ASSUME IInv, JInv, NEW w \in Workers, DropQueueRow(w)
    PROVE  JInv'
  <1> DEFINE me == [worker[w] EXCEPT !.pc = "decided", !.reset = TRUE]
  <1>1. /\ worker[w].pc = "claimed" /\ worker[w].pool \notin StrictPools
        /\ worker' = [worker EXCEPT ![w] = me]
        /\ UNCHANGED <<tables, slot, feed>> /\ raced' = raced
    BY Zenon DEF DropQueueRow, history, IInv, TypeOK
  <1>2. me.pool = worker[w].pool
    BY <1>1, OpenPass, Zenon DEF Worker
  <1> HIDE DEF me
  <1> QED BY <1>1, <1>2, LocalSound, ZenonT(60)

\* A pass that rolls back leaves nothing to account for.
LEMMA AbortSound ==
    ASSUME IInv, JInv, NEW w \in Workers, NEW p \in Pools,
           worker' = [worker EXCEPT ![w] = IdleWorker(p)],
           UNCHANGED <<tables, slot, feed>>, raced' = raced
    PROVE  JInv'
  <1>1. IdleWorker(p).pc = "idle"
    BY Zenon DEF IdleWorker
  <1> QED BY <1>1, LocalSound, Zenon

-----------------------------------------------------------------------------
(* The feed consumer.                                                      *)

\* A step of the feed alone has its own transaction to account for.
LEMMA FeedSoundLocal ==
    ASSUME IInv, JInv, UNCHANGED <<tables, applied, worker, raced>>, FeedSound'
    PROVE  JInv'
  <1> USE DEF tables
  <1>1. WalOK' /\ FoldOK'
    BY Zenon DEF JInv, WalOK, FoldOK
  <1>2. PassesSound'
    <2> SUFFICES ASSUME NEW v \in Workers, worker[v].pc # "idle",
                        worker[v].pool \in StrictPools
                 PROVE  PassSound(v, worker[v])'
      BY Zenon DEF PassesSound
    <2>1. PassSound(v, worker[v])
      BY Zenon DEF JInv, PassesSound
    <2> QED BY <2>1, ZenonT(60) DEF PassSound, Kept, Covered
  <1>3. DeliveredOK'
    BY ZenonT(60) DEF JInv, DeliveredOK, Delivered, Kept, Covered
  <1> QED BY <1>1, <1>2, <1>3, Zenon DEF JInv

\* Outside its transaction the feed has written nothing.
LEMMA FeedQuietSound ==
    ASSUME IInv, JInv, UNCHANGED <<tables, applied, worker, raced>>,
           feed'.pc \in {"idle", "anchored", "peeked", "applied"},
           \A p \in StrictPools : feed'.floors[p] = 0
    PROVE  JInv'
  BY FeedSoundLocal, Zenon DEF FeedSound

\* A non-empty set of numbers has a least one.
LEMMA LeastOf ==
    ASSUME NEW S \in SUBSET Nat, S # {}
    PROVE  \E m \in S : \A k \in S : m <= k
  <1> DEFINE R == OpToRel(<, Nat)
  <1>1. IsWellFoundedOn(R, Nat)
    BY NatLessThanWellFounded, Zenon
  <1>2. \A x, y \in Nat : x < y => <<x, y>> \in R
    BY Zenon DEF OpToRel
  <1> HIDE DEF R
  <1>3. PICK m \in S : \A k \in S : ~(<<k, m>> \in R)
    BY <1>1, WFMin, Zenon
  <1>4. ASSUME NEW k \in S PROVE m <= k
    <2>1. k \in Nat /\ m \in Nat /\ ~(k < m)
      BY <1>2, <1>3, Zenon
    <2> QED BY <2>1
  <1> QED BY <1>4, Zenon

\* Every event of a batch has an earliest one at or below it.
LEMMA EarliestOf ==
    ASSUME IInv, NEW p \in Pools, NEW e \in Positions(p)
    PROVE  \E m \in Pos : Earliest(p, m) /\ m <= e
  <1>1. Positions(p) \subseteq Pos
    BY BatchTypes, Zenon DEF IInv
  <1>2. Positions(p) \in SUBSET Nat
    BY <1>1, BoundsAssumption DEF Pos
  <1>3. PICK m \in Positions(p) : \A d \in Positions(p) : m <= d
    BY <1>2, LeastOf, ZenonT(60)
  <1> QED BY <1>1, <1>3, Zenon DEF Earliest

\* The WHERE clause of the floor UPDATE leaves out only what the row already
\* accounts for.
LEMMA NotBackdated ==
    ASSUME IInv, JInv, NEW p \in StrictPools, NEW m \in Pos, NEW e \in Pos,
           m <= e, ~Backdates(m, settlement[p])
    PROVE  Kept(p, e)
  <1>1. settlement[p] \in Row /\ m \in Nat \ {0} /\ e \in Nat \ {0}
    BY PoolsAssumption, BoundsAssumption DEF IInv, TypeOK, Pos
  <1>2. settlement[p].frontier # 0 => settlement[p].frontier \in folded[p]
    BY Zenon DEF JInv, FoldOK
  <1> QED BY <1>1, <1>2 DEF Backdates, Kept, Covered, Row

\* What the feed's open transaction already satisfies.
LEMMA BatchSound ==
    ASSUME IInv, JInv
    PROVE  /\ feed \in Feed
           /\ \A p \in StrictPools : p \in Pools /\ Positions(p) \subseteq Pos
           /\ \A p \in StrictPools : Positions(p) \subseteq committed[p]
  <1>1. feed \in Feed /\ \A p \in StrictPools : p \in Pools /\ Positions(p) \subseteq Pos
    BY PoolsAssumption, BatchTypes, Zenon DEF IInv, TypeOK
  <1>2. Batch \subseteq 1..Len(wal)
    BY BatchTypes, Zenon DEF IInv
  <1>3. \A p \in StrictPools : Positions(p) \subseteq committed[p]
    BY <1>2, Zenon DEF JInv, WalOK, Positions, Physical
  <1> QED BY <1>1, <1>3, Zenon

\* The anchor, the peek, the advance and a rollback.
LEMMA AnchorPeekSound ==
    ASSUME IInv, JInv, FeedAnchor \/ FeedPeek
    PROVE  JInv'
  <1>1. feed.pc \in {"idle", "anchored"} /\ feed \in Feed
    BY BatchSound, Zenon DEF FeedAnchor, FeedPeek
  <1>2. \A p \in StrictPools : feed.floors[p] = 0
    BY <1>1, PoolsAssumption, ZenonT(60) DEF IInv, FeedOK, Applying
  <1>3. /\ UNCHANGED <<tables, applied, worker, raced>>
        /\ feed'.pc \in {"anchored", "peeked", "applied"}
        /\ feed'.floors = feed.floors
    BY <1>1, Zenon DEF FeedAnchor, FeedPeek, slot, history, Feed
  <1> QED BY <1>2, <1>3, FeedQuietSound, Zenon

\* An aborted feed transaction takes its writes along and moves nothing else.
LEMMA FeedAbortSound ==
    ASSUME IInv, JInv, feed' = IdleFeed, UNCHANGED <<tables, applied, worker, raced>>
    PROVE  JInv'
  BY FeedQuietSound, PoolsAssumption, Zenon DEF IdleFeed

\* The floor UPDATE's snapshot: a pool it does not pick needs no floor.
LEMMA FloorsSound ==
    ASSUME IInv, JInv, FeedFloors
    PROVE  JInv'
  <1> DEFINE T == {p \in BatchPools : \E m \in Positions(p) :
                     Earliest(p, m) /\ Backdates(m, settlement[p])}
  <1>1. /\ UNCHANGED <<tables, slot, worker, raced>>
        /\ feed' = [feed EXCEPT !.pc = "floors", !.todo = T]
    BY Zenon DEF FeedFloors, history
  <1>2. feed \in Feed
    BY BatchSound, Zenon
  <1>3. ASSUME NEW p \in StrictPools, NEW e \in Positions(p), p \notin T
        PROVE  Kept(p, e)
    <2>1. p \in Pools /\ e \in Pos
      BY BatchSound, Zenon
    <2>2. PICK m \in Pos : Earliest(p, m) /\ m <= e
      BY <2>1, EarliestOf, Zenon
    <2>3. m \in Positions(p) /\ p \in BatchPools
      BY <2>2, Zenon DEF Earliest, Positions, Physical, BatchPools
    <2>4. ~Backdates(m, settlement[p])
      BY <1>3, <2>2, <2>3, Zenon
    <2> QED BY <2>1, <2>2, <2>4, NotBackdated, ZenonT(60)
  <1> HIDE DEF T
  <1>4. /\ feed'.pc = "floors" /\ feed'.todo = T /\ feed'.floors = feed.floors
        /\ feed'.upto = feed.upto
    BY <1>1, <1>2, Zenon DEF Feed
  <1>5. \A p \in StrictPools : Positions(p)' = Positions(p)
    BY <1>1, <1>4, Zenon DEF Positions, Physical, Batch, tables, slot
  <1>6. \A p \in StrictPools : \A e \in Pos : Kept(p, e)' = Kept(p, e)
    BY <1>1, Zenon DEF Kept, Covered, tables
  <1>7. FeedSound'
    <2>1. ASSUME NEW p \in StrictPools, NEW e \in Positions(p)', p \notin T
          PROVE  Kept(p, e)'
      BY <1>3, <1>5, <1>6, <2>1, BatchSound, ZenonT(60)
    <2>2. settlement' = settlement
      BY <1>1, Zenon DEF tables
    <2> QED BY <1>4, <1>5, <2>1, <2>2, ZenonT(60) DEF FeedSound, JInv
  <1> QED BY <1>1, <1>7, FeedSoundLocal, Zenon DEF slot

\* One row of the floor UPDATE, on its newest version.
LEMMA FloorRowSound ==
    ASSUME IInv, JInv, NEW q \in Pools, FeedFloorRow(q)
    PROVE  JInv'
  <1>1. PICK m \in Positions(q) :
          /\ Earliest(q, m)
          /\ feed' = [feed EXCEPT
               !.todo = @ \ {q},
               !.floors[q] = IF Backdates(m, settlement[q]) THEN m ELSE 0]
    BY Zenon DEF FeedFloorRow
  <1> DEFINE fl == IF Backdates(m, settlement[q]) THEN m ELSE 0
  <1>2. UNCHANGED <<tables, slot, worker, raced>> /\ feed.pc = "floors"
    BY Zenon DEF FeedFloorRow, history
  <1>3. feed \in Feed
    BY BatchSound, Zenon
  <1>4. /\ feed'.pc = "floors" /\ feed'.todo = feed.todo \ {q}
        /\ feed'.upto = feed.upto
        /\ \A p \in Pools : feed'.floors[p] = IF p = q THEN fl ELSE feed.floors[p]
    BY <1>1, <1>2, <1>3, Zenon DEF Feed
  <1>5. \A p \in StrictPools : Positions(p)' = Positions(p)
    BY <1>2, <1>4, Zenon DEF Positions, Physical, Batch, tables, slot
  <1>6. \A p \in StrictPools : \A e \in Pos : Kept(p, e)' = Kept(p, e)
    BY <1>2, Zenon DEF Kept, Covered, tables
  <1>7. \A e \in Positions(q) : m <= e
    BY <1>1, Zenon DEF Earliest
  <1>8. ASSUME NEW p \in StrictPools, NEW e \in Positions(p), p \notin feed.todo \ {q}
        PROVE  Kept(p, e) \/ feed'.floors[p] # 0
    <2>0. p \in Pools /\ e \in Pos /\ Positions(p) \subseteq Pos
      BY BatchSound, Zenon
    <2>1. CASE p = q
      <3>1. m \in Pos /\ m <= e
        BY <1>7, <2>0, <2>1, Zenon
      <3>2. CASE Backdates(m, settlement[q])
        BY <1>4, <2>0, <2>1, <3>1, <3>2, BoundsAssumption DEF Pos
      <3>3. CASE ~Backdates(m, settlement[q])
        BY <2>0, <2>1, <3>1, <3>3, NotBackdated, ZenonT(60)
      <3> QED BY <3>2, <3>3, Zenon
    <2>2. CASE p # q
      BY <1>2, <1>4, <1>8, <2>0, <2>2, ZenonT(60) DEF JInv, FeedSound
    <2> QED BY <2>1, <2>2, Zenon
  <1>9. ASSUME NEW p \in StrictPools, feed'.floors[p] # 0
        PROVE  /\ \A e \in Positions(p) : feed'.floors[p] <= e
               /\ settlement[p].floor = 0 \/ feed'.floors[p] < settlement[p].floor
    <2>0. p \in Pools
      BY BatchSound, Zenon
    <2>1. CASE p = q
      BY <1>4, <1>7, <1>9, <2>0, <2>1, ZenonT(60) DEF Backdates
    <2>2. CASE p # q
      BY <1>4, <1>9, <2>0, <2>2, ZenonT(60) DEF JInv, FeedSound
    <2> QED BY <2>1, <2>2, Zenon
  <1> HIDE DEF fl
  <1>10. FeedSound'
    <2>1. ASSUME NEW p \in StrictPools, NEW e \in Positions(p)',
                 p \notin feed.todo \ {q}
          PROVE  Kept(p, e)' \/ feed'.floors[p] # 0
      BY <1>5, <1>6, <1>8, <2>1, BatchSound, ZenonT(60)
    <2>2. settlement' = settlement
      BY <1>2, Zenon DEF tables
    <2> QED BY <1>4, <1>5, <1>9, <2>1, <2>2, ZenonT(60) DEF FeedSound
  <1> QED BY <1>2, <1>10, FeedSoundLocal, Zenon DEF slot

\* The counter bump and the marks: every strict pool of the batch is counted
\* before the marks begin.
LEMMA BumpMarkSound ==
    ASSUME IInv, JInv,
           \/ FeedBumps \/ \E p \in Pools : FeedBumpRow(p)
           \/ FeedMarks \/ \E p \in Pools : FeedMarkRow(p)
    PROVE  JInv'
  <1>1. feed \in Feed
    BY BatchSound, Zenon
  <1>2. UNCHANGED <<tables, slot, worker, raced>>
    BY Zenon DEF FeedBumps, FeedBumpRow, FeedMarks, FeedMarkRow, history
  <1>3. feed'.floors = feed.floors /\ feed'.upto = feed.upto
    BY <1>1, Zenon DEF FeedBumps, FeedBumpRow, FeedMarks, FeedMarkRow, Feed
  <1>4. /\ feed.pc \in {"floors", "bumps", "marks"}
        /\ feed.pc = "floors" => feed.todo = {}
        /\ feed'.pc \in {"bumps", "marks"}
    BY <1>1, Zenon DEF FeedBumps, FeedBumpRow, FeedMarks, FeedMarkRow, Feed
  <1>5. \A p \in StrictPools : Positions(p)' = Positions(p)
    BY <1>2, <1>3, Zenon DEF Positions, Physical, Batch, tables, slot
  <1>6. \A p \in StrictPools : \A e : Kept(p, e)' = Kept(p, e)
    BY <1>2, Zenon DEF Kept, Covered, tables
  <1>7. ASSUME NEW p \in StrictPools, Positions(p) # {}
        PROVE  /\ feed'.pc = "bumps" => p \in feed'.todo \cup feed'.bumped
               /\ feed'.pc = "marks" => p \in feed'.bumped
    <2>1. /\ feed.pc = "bumps" => p \in feed.todo \cup feed.bumped
          /\ feed.pc = "marks" => p \in feed.bumped
      BY <1>7, Zenon DEF JInv, FeedSound
    <2>2. Physical(p) # {}
      BY <1>7, Zenon DEF Positions
    <2>3. CASE FeedBumps
      BY <1>1, <2>2, <2>3, ZenonT(60) DEF FeedBumps, Feed
    <2>4. CASE \E q \in Pools : FeedBumpRow(q)
      BY <1>1, <2>1, <2>4, ZenonT(60) DEF FeedBumpRow, Feed
    <2>5. CASE FeedMarks
      BY <1>1, <2>1, <2>5, Zenon DEF FeedMarks, Feed
    <2>6. CASE \E q \in Pools : FeedMarkRow(q)
      BY <1>1, <2>1, <2>6, Zenon DEF FeedMarkRow, Feed
    <2> QED BY <2>3, <2>4, <2>5, <2>6, Zenon
  <1>8. FeedSound'
    <2>1. settlement' = settlement
      BY <1>2, Zenon DEF tables
    <2>2. ASSUME NEW p \in StrictPools, NEW e \in Positions(p)
          PROVE  Kept(p, e) \/ feed.floors[p] # 0
      BY <1>4, Zenon DEF JInv, FeedSound
    <2> QED BY <1>3, <1>4, <1>5, <1>6, <1>7, <2>1, <2>2, Zenon DEF JInv, FeedSound
  <1> QED BY <1>2, <1>8, FeedSoundLocal, Zenon DEF slot

\* The apply commits: every event of the batch is accounted for, by the row as
\* it is or by the floor that becomes visible with it, and its pool is queued.
LEMMA FeedCommitSound ==
    ASSUME IInv, JInv, FeedCommit
    PROVE  JInv'
  <1>1. /\ feed.pc = "marks" /\ feed.todo = {}
        /\ settlement' = [p \in Pools |->
             IF feed.floors[p] # 0
             THEN [settlement[p] EXCEPT !.floor = feed.floors[p]]
             ELSE settlement[p]]
        /\ queue' = queue \cup feed.marks
        /\ applied' = IF feed.upto > applied THEN feed.upto ELSE applied
        /\ feed' = [IdleFeed EXCEPT !.pc = "applied", !.upto = feed.upto]
        /\ UNCHANGED <<committed, wal, folded, worker, raced>>
    BY Zenon DEF FeedCommit, history
  <1>2. /\ feed \in Feed /\ settlement \in [Pools -> Row]
        /\ \A p \in StrictPools : p \in Pools /\ Positions(p) \subseteq Pos
    BY BatchSound, Zenon DEF IInv, TypeOK
  <1>3. feed'.pc = "applied" /\ \A p \in Pools : feed'.floors[p] = 0
    BY <1>1, Zenon DEF IdleFeed
  <1>4. \A p \in Pools :
          /\ settlement'[p].frontier = settlement[p].frontier
          /\ feed.floors[p] # 0 => settlement'[p].floor = feed.floors[p]
          /\ feed.floors[p] = 0 => settlement'[p] = settlement[p]
    BY <1>1, <1>2, Zenon DEF Row
  <1>5. WalOK' /\ FoldOK'
    BY <1>1, <1>2, <1>4, ZenonT(60) DEF JInv, WalOK, FoldOK
  <1>6. FeedSound'
    BY <1>2, <1>3, Zenon DEF FeedSound
  <1>7. PassesSound'
    <2> SUFFICES ASSUME NEW v \in Workers, worker[v].pc # "idle",
                        worker[v].pool \in StrictPools
                 PROVE  PassSound(v, worker[v])'
      BY <1>1, Zenon DEF PassesSound
    <2> DEFINE me == worker[v]
               q == worker[v].pool
    <2>1. PassSound(v, me)
      BY Zenon DEF JInv, PassesSound
    <2>2. me.own => settlement'[q] = settlement[q]
      BY <1>2, <1>4, OpenPass, ZenonT(60)
    <2>3. me.own => \A e : Kept(q, e)' = Kept(q, e)
      BY <1>1, <2>2, Zenon DEF Kept, Covered
    <2> QED BY <1>1, <2>1, <2>2, <2>3, ZenonT(60) DEF PassSound, Covered
  <1>8. ASSUME NEW p \in StrictPools, NEW e \in Pos, Kept(p, e)
        PROVE  Kept(p, e)'
    <2>1. p \in Pools /\ settlement[p] \in Row /\ feed.floors[p] \in Nat /\ e \in Nat
      BY <1>2, BoundsAssumption DEF Feed, Pos
    <2>2. CASE feed.floors[p] = 0
      BY <1>1, <1>4, <1>8, <2>1, <2>2, ZenonT(60) DEF Kept, Covered
    <2>3. CASE feed.floors[p] # 0
      <3>1. settlement[p].floor = 0 \/ feed.floors[p] < settlement[p].floor
        BY <2>3, Zenon DEF JInv, FeedSound
      <3> QED BY <1>1, <1>4, <1>8, <2>1, <2>3, <3>1 DEF Kept, Covered, Row
    <2> QED BY <2>2, <2>3, ZenonT(60)
  <1>9. ASSUME NEW p \in StrictPools, NEW e \in Positions(p)
        PROVE  Kept(p, e)' /\ p \in queue'
    <2>1. p \in Pools /\ e \in Pos
      BY <1>2, Zenon
    <2>2. p \in feed.bumped
      BY <1>1, <1>9, ZenonT(60) DEF JInv, FeedSound
    <2>3. p \in queue'
      BY <1>1, <2>2, ZenonT(60) DEF IInv, FeedOK
    <2>4. CASE Kept(p, e)
      BY <1>8, <2>1, <2>3, <2>4, ZenonT(60)
    <2>5. CASE feed.floors[p] # 0
      <3>1. settlement'[p].floor = feed.floors[p] /\ feed.floors[p] <= e
        BY <1>4, <2>1, <2>5, ZenonT(60) DEF JInv, FeedSound
      <3> QED BY <2>3, <2>5, <3>1, ZenonT(60) DEF Kept, Covered
    <2>6. Kept(p, e) \/ feed.floors[p] # 0
      BY <1>1, Zenon DEF JInv, FeedSound
    <2> QED BY <2>3, <2>4, <2>5, <2>6, ZenonT(60)
  <1>10. DeliveredOK'
    <2> SUFFICES ASSUME NEW p \in StrictPools, NEW e \in Delivered(p)'
                 PROVE  Kept(p, e)' /\ (e \in (folded[p] \cup raced[p])' \/ p \in queue')
      BY Zenon DEF DeliveredOK
    <2>1. PICK i \in 1..applied' : wal[i].pool = p /\ wal[i].pos # 0 /\ e = wal[i].pos
      BY <1>1, Zenon DEF Delivered
    <2>2. cursor \in Nat /\ applied \in Nat /\ feed.upto \in Nat /\ cursor <= applied
      BY <1>2, Zenon DEF IInv, TypeOK, IndexOK, Feed
    <2>3. CASE i \in 1..applied
      <3>1. e \in Delivered(p)
        BY <2>1, <2>3, ZenonT(60) DEF Delivered
      <3>2. Kept(p, e) /\ (e \in folded[p] \cup raced[p] \/ p \in queue)
        BY <3>1, Zenon DEF JInv, DeliveredOK
      <3>3. e \in Pos
        <4>1. i \in 1..Len(wal)
          BY <2>2, <2>3 DEF IInv, IndexOK, TypeOK
        <4>2. wal[i] \in WalEntry
          BY <4>1 DEF IInv, TypeOK
        <4> QED BY <2>1, <4>2, BoundsAssumption DEF WalEntry, Pos
      <3> QED BY <1>1, <1>8, <3>2, <3>3, ZenonT(60)
    <2>4. CASE i \notin 1..applied
      <3>1. i \in Batch
        BY <1>1, <2>1, <2>2, <2>4 DEF Batch
      <3>2. e \in Positions(p)
        BY <2>1, <3>1, ZenonT(60) DEF Positions, Physical
      <3> QED BY <1>9, <3>2, ZenonT(60)
    <2> QED BY <2>3, <2>4, Zenon
  <1> QED BY <1>5, <1>6, <1>7, <1>10, Zenon DEF JInv

-----------------------------------------------------------------------------
(* The three steps that move the tables.                                   *)

\* What lies in the durably applied prefix, or in the batch, stays there while
\* the WAL grows.
LEMMA GrowStable ==
    ASSUME IInv, NEW x \in WalEntry, wal' = Append(wal, x) \/ wal' = wal,
           UNCHANGED <<slot, feed>>
    PROVE  \A p \in StrictPools : /\ Delivered(p)' = Delivered(p)
                                  /\ Positions(p)' = Positions(p)
  <1>1. wal \in Seq(WalEntry) /\ applied \in Nat /\ applied <= Len(wal)
    BY Zenon DEF IInv, TypeOK, IndexOK
  <1>2. \A i \in 1..Len(wal) : wal'[i] = wal[i]
    BY <1>1
  <1>3. \A i \in 1..applied : wal'[i] = wal[i]
    BY <1>1, <1>2
  <1>4. \A i \in Batch : wal'[i] = wal[i]
    BY <1>2, BatchTypes, Zenon DEF IInv
  <1>5. applied' = applied /\ Batch' = Batch
    BY Zenon DEF slot, Batch
  <1>6. ASSUME NEW p \in StrictPools PROVE Delivered(p)' = Delivered(p)
    <2>1. {j \in 1..applied : wal'[j].pool = p /\ wal'[j].pos # 0}
            = {j \in 1..applied : wal[j].pool = p /\ wal[j].pos # 0}
      BY <1>3, Zenon
    <2> QED BY <1>3, <1>5, <2>1, ZenonT(60) DEF Delivered
  <1>7. ASSUME NEW p \in StrictPools PROVE Positions(p)' = Positions(p)
    BY <1>4, <1>5, ZenonT(60) DEF Positions, Physical
  <1> QED BY <1>6, <1>7, ZenonT(60)

\* A line commits.  If a pass is past its check the line is in the window;
\* otherwise that pass's check has still to come.
LEMMA PostSound ==
    ASSUME IInv, JInv, NEW p \in Pools, NEW e \in Pos, PostLine(p, e)
    PROVE  JInv'
  <1> DEFINE late == \E w \in Workers : Active(w, p) /\ PastCheck(worker[w])
  <1>1. /\ committed' = [committed EXCEPT ![p] = @ \cup {e}]
        /\ wal' = Append(wal, [pool |-> p, pos |-> e])
        /\ raced' = IF late THEN [raced EXCEPT ![p] = @ \cup {e}] ELSE raced
        /\ UNCHANGED <<settlement, folded, queue, slot, feed, worker>>
    BY Zenon DEF PostLine
  <1>2. /\ committed \in [Pools -> SUBSET Pos] /\ raced \in [Pools -> SUBSET Pos]
        /\ wal \in Seq(WalEntry) /\ [pool |-> p, pos |-> e] \in WalEntry
        /\ e \in Nat \ {0}
    BY BoundsAssumption DEF IInv, TypeOK, WalEntry, Pos
  <1> HIDE DEF late
  <1>3. \A q \in Pools : committed'[q] = IF q = p THEN committed[q] \cup {e}
                                         ELSE committed[q]
    BY <1>1, <1>2, Zenon
  <1>4. \A q \in Pools : raced'[q] = IF q = p /\ late THEN raced[q] \cup {e}
                                     ELSE raced[q]
    BY <1>1, <1>2, Zenon
  <1>5. WalOK'
    <2> SUFFICES ASSUME NEW i \in 1..Len(wal'), wal'[i].pos # 0
                 PROVE  wal'[i].pos \in committed'[wal'[i].pool]
      BY Zenon DEF WalOK
    <2>1. CASE i \in 1..Len(wal)
      <3>1. wal'[i] = wal[i] /\ wal[i] \in WalEntry
        BY <1>1, <1>2, <2>1
      <3>2. wal[i].pool \in Pools
        BY <3>1, Zenon DEF WalEntry
      <3> QED BY <1>3, <2>1, <3>1, <3>2, ZenonT(60) DEF JInv, WalOK
    <2>2. CASE i \notin 1..Len(wal)
      <3>1. wal'[i] = [pool |-> p, pos |-> e]
        BY <1>1, <1>2, <2>2
      <3>2. wal'[i].pool = p /\ wal'[i].pos = e
        BY <3>1
      <3>3. e \in committed'[p]
        BY <1>3, Zenon
      <3> QED BY <3>2, <3>3, ZenonT(60)
    <2> QED BY <2>1, <2>2, Zenon
  <1>6. FoldOK'
    BY <1>1, <1>3, PoolsAssumption DEF JInv, FoldOK
  <1>7. \A q \in StrictPools : /\ Delivered(q)' = Delivered(q)
                               /\ Positions(q)' = Positions(q)
    BY <1>1, <1>2, GrowStable, ZenonT(60)
  <1>8. \A q \in StrictPools : \A x : Kept(q, x) => Kept(q, x)'
    BY <1>1, <1>4, PoolsAssumption DEF Kept, Covered
  <1>9. FeedSound'
    BY <1>1, <1>7, <1>8, ZenonT(60) DEF JInv, FeedSound
  <1>10. DeliveredOK'
    BY <1>1, <1>4, <1>7, <1>8, PoolsAssumption DEF JInv, DeliveredOK
  <1>11. PassesSound'
    <2> SUFFICES ASSUME NEW v \in Workers, worker[v].pc # "idle",
                        worker[v].pool \in StrictPools
                 PROVE  PassSound(v, worker[v])'
      BY <1>1, Zenon DEF PassesSound
    <2> DEFINE me == worker[v]
               q == worker[v].pool
    <2>1. PassSound(v, me) /\ me' = me /\ q' = q /\ q \in Pools
      BY <1>1, OpenSound, PoolsAssumption, ZenonT(60)
    <2>2. CASE q # p
      <3>1. committed'[q] = committed[q] /\ raced'[q] = raced[q]
        BY <1>3, <1>4, <2>1, <2>2, Zenon
      <3>2. \A x : Kept(q, x)' = Kept(q, x)
        BY <1>1, <3>1, Zenon DEF Kept, Covered
      <3> QED BY <1>1, <2>1, <3>1, <3>2, ZenonT(60) DEF PassSound, Covered
    <2>3. CASE q = p /\ PastCheck(me)
      <3>1. late
        BY <2>3, Zenon DEF late, Active
      <3>2. committed'[q] = committed[q] \cup {e} /\ raced'[q] = raced[q] \cup {e}
        BY <1>3, <1>4, <2>1, <2>3, <3>1, ZenonT(60)
      <3>3. \A x \in committed'[q] : x \in committed[q] \/ x \in raced'[q]
        BY <3>2, Zenon
      <3>4. \A x : Kept(q, x)' => Kept(q, x) \/ x \in raced'[q]
        BY <1>1, <3>2, Zenon DEF Kept, Covered
      <3>5. \A row, fold, x : Covered(q, row, fold, x) \/ x \in raced'[q] =>
               \/ x \in fold \cup raced'[q]
               \/ x > row.frontier
               \/ row.floor # 0 /\ row.floor <= x
        BY <3>2, Zenon DEF Covered
      <3>6. me.pool = q
        BY Zenon
      <3> HIDE DEF me, q
      <3>a. folded' = folded /\ settlement' = settlement
        BY <1>1, Zenon
      <3>b. committed[q] \subseteq committed'[q] /\ raced[q] \subseteq raced'[q]
        BY <3>2, Zenon
      <3>7. ASSUME me.own, me.pc = "settled", NEW x \in Pos,
                   x \in committed'[q] \/ ~me.reset, Kept(q, x)'
            PROVE  \/ x \in me.fold \cup raced'[q]
                   \/ x > me.row.frontier
                   \/ me.row.floor # 0 /\ me.row.floor <= x
                   \/ x > ScanFrom(me.claim)
        <4>1. CASE x \notin raced'[q]
          <5>1. (x \in committed[q] \/ ~me.reset) /\ Kept(q, x)
            BY <3>3, <3>4, <3>7, <4>1, ZenonT(60)
          <5>2. Covered(q, me.row, me.fold, x) \/ x > ScanFrom(me.claim)
            BY <2>1, <3>6, <3>7, <5>1, ZenonT(60) DEF PassSound
          <5> QED BY <3>5, <5>2, Zenon
        <4> QED BY <4>1, Zenon
      <3>8. ASSUME me.own, me.pc # "settled", NEW x \in committed'[q], Kept(q, x)'
            PROVE  \/ x \in me.fold \cup raced'[q]
                   \/ x > me.row.frontier
                   \/ me.row.floor # 0 /\ me.row.floor <= x
        <4>1. CASE x \notin raced'[q]
          <5>1. x \in committed[q] /\ Kept(q, x)
            BY <3>3, <3>4, <3>8, <4>1, ZenonT(60)
          <5>2. Covered(q, me.row, me.fold, x)
            BY <2>1, <3>6, <3>8, <5>1, ZenonT(60) DEF PassSound
          <5> QED BY <3>5, <5>2, Zenon
        <4> QED BY <4>1, Zenon
      <3> QED BY <2>1, <3>a, <3>b, <3>3, <3>7, <3>8, ZenonT(60)
                 DEF PassSound, Covered, q, me
    <2>4. CASE q = p /\ ~PastCheck(me)
      <3>1. /\ me.pc \notin {"checked", "counted", "decided"} /\ ~me.reset
            /\ me.own => me.pc = "settled"
        BY <2>1, <2>4, Zenon DEF PastCheck, PassSound, Decision
      <3>2. ~late
        BY <2>4, Zenon DEF late, Active, IInv, Exclusive
      <3>3. committed[q] \subseteq committed'[q] /\ raced'[q] = raced[q]
        BY <1>3, <1>4, <2>1, <3>2, ZenonT(60)
      <3>4. \A x : Kept(q, x)' = Kept(q, x)
        BY <1>1, <3>3, Zenon DEF Kept, Covered
      <3> QED BY <1>1, <2>1, <3>1, <3>3, <3>4, ZenonT(60) DEF PassSound, Covered
    <2> QED BY <2>2, <2>3, <2>4, ZenonT(60)
  <1> QED BY <1>5, <1>6, <1>9, <1>10, <1>11, ZenonT(60) DEF JInv

\* What the feed has delivered is committed.
LEMMA DeliveredCommitted ==
    ASSUME IInv, JInv, NEW p \in StrictPools, NEW e \in Delivered(p)
    PROVE  e \in committed[p]
  <1>1. PICK i \in 1..applied : wal[i].pool = p /\ wal[i].pos # 0 /\ e = wal[i].pos
    BY Zenon DEF Delivered
  <1>2. i \in 1..Len(wal)
    BY DEF IInv, IndexOK, TypeOK
  <1> QED BY <1>1, <1>2, Zenon DEF JInv, WalOK

\* What a pass leaves behind accounts for every event the rows before it did;
\* and if it drops the queue row, those events are in its costs.
LEMMA CommitCovers ==
    ASSUME IInv, JInv, NEW w \in Workers, worker[w].pc = "decided",
           worker[w].pool \in StrictPools,
           NEW e \in committed[worker[w].pool], Kept(worker[w].pool, e)
    PROVE  LET me == worker[w]
               row == IF me.own THEN me.row ELSE settlement[me.pool]
           IN  /\ Covered(me.pool, row, me.fold, e)
               /\ ~Keep(me) => e \in me.fold \cup raced[me.pool]
  <1> DEFINE me == worker[w]
             p == me.pool
             row == IF me.own THEN me.row ELSE settlement[p]
  <1>1. PassSound(w, me) /\ settlement[p] \in Row /\ committed[p] \in SUBSET Pos
    BY OpenSound, Zenon
  <1>2. me \in Worker /\ PassOK(me, settlement[p])
    BY OpenPass, ZenonT(60)
  <1>3. /\ me.own \in BOOLEAN /\ me.row \in Row /\ me.tail \in Nat
        /\ me.pending \in BOOLEAN /\ e \in Nat \ {0}
    BY <1>1, <1>2, BoundsAssumption DEF Worker, Pos
  <1>4. ~me.own => settlement[p].frontier = 0 /\ me.row.frontier = 0
    BY <1>2, Zenon DEF PassOK, Decision
  <1>5. Covered(p, row, me.fold, e)
    <2>1. CASE me.own
      BY <1>1, <2>1, ZenonT(60) DEF PassSound
    <2>2. CASE ~me.own
      BY <1>3, <1>4, <2>2 DEF Covered
    <2> QED BY <1>3, <2>1, <2>2, ZenonT(60)
  <1>6. ASSUME ~Keep(me) PROVE e \in me.fold \cup raced[p]
    <2>1. me.tail = 0 /\ ~me.pending
      BY <1>3, <1>6 DEF Keep
    <2>2. e > me.row.frontier => e \in raced[p]
      BY <1>1, <2>1, ZenonT(60) DEF PassSound
    <2>3. CASE me.own
      <3>1. me.row.floor = 0
        BY <1>2, <2>1, <2>3, ZenonT(60) DEF PassOK, Decision
      <3> QED BY <1>5, <2>2, <2>3, <3>1, ZenonT(60) DEF Covered
    <2>4. CASE ~me.own
      BY <1>3, <1>4, <2>2, <2>4
    <2> QED BY <1>3, <2>3, <2>4, ZenonT(60)
  <1> QED BY <1>5, <1>6, ZenonT(60)

\* A pass commits.
LEMMA CommitSound ==
    ASSUME IInv, JInv, NEW w \in Workers, CommitPass(w)
    PROVE  JInv'
  <1> DEFINE me == worker[w]
             p == me.pool
             row == IF me.own THEN me.row ELSE settlement[p]
             x == [pool |-> p, pos |-> 0]
  <1>1. /\ me.pc = "decided"
        /\ settlement' = IF me.own THEN [settlement EXCEPT ![p] = me.row]
                         ELSE settlement
        /\ folded' = [folded EXCEPT ![p] = me.fold]
        /\ queue' = IF Keep(me) THEN queue \cup {p} ELSE queue \ {p}
        /\ wal' = IF me.adjusted THEN Append(wal, x) ELSE wal
        /\ worker' = [worker EXCEPT ![w] = IdleWorker(p)]
        /\ UNCHANGED <<committed, slot, feed, raced>>
    BY Zenon DEF CommitPass, history
  <1>2. /\ me \in Worker /\ PassOK(me, settlement[p]) /\ p \in Pools
        /\ \A v \in Workers \ {w} : worker[v].pc # "idle" => worker[v].pool # p
        /\ me.own => feed.floors[p] = 0
    BY <1>1, OpenPass, ZenonT(60)
  <1>3. /\ settlement \in [Pools -> Row] /\ folded \in [Pools -> SUBSET Pos]
        /\ worker \in [Workers -> Worker] /\ wal \in Seq(WalEntry)
        /\ x \in WalEntry /\ me.own \in BOOLEAN /\ me.row \in Row
    BY <1>2, BoundsAssumption DEF IInv, TypeOK, WalEntry, Worker
  <1>4. /\ settlement'[p] = row /\ folded'[p] = me.fold
        /\ \A q \in Pools \ {p} : settlement'[q] = settlement[q] /\ folded'[q] = folded[q]
    BY <1>1, <1>2, <1>3, ZenonT(60)
  <1>5. me.own => p \in StrictPools
    BY <1>2, Zenon DEF PassOK
  <1>6. \A q \in StrictPools : /\ q \in Pools /\ Delivered(q)' = Delivered(q)
                               /\ Positions(q)' = Positions(q)
    <2>1. wal' = Append(wal, x) \/ wal' = wal
      BY <1>1, Zenon
    <2> QED BY <1>1, <1>3, <2>1, GrowStable, PoolsAssumption, ZenonT(60)
  <1>7. WalOK'
    <2> SUFFICES ASSUME NEW i \in 1..Len(wal'), wal'[i].pos # 0
                 PROVE  wal'[i].pos \in committed[wal'[i].pool]
      BY <1>1, ZenonT(60) DEF WalOK
    <2>1. i \in 1..Len(wal) /\ wal'[i] = wal[i]
      BY <1>1, <1>3
    <2> QED BY <2>1, Zenon DEF JInv, WalOK
  <1>8. FoldOK'
    <2>1. ASSUME p \in StrictPools
          PROVE  /\ me.fold \subseteq committed[p]
                 /\ row.frontier # 0 => row.frontier \in me.fold
      BY <1>1, <2>1, OpenSound, ZenonT(60) DEF PassSound
    <2> HIDE DEF row, me, p
    <2> QED BY <1>1, <1>4, <1>6, <2>1, ZenonT(60) DEF JInv, FoldOK
  <1>9. \A q \in Pools \ {p} : \A e : Kept(q, e)' = Kept(q, e)
    BY <1>1, <1>4, ZenonT(60) DEF Kept, Covered
  <1>10. PassesSound'
    <2> SUFFICES ASSUME NEW v \in Workers, worker'[v].pc # "idle",
                        worker'[v].pool \in StrictPools
                 PROVE  PassSound(v, worker[v])'
      BY Zenon DEF PassesSound
    <2>1. v # w
      BY <1>1, <1>3, Zenon DEF IdleWorker
    <2>2. worker'[v] = worker[v]
      BY <1>1, <1>3, <2>1, Zenon
    <2>3. PICK q \in Pools \ {p} : q = worker[v].pool
      BY <1>2, <1>6, <2>1, <2>2, ZenonT(60)
    <2>4. PassSound(v, worker[v])
      BY <2>2, OpenSound, Zenon
    <2>5. /\ settlement'[q] = settlement[q] /\ folded'[q] = folded[q]
          /\ \A e : Kept(q, e)' = Kept(q, e)
      BY <1>4, <1>9, Zenon
    <2>6. committed' = committed /\ raced' = raced
      BY <1>1, Zenon
    <2> QED BY <2>2, <2>3, <2>4, <2>5, <2>6, ZenonT(60) DEF PassSound, Covered
  <1>11. ASSUME NEW q \in StrictPools, NEW e \in committed[q], Kept(q, e)
         PROVE  /\ Kept(q, e)'
                /\ q \in queue => e \in (folded[q] \cup raced[q])' \/ q \in queue'
                /\ q = p /\ ~Keep(me) => e \in (folded[q] \cup raced[q])'
    <2>1. CASE q # p
      <3>1. q \in queue => q \in queue'
        BY <1>1, <2>1, Zenon
      <3> QED BY <1>6, <1>9, <1>11, <2>1, <3>1, ZenonT(60)
    <2>2. CASE q = p
      <3>1. /\ Covered(p, row, me.fold, e)
            /\ ~Keep(me) => e \in me.fold \cup raced[p]
        BY <1>1, <1>11, <2>2, CommitCovers, ZenonT(60)
      <3>2. Kept(q, e)'
        BY <1>1, <1>4, <2>2, <3>1, ZenonT(60) DEF Kept, Covered
      <3>3. Keep(me) => q \in queue'
        BY <1>1, <2>2, Zenon
      <3> HIDE DEF row, me, p
      <3> QED BY <1>1, <1>4, <2>2, <3>1, <3>2, <3>3, ZenonT(60)
    <2> QED BY <2>1, <2>2, ZenonT(60)
  <1>12. FeedSound'
    <2>1. ASSUME NEW q \in StrictPools, NEW e \in Positions(q), Kept(q, e)
          PROVE  Kept(q, e)'
      BY <1>11, <2>1, BatchSound, Zenon
    <2>2. ASSUME NEW q \in StrictPools, feed.floors[q] # 0
          PROVE  settlement'[q] = settlement[q]
      BY <1>2, <1>4, <1>6, <2>2, ZenonT(60)
    <2>3. feed' = feed
      BY <1>1, Zenon
    <2> HIDE DEF row, me, p
    <2> QED BY <1>6, <2>1, <2>2, <2>3, ZenonT(60) DEF JInv, FeedSound
  <1>13. DeliveredOK'
    <2> SUFFICES ASSUME NEW q \in StrictPools, NEW e \in Delivered(q)
                 PROVE  Kept(q, e)' /\ (e \in (folded[q] \cup raced[q])' \/ q \in queue')
      BY <1>6, Zenon DEF DeliveredOK
    <2>1. Kept(q, e) /\ (e \in folded[q] \cup raced[q] \/ q \in queue)
      BY Zenon DEF JInv, DeliveredOK
    <2>2. e \in committed[q]
      BY DeliveredCommitted, Zenon
    <2>3. e \in folded[q] => e \in folded'[q]
      BY <1>1, <1>4, <1>6, OpenSound, ZenonT(60) DEF PassSound
    <2> HIDE DEF row, me, p
    <2> QED BY <1>1, <1>11, <2>1, <2>2, <2>3, ZenonT(60)
  <1> QED BY <1>7, <1>8, <1>10, <1>12, <1>13, ZenonT(60) DEF JInv

\* Every step keeps what makes events recoverable.
LEMMA NextJInv == IInv /\ JInv /\ [Next]_vars => JInv'
  <1> SUFFICES ASSUME IInv, JInv, [Next]_vars PROVE JInv'
    BY Zenon
  <1>1. ASSUME NEW p \in Pools, NEW e \in Pos, PostLine(p, e) PROVE JInv'
    BY <1>1, PostSound, Zenon
  <1>2. CASE Ingest
    <2>1. ASSUME FeedAdvance PROVE JInv'
      BY <2>1, FeedAbortSound, Zenon DEF FeedAdvance, history
    <2> QED BY <1>2, <2>1, AnchorPeekSound, FloorsSound, FloorRowSound,
               BumpMarkSound, FeedCommitSound, ZenonT(60) DEF Ingest
  <1>3. CASE FeedCrash
    BY <1>3, FeedAbortSound, Zenon DEF FeedCrash, slot
  <1>4. ASSUME NEW w \in Workers, Work(w) PROVE JInv'
    BY <1>4, ClaimSound, DropSound, ScanSound, SettleSound, CheckSound,
       CountSound, DecideSound, CommitSound, ZenonT(60) DEF Work
  <1>5. ASSUME NEW w \in Workers, AbortPass(w) PROVE JInv'
    <2>1. /\ worker[w].pool \in Pools
          /\ worker' = [worker EXCEPT ![w] = IdleWorker(worker[w].pool)]
          /\ UNCHANGED <<tables, slot, feed>> /\ raced' = raced
      BY <1>5, OpenPass, Zenon DEF AbortPass
    <2> QED BY <2>1, AbortSound, ZenonT(60)
  <1>6. ASSUME NEW w \in Workers, BreakDeadlock(w) PROVE JInv'
    <2>1. /\ UNCHANGED <<tables, slot>> /\ raced' = raced
          /\ applied' = applied /\ worker[w].pool \in Pools
      BY <1>6, ZenonT(60)
         DEF BreakDeadlock, history, slot, IInv, TypeOK, Worker
    <2>2. CASE feed' = IdleFeed /\ UNCHANGED worker
      BY <2>1, <2>2, FeedAbortSound, Zenon
    <2>3. CASE worker' = [worker EXCEPT ![w] = IdleWorker(worker[w].pool)]
               /\ UNCHANGED feed
      BY <2>1, <2>3, AbortSound, ZenonT(60)
    <2> QED BY <1>6, <2>2, <2>3, Zenon DEF BreakDeadlock
  <1>7. CASE UNCHANGED vars
    <2>1. /\ UNCHANGED <<tables, applied, worker, raced>>
          /\ feed' = feed /\ cursor' = cursor
      BY <1>7, Zenon DEF vars, slot, history
    <2>2. ASSUME NEW p \in StrictPools
          PROVE  /\ Positions(p)' = Positions(p) /\ settlement'[p] = settlement[p]
                 /\ \A e : Kept(p, e)' = Kept(p, e)
      <3>1. Positions(p)' = Positions(p)
        BY <2>1, Zenon DEF Positions, Physical, Batch, tables
      <3>2. settlement'[p] = settlement[p] /\ folded'[p] = folded[p] /\ raced' = raced
        BY <2>1, Zenon DEF tables
      <3> QED BY <3>1, <3>2, Zenon DEF Kept, Covered
    <2>3. FeedSound'
      BY <2>1, <2>2, Zenon DEF JInv, FeedSound
    <2> QED BY <2>1, <2>3, FeedSoundLocal, ZenonT(60)
  <1> QED BY <1>1, <1>2, <1>3, <1>4, <1>5, <1>6, <1>7, Zenon DEF Next

\* The two invariants together hold in every reachable state.
LEMMA AlwaysJInv == Spec => [](IInv /\ JInv)
  BY InitIInv, NextIInv, InitJInv, NextJInv, PTL DEF Spec

\* The averaging methods are never folded: their passes only drop the row.
Plain ==
    \A p \in Pools \ StrictPools :
        /\ folded[p] = {}
        /\ \A w \in Workers : worker[w].pc # "idle" /\ worker[w].pool = p =>
             worker[w].fold = {}

\* A pass works on its pool from its claim to its commit.
LEMMA SamePool ==
    ASSUME IInv, NEW w \in Workers,
           Scan(w) \/ Settle(w) \/ CheckMissed(w) \/ CountTail(w) \/ DecideQueue(w)
    PROVE  /\ worker[w].pool \in StrictPools /\ folded' = folded
           /\ worker'[w].pool = worker[w].pool
           /\ \A v \in Workers \ {w} : worker'[v] = worker[v]
  <1> DEFINE old == worker[w]
  <1>0. worker \in [Workers -> Worker] /\ old \in Worker
    BY Zenon DEF IInv, TypeOK
  <1>1. ASSUME NEW me, worker' = [worker EXCEPT ![w] = me], me.pool = old.pool
        PROVE  /\ worker'[w].pool = old.pool
               /\ \A v \in Workers \ {w} : worker'[v] = worker[v]
    BY <1>0, <1>1, Zenon
  <1>2. CASE Scan(w)
    <2> DEFINE scan == {e \in committed[old.pool] : e > ScanFrom(old.claim)}
               new == Refold(old.claim, old.fold, scan)
    <2>1. PICK eff : worker' = [worker EXCEPT ![w] =
                       [old EXCEPT !.pc = "scanned", !.scan = scan, !.effect = eff,
                                   !.fold = new]]
      BY <1>2, Zenon DEF Scan
    <2> DEFINE me == [old EXCEPT !.pc = "scanned", !.scan = scan, !.effect = eff,
                                 !.fold = new]
    <2> HIDE DEF scan, new
    <2>2. me.pool = old.pool
      BY <1>0, Zenon DEF Worker
    <2>3. old.pool \in StrictPools /\ folded' = folded
      BY <1>2, Zenon DEF Scan, tables
    <2> HIDE DEF me
    <2> QED BY <1>1, <2>1, <2>2, <2>3, ZenonT(60) DEF me
  <1>3. CASE Settle(w)
    <2>1. PICK f \in Frontiers(old) :
            LET cur == IF old.own THEN old.row ELSE settlement[old.pool]
                row == SettledRow(cur, old.claim, old.effect # "none", f)
            IN  IF f = 0
                THEN worker' = [worker EXCEPT ![w] =
                       [old EXCEPT !.pc = "settled", !.pending = FALSE]]
                ELSE /\ feed.floors[old.pool] = 0
                     /\ worker' = [worker EXCEPT ![w] =
                          [old EXCEPT
                             !.pc = "settled", !.row = row, !.own = TRUE,
                             !.pending = row.floor # 0,
                             !.agg = @ \/ old.effect = "moved",
                             !.adjusted = @ \/ old.effect \in {"posted", "moved"}]]
      BY <1>3, Zenon DEF Settle
    <2> DEFINE cur == IF old.own THEN old.row ELSE settlement[old.pool]
               row == SettledRow(cur, old.claim, old.effect # "none", f)
               kept == [old EXCEPT !.pc = "settled", !.pending = FALSE]
               moved == [old EXCEPT
                           !.pc = "settled", !.row = row, !.own = TRUE,
                           !.pending = row.floor # 0,
                           !.agg = @ \/ old.effect = "moved",
                           !.adjusted = @ \/ old.effect \in {"posted", "moved"}]
    <2>2. \/ worker' = [worker EXCEPT ![w] = kept]
          \/ worker' = [worker EXCEPT ![w] = moved]
      BY <2>1, Zenon
    <2> HIDE DEF row, cur
    <2>3. kept.pool = old.pool /\ moved.pool = old.pool
      BY <1>0, Zenon DEF Worker
    <2>4. old.pc = "scanned" /\ folded' = folded
      BY <1>3, Zenon DEF Settle, tables
    <2>5. old.pool \in StrictPools
      BY <2>4, OpenPass, Zenon DEF PassOK
    <2> HIDE DEF kept, moved
    <2> QED BY <1>1, <2>2, <2>3, <2>4, <2>5, ZenonT(60)
  <1>4. CASE CheckMissed(w)
    <2>1. old.pc = "settled" /\ folded' = folded
      BY <1>4, Zenon DEF CheckMissed, tables
    <2>2. old.pool \in StrictPools
      BY <2>1, OpenPass, Zenon DEF PassOK
    <2>3. CASE worker' = [worker EXCEPT ![w].pc = "checked"]
      BY <1>0, <2>1, <2>2, <2>3, Zenon DEF Worker
    <2>4. ASSUME NEW f,
                 worker' = [worker EXCEPT ![w] =
                   [old EXCEPT !.pc = "checked", !.pending = TRUE, !.row.floor = f]]
          PROVE  /\ worker'[w].pool = old.pool
                 /\ \A v \in Workers \ {w} : worker'[v] = worker[v]
      <3> DEFINE me == [old EXCEPT !.pc = "checked", !.pending = TRUE, !.row.floor = f]
      <3>1. me.pool = old.pool
        BY <1>0, Zenon DEF Worker
      <3> HIDE DEF me
      <3> QED BY <1>1, <2>4, <3>1, Zenon DEF me
    <2> QED BY <1>4, <2>1, <2>2, <2>3, <2>4, ZenonT(60) DEF CheckMissed
  <1>5. CASE CountTail(w)
    <2>1. PICK n : worker' = [worker EXCEPT ![w] =
                     [old EXCEPT !.pc = "counted", !.tail = n]]
      BY <1>5, Zenon DEF CountTail
    <2> DEFINE me == [old EXCEPT !.pc = "counted", !.tail = n]
    <2>2. me.pool = old.pool
      BY <1>0, Zenon DEF Worker
    <2>3. old.pc = "checked" /\ folded' = folded
      BY <1>5, Zenon DEF CountTail, tables
    <2>4. old.pool \in StrictPools
      BY <2>3, OpenPass, Zenon DEF PassOK
    <2> HIDE DEF me
    <2> QED BY <1>1, <2>1, <2>2, <2>3, <2>4, ZenonT(60) DEF me
  <1>6. CASE DecideQueue(w)
    <2> DEFINE c == IF old.own THEN old.row ELSE settlement[old.pool]
               again == [old EXCEPT !.pc = "claimed", !.reset = TRUE, !.claim = c]
               done == [old EXCEPT !.pc = "decided", !.reset = TRUE]
    <2>1. \/ worker' = [worker EXCEPT ![w] = again]
          \/ worker' = [worker EXCEPT ![w] = done]
      BY <1>6, Zenon DEF DecideQueue
    <2> HIDE DEF c
    <2>2. again.pool = old.pool /\ done.pool = old.pool
      BY <1>0, Zenon DEF Worker
    <2>3. old.pc = "counted" /\ folded' = folded
      BY <1>6, Zenon DEF DecideQueue, tables
    <2>4. old.pool \in StrictPools
      BY <2>3, OpenPass, Zenon DEF PassOK
    <2> HIDE DEF again, done
    <2> QED BY <1>1, <2>1, <2>2, <2>3, <2>4, ZenonT(60)
  <1> QED BY <1>2, <1>3, <1>4, <1>5, <1>6, ZenonT(60)

\* No step folds an event of an averaging pool.
LEMMA NextPlain == IInv /\ Plain /\ [Next]_vars => Plain'
  <1> SUFFICES ASSUME IInv, Plain, [Next]_vars,
                      NEW p \in Pools \ StrictPools
               PROVE  /\ folded'[p] = {}
                      /\ \A w \in Workers :
                           worker'[w].pc # "idle" /\ worker'[w].pool = p =>
                             worker'[w].fold = {}
    BY Zenon DEF Plain
  <1>0. /\ folded \in [Pools -> SUBSET Pos] /\ worker \in [Workers -> Worker]
        /\ folded[p] = {}
        /\ \A w \in Workers : worker[w].pc # "idle" /\ worker[w].pool = p =>
             worker[w].fold = {}
    BY Zenon DEF IInv, TypeOK, Plain
  <1>1. CASE UNCHANGED <<folded, worker>>
    BY <1>0, <1>1, Zenon
  <1>2. ASSUME NEW w \in Workers, worker' = [worker EXCEPT ![w] = IdleWorker(worker[w].pool)],
               folded' = folded \/ CommitPass(w)
        PROVE  /\ folded'[p] = {}
               /\ \A v \in Workers :
                    worker'[v].pc # "idle" /\ worker'[v].pool = p =>
                      worker'[v].fold = {}
    <2>1. IdleWorker(worker[w].pool).pc = "idle"
      BY Zenon DEF IdleWorker
    <2>2. folded'[p] = {}
      BY <1>0, <1>2, Zenon DEF CommitPass
    <2> QED BY <1>0, <1>2, <2>1, <2>2, ZenonT(60)
  <1>3. ASSUME NEW w \in Workers, NEW me, worker' = [worker EXCEPT ![w] = me],
               folded' = folded, me.pool = p => me.fold = {}
        PROVE  /\ folded'[p] = {}
               /\ \A v \in Workers :
                    worker'[v].pc # "idle" /\ worker'[v].pool = p =>
                      worker'[v].fold = {}
    BY <1>0, <1>3, Zenon
  <1>4. ASSUME NEW w \in Workers, Work(w)
        PROVE  /\ folded'[p] = {}
               /\ \A v \in Workers :
                    worker'[v].pc # "idle" /\ worker'[v].pool = p =>
                      worker'[v].fold = {}
    <2>1. CASE \E q \in Pools : ClaimNext(w, q) \/ ClaimPool(w, q)
      <3>1. PICK q \in Pools, ins \in BOOLEAN : Begin(w, q, ins)
        BY <2>1, Zenon DEF ClaimNext, ClaimPool
      <3> DEFINE me == [IdleWorker(q) EXCEPT !.pc = "claimed",
                                             !.claim = settlement[q],
                                             !.row = settlement[q],
                                             !.fold = folded[q],
                                             !.agg = w \in Sweepers,
                                             !.inserted = ins]
      <3>2. folded' = folded /\ worker' = [worker EXCEPT ![w] = me]
        BY <2>1, <3>1, ZenonT(60) DEF ClaimNext, ClaimPool, Begin, tables
      <3>3. me.pool = q /\ me.fold = folded[q]
        BY Zenon DEF IdleWorker
      <3> HIDE DEF me
      <3> QED BY <1>0, <1>3, <3>2, <3>3, ZenonT(60)
    <2>2. CASE DropQueueRow(w)
      <3>1. /\ folded' = folded /\ worker[w].pc # "idle"
            /\ worker' = [worker EXCEPT ![w] =
                 [worker[w] EXCEPT !.pc = "decided", !.reset = TRUE]]
        BY <2>2, Zenon DEF DropQueueRow, tables
      <3>2. worker[w] \in Worker
        BY <1>0, Zenon
      <3> QED BY <1>0, <1>3, <3>1, <3>2, ZenonT(60) DEF Worker
    <2>3. CASE CommitPass(w)
      <3>1. worker' = [worker EXCEPT ![w] = IdleWorker(worker[w].pool)]
        BY <2>3, Zenon DEF CommitPass
      <3> QED BY <1>2, <2>3, <3>1, ZenonT(60)
    <2>4. CASE Scan(w) \/ Settle(w) \/ CheckMissed(w) \/ CountTail(w) \/ DecideQueue(w)
      <3>1. /\ worker[w].pool \in StrictPools /\ folded' = folded
            /\ worker'[w].pool = worker[w].pool
            /\ \A v \in Workers \ {w} : worker'[v] = worker[v]
        BY <2>4, SamePool, ZenonT(60)
      <3> QED BY <1>0, <3>1, ZenonT(60)
    <2> QED BY <1>4, <2>1, <2>2, <2>3, <2>4, ZenonT(60) DEF Work
  <1>5. ASSUME Ingest \/ FeedCrash PROVE UNCHANGED <<folded, worker>>
    BY <1>5, ZenonT(60) DEF Ingest, FeedAnchor, FeedPeek, FeedFloors, FeedFloorRow,
       FeedBumps,
                FeedBumpRow, FeedMarks, FeedMarkRow, FeedCommit, FeedAdvance,
                FeedCrash, tables
  <1>6. ASSUME NEW q \in Pools, NEW e \in Pos, PostLine(q, e)
        PROVE  UNCHANGED <<folded, worker>>
    BY <1>6, Zenon DEF PostLine
  <1>7. ASSUME NEW w \in Workers, AbortPass(w) \/ BreakDeadlock(w)
        PROVE  /\ folded' = folded
               /\ \/ worker' = [worker EXCEPT ![w] = IdleWorker(worker[w].pool)]
                  \/ worker' = worker
    BY <1>7, Zenon DEF AbortPass, BreakDeadlock, tables
  <1>8. CASE UNCHANGED vars
    BY <1>1, <1>8, ZenonT(60) DEF vars, tables
  <1> QED BY <1>1, <1>2, <1>4, <1>5, <1>6, <1>7, <1>8, ZenonT(60) DEF Next

\* The averaging pools start with nothing folded and no pass open.
LEMMA InitPlain == Init => Plain
  BY PoolsAssumption DEF Init, Plain, IdleWorker

\* All three invariants hold in every reachable state.
LEMMA AlwaysPlain == Spec => [](IInv /\ JInv /\ Plain)
  BY InitIInv, NextIInv, InitJInv, NextJInv, InitPlain, NextPlain, PTL DEF Spec

-----------------------------------------------------------------------------
(* The results.                                                            *)

\* Whatever the posting sessions, the feed and the passes do, and wherever
\* they crash: an event the feed has delivered is in the pool's costs, or its
\* pool is queued and the settlement row leads the next pass to it, unless it
\* committed inside a pass's window after the last look below the frontier.
THEOREM AlwaysRecoverable == Spec => []Recoverable
  <1>1. IInv /\ JInv => Recoverable
    BY Zenon DEF JInv, DeliveredOK, Recoverable, Kept, Covered
  <1> QED BY AlwaysJInv, <1>1, PTL

\* Only the feed's commit and a pass's commit write settlement rows, only the
\* latter costs.
LEMMA OnlyCommits ==
    ASSUME [Next]_vars
    PROVE  \/ UNCHANGED <<settlement, folded>>
           \/ FeedCommit
           \/ \E w \in Workers : CommitPass(w)
  <1> USE DEF tables
  <1>1. ASSUME NEW p \in Pools, NEW e \in Pos, PostLine(p, e)
        PROVE  UNCHANGED <<settlement, folded>>
    BY <1>1, ZenonT(60) DEF PostLine
  <1>2. ASSUME Ingest, ~FeedCommit PROVE UNCHANGED <<settlement, folded>>
    BY <1>2, ZenonT(60) DEF Ingest, FeedAnchor, FeedPeek, FeedFloors, FeedFloorRow,
       FeedBumps, FeedBumpRow, FeedMarks, FeedMarkRow, FeedAdvance
  <1>3. ASSUME NEW w \in Workers, Work(w), ~CommitPass(w)
        PROVE  UNCHANGED <<settlement, folded>>
    BY <1>3, ZenonT(60) DEF Work, ClaimNext, ClaimPool, Begin, DropQueueRow, Scan,
       Settle, CheckMissed, CountTail, DecideQueue
  <1>4. ASSUME FeedCrash \/ \E w \in Workers : AbortPass(w) \/ BreakDeadlock(w)
        PROVE  UNCHANGED <<settlement, folded>>
    BY <1>4, Zenon DEF FeedCrash, AbortPass, BreakDeadlock
  <1>5. CASE UNCHANGED vars
    BY <1>5, Zenon DEF vars
  <1> QED BY <1>1, <1>2, <1>3, <1>4, <1>5, ZenonT(60) DEF Next

\* A commit moves its pool's row forward and keeps its costs.
LEMMA ForwardStep ==
    ASSUME IInv, JInv, Plain, [Next]_vars, NEW p \in Pools
    PROVE  /\ settlement'[p].gen >= settlement[p].gen
           /\ settlement'[p].frontier >= settlement[p].frontier
           /\ folded[p] \subseteq folded'[p]
  <1>0. /\ settlement \in [Pools -> Row] /\ folded \in [Pools -> SUBSET Pos]
        /\ settlement[p] \in Row
    BY Zenon DEF IInv, TypeOK
  <1>1. settlement[p].gen >= settlement[p].gen
        /\ settlement[p].frontier >= settlement[p].frontier
    BY <1>0, BoundsAssumption DEF Row, Pos
  <1>2. CASE UNCHANGED <<settlement, folded>>
    BY <1>1, <1>2, ZenonT(60)
  <1>3. CASE FeedCommit
    <2>1. folded' = folded
      BY <1>3, Zenon DEF FeedCommit
    <2>2. /\ settlement'[p].gen = settlement[p].gen
          /\ settlement'[p].frontier = settlement[p].frontier
      BY <1>0, <1>3, ZenonT(60) DEF FeedCommit, Row
    <2> QED BY <1>1, <2>1, <2>2, ZenonT(60)
  <1>4. ASSUME NEW w \in Workers, CommitPass(w), worker[w].pool = p
        PROVE  /\ settlement'[p].gen >= settlement[p].gen
               /\ settlement'[p].frontier >= settlement[p].frontier
               /\ folded[p] \subseteq folded'[p]
    <2> DEFINE me == worker[w]
    <2>1. /\ me.pc = "decided" /\ folded'[p] = me.fold
          /\ settlement'[p] = IF me.own THEN me.row ELSE settlement[p]
      BY <1>0, <1>4, ZenonT(60) DEF CommitPass
    <2>2. PassOK(me, settlement[p])
      BY <1>4, <2>1, OpenPass, ZenonT(60)
    <2>3. CASE p \in StrictPools
      <3>1. PassSound(w, me)
        BY <1>4, <2>1, <2>3, OpenSound, ZenonT(60)
      <3> HIDE DEF me
      <3> QED BY <1>1, <1>4, <2>1, <3>1, ZenonT(60) DEF PassSound, me
    <2>4. CASE p \notin StrictPools
      <3>1. ~me.own
        BY <1>4, <2>2, <2>4, ZenonT(60) DEF PassOK
      <3>2. folded[p] = {}
        BY <2>4, Zenon DEF Plain
      <3> QED BY <1>1, <2>1, <3>1, <3>2, ZenonT(60)
    <2> QED BY <2>3, <2>4, ZenonT(60)
  <1>5. ASSUME NEW w \in Workers, CommitPass(w), worker[w].pool # p
        PROVE  settlement'[p] = settlement[p] /\ folded'[p] = folded[p]
    BY <1>0, <1>5, ZenonT(60) DEF CommitPass
  <1> QED BY <1>1, <1>2, <1>3, <1>4, <1>5, OnlyCommits, ZenonT(60)

\* No step of the feed or of a pass takes a pool back: its generation and its
\* frontier never fall and no costed event leaves the costs, for any number of
\* concurrent passes, backdated events and crashes.
THEOREM SettlesForward == Spec => SettlementForward
  <1>1. IInv /\ JInv /\ Plain /\ [Next]_vars =>
          [\A p \in Pools :
             /\ settlement'[p].gen >= settlement[p].gen
             /\ settlement'[p].frontier >= settlement[p].frontier
             /\ folded[p] \subseteq folded'[p]]_vars
    BY ForwardStep, Zenon
  <1> QED BY AlwaysPlain, <1>1, PTL DEF Spec, SettlementForward

\* The only step that ends a decided pass without a crash is its commit.
LEMMA DecidedCommits ==
    ASSUME IInv, [Next]_vars, NEW w \in Workers, worker[w].pc = "decided",
           worker'[w].pc = "idle", crashes' = crashes
    PROVE  CommitPass(w)
  <1>0. worker \in [Workers -> Worker] /\ crashes \in Nat /\ worker' # worker
    BY BoundsAssumption DEF IInv, TypeOK
  <1>1. ~UNCHANGED vars
    BY <1>0, Zenon DEF vars
  <1>2. ~\E p \in Pools, e \in Pos : PostLine(p, e)
    BY <1>0, Zenon DEF PostLine
  <1>3. ~(Ingest \/ FeedCrash)
    BY <1>0, Zenon DEF Ingest, FeedAnchor, FeedPeek, FeedFloors, FeedFloorRow,
       FeedBumps, FeedBumpRow, FeedMarks, FeedMarkRow, FeedCommit, FeedAdvance,
       FeedCrash
  <1>4. ~\E v \in Workers : AbortPass(v)
    BY <1>0 DEF AbortPass
  <1>5. ASSUME NEW v \in Workers, v # w, NEW me, worker' = [worker EXCEPT ![v] = me]
        PROVE  FALSE
    BY <1>0, <1>5, Zenon
  <1>6. ASSUME NEW v \in Workers, BreakDeadlock(v) PROVE FALSE
    <2>1. v # w
      BY <1>6, Zenon DEF BreakDeadlock, CrossLocked, WaitsForFeed
    <2> QED BY <1>0, <1>5, <1>6, <2>1, ZenonT(60) DEF BreakDeadlock
  <1>7. ASSUME NEW v \in Workers, Work(v), v # w PROVE FALSE
    <2>1. worker'[w] = worker[w]
      <3>1. CASE \E p \in Pools : ClaimNext(v, p) \/ ClaimPool(v, p)
        BY <1>0, <1>7, <3>1, ZenonT(60) DEF ClaimNext, ClaimPool, Begin
      <3>2. CASE Scan(v) \/ Settle(v) \/ CheckMissed(v) \/ CountTail(v) \/ DecideQueue(v)
        BY <1>7, <3>2, SamePool, ZenonT(60)
      <3>3. CASE DropQueueRow(v)
        BY <1>0, <1>7, <3>3, ZenonT(60) DEF DropQueueRow
      <3>4. CASE CommitPass(v)
        BY <1>0, <1>7, <3>4, ZenonT(60) DEF CommitPass
      <3> QED BY <1>7, <3>1, <3>2, <3>3, <3>4, ZenonT(60) DEF Work
    <2> QED BY <2>1, Zenon
  <1>8. PICK v \in Workers : Work(v)
    BY <1>1, <1>2, <1>3, <1>4, <1>6, ZenonT(60) DEF Next
  <1> QED BY <1>7, <1>8, ZenonT(60) DEF Work, ClaimNext, ClaimPool, Begin, DropQueueRow,
             Scan, Settle, CheckMissed, CountTail, DecideQueue

\* The commit of a drain leaves nothing to do but what raced it.
LEMMA DrainStep ==
    ASSUME IInv, JInv, [Next]_vars, NEW w \in Settlers \cup Sweepers,
           NEW p \in StrictPools, worker[w].pc = "decided", worker[w].pool = p,
           worker'[w].pc = "idle", crashes' = crashes
    PROVE  /\ p \notin queue'
           /\ settlement'[p].floor = 0
           /\ Delivered(p) \subseteq folded'[p] \cup raced[p]
  <1> DEFINE me == worker[w]
  <1>1. w \in Workers /\ w \notin Steppers /\ p \in Pools
    BY WorkersAssumption, PoolsAssumption, Zenon DEF Workers
  <1>2. CommitPass(w)
    BY <1>1, DecidedCommits, Zenon
  <1>3. ~Keep(me) /\ me.own \in BOOLEAN /\ PassOK(me, settlement[p])
    BY <1>1, OpenSound, OpenPass, ZenonT(60) DEF PassSound, Worker
  <1>4. /\ p \notin queue' /\ folded'[p] = me.fold
        /\ settlement'[p] = IF me.own THEN me.row ELSE settlement[p]
    BY <1>1, <1>2, <1>3, ZenonT(60) DEF CommitPass, IInv, TypeOK
  <1>5. settlement'[p].floor = 0
    <2>1. CASE me.own
      BY <1>3, <1>4, <2>1, Zenon DEF PassOK, Decision, Keep
    <2>2. CASE ~me.own
      BY <1>1, <1>3, <1>4, <2>2, ZenonT(60) DEF PassOK, Decision, IInv, RowsOK
    <2> QED BY <1>3, <2>1, <2>2, ZenonT(60)
  <1>6. ASSUME NEW e \in Delivered(p) PROVE e \in folded'[p] \cup raced[p]
    <2>1. e \in committed[p] /\ Kept(p, e)
      BY DeliveredCommitted, Zenon DEF JInv, DeliveredOK
    <2> QED BY <1>1, <1>3, <1>4, <2>1, CommitCovers, ZenonT(60)
  <1> QED BY <1>4, <1>5, <1>6, ZenonT(60)

\* Whenever recalc_drain or a sweep commits, every event the feed had delivered
\* to that pool is in its costs and nothing is left queued for it, but for the
\* events that committed inside its window.
THEOREM DrainsToHead == Spec => DrainedToHead
  <1>1. IInv /\ JInv /\ [Next]_vars =>
          [\A w \in Settlers \cup Sweepers : \A p \in StrictPools :
             worker[w].pc = "decided" /\ worker[w].pool = p
                /\ worker'[w].pc = "idle" /\ crashes' = crashes
             => /\ p \notin queue'
                /\ settlement'[p].floor = 0
                /\ Delivered(p) \subseteq folded'[p] \cup raced[p]]_vars
    BY DrainStep, Zenon
  <1> QED BY AlwaysJInv, <1>1, PTL DEF Spec, DrainedToHead
=============================================================================
