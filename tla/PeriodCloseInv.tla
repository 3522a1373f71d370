---------------------------- MODULE PeriodCloseInv ----------------------------
(***************************************************************************)
(* The inductive invariant of PeriodClose, IInv, with the facts about its  *)
(* data that every step needs: the order of positions, what a refold       *)
(* reads, which conjuncts a step that leaves their variables alone keeps.  *)
(* Then the steps of recalc passes, of submissions and of the feed         *)
(* consumer, which keep it.                                                *)
(***************************************************************************)
EXTENDS PeriodClose, TLAPS

Position == Nat \X Nat
RowType == [frontier : Position, floor : Position, folded : SUBSET Nat]
LineType == [pool : Pools, at : Dates, out : BOOLEAN]
SubType == [pc : {"line", "guard", "commit"}, at : Dates, outs : SUBSET Pools,
            todo : SUBSET Pools, held : SUBSET Pools, fence : BOOLEAN]
WorkerType == [pc : {"scanned", "write", "reconcile", "commit"}, pool : Strict,
               row : RowType, scan : SUBSET Nat, pending : SUBSET Nat,
               fence : BOOLEAN, moves : BOOLEAN]
RowMap == UNION {[S -> RowType] : S \in SUBSET Strict}
CostMap == UNION {[S -> SUBSET Nat] : S \in SUBSET Nat}
CloserType == [pc : {"lsn", "gate", "arms", "sweep", "lock", "drain"}, period : Periods,
               force : ForceArgs, baseline : Nat, lsn : Nat, lagging : BOOLEAN,
               todo : SUBSET Strict, pool : Nat, claimed : SUBSET Strict,
               inserted : SUBSET Strict, held : SUBSET Strict, swept : SUBSET Strict,
               fence : BOOLEAN, rows : RowMap, cost : CostMap, residue : SUBSET Nat]

--------------------------------------------------------------------------------
(* The inductive invariant, conjunct by conjunct.                          *)

\* Every table and every open transaction holds values of its type; a pass and
\* a sweep work on strict pools alone.
TypeOK ==
    /\ period \in [Periods -> {"open", "closing", "closed"}]
    /\ lines \in Seq(LineType)
    /\ delivered \in 0..Len(lines)
    /\ queued \subseteq Pools
    /\ row \in [Pools -> RowType]
    /\ cost \in CostMap
    /\ halted \subseteq Strict
    /\ sub \in [Submitters -> SubType \cup {Idle}]
    /\ worker \in [Workers -> WorkerType \cup {Idle}]
    /\ slot \in BOOLEAN /\ unseeded \in BOOLEAN
    /\ feed \in {"loop", "down", "fresh", "seeding"}
    /\ losses \in Nat
    /\ closer \in CloserType \cup {Idle}

\* Periods close in calendar order.
OrderOK ==
    \A p, q \in Periods :
        period[q] = "closed" /\ Calendar[p].first < Calendar[q].first
        => period[p] = "closed"

\* A settlement row's layers are lines of the pool, its frontier the last.
RowRight(q, r) ==
    /\ r.folded \subseteq LinesOf(q)
    /\ r.frontier = Never \/ \E i \in r.folded : r.frontier = Pos(i)
    /\ \A i \in r.folded : ~Before(r.frontier, Pos(i))

\* The costs c cost every depletion in the layers from the layers before it.
LayersCosted(c, r) ==
    \A i \in r.folded : lines[i].out => i \in DOMAIN c /\ c[i] = Basis(i, r.folded)

\* Only depletions in the layers of a strict pool are costed.
RowsOK ==
    /\ \A p \in Pools : RowRight(p, row[p])
    /\ \A p \in Strict : LayersCosted(cost, row[p])
    /\ \A i \in DOMAIN cost : /\ i \in Ids /\ lines[i].pool \in Strict
                              /\ i \in row[lines[i].pool].folded

\* A submission past its guard holds the fence on an open date.
SubsOK ==
    \A s \in Submitters : sub[s].pc # "idle" =>
        /\ sub[s].fence => ~ClosedThrough(sub[s].at)
        /\ sub[s].pc = "commit" => sub[s].fence
        /\ sub[s].pc # "commit" => sub[s].todo # {}

\* A worker's pool is queued and not halted, and its row has moved by floors
\* alone since the claim; its scan still lies after the row's frontier.
WorkersOK ==
    \A w \in Workers : worker[w].pc # "idle" =>
        LET W == worker[w]
            p == W.pool
        IN  /\ p \in queued \ halted
            /\ W.row.folded = row[p].folded /\ W.row.frontier = row[p].frontier
            /\ W.scan \subseteq Scan(p, W.row)
            /\ row[p].folded \subseteq Folded(W.row, W.scan)
            /\ W.pending \subseteq W.scan

\* A pass that found no divergence has none still: nothing it is to write, or
\* would find to write now, is frozen.
DetectedOK ==
    \A w \in Workers : worker[w].pc \in {"write", "reconcile", "commit"} =>
        /\ \A i \in worker[w].pending : ~Frozen(i)
        /\ ~Diverges(Pending(Costings(worker[w].row, worker[w].scan), cost))

\* Each pool is in one hand.
ClaimsOK ==
    /\ \A v, w \in Workers :
         worker[v].pc # "idle" /\ worker[w].pc # "idle" /\ worker[v].pool = worker[w].pool
         => v = w
    /\ closer.pc # "idle" =>
         /\ \A w \in Workers : worker[w].pc # "idle" => worker[w].pool \notin closer.claimed
         /\ closer.claimed \cap halted = {}

\* The close runs on the next open period.  Its baseline counts lines up to
\* its lsn alone, the sweep starts with those delivered, and with the fence no
\* submission is past its guard.
CloseOrderOK ==
    closer.pc # "idle" =>
        /\ period[closer.period] # "closed"
        /\ \A q \in Periods : Calendar[q].first < Calendar[closer.period].first
                              => period[q] = "closed"
        /\ closer.baseline <= Cardinality(
             {i \in Due(closer.period) : closer.pc = "lsn" \/ i <= closer.lsn})
        /\ closer.lsn <= Len(lines)
        /\ closer.pc = "lsn" => closer.residue = {}
        /\ closer.pc \in {"sweep", "lock", "drain"} => closer.lsn <= delivered
        /\ closer.pc \in {"lock", "drain"} => closer.pool \in closer.claimed
        /\ closer.fence => \A s \in Submitters : sub[s].pc # "idle" => ~sub[s].fence

\* The rows and costs of the close are right, extend those on record and
\* leave the frozen costs as they are.
SweptOK ==
    closer.pc # "idle" =>
        /\ closer.swept \subseteq closer.claimed /\ DOMAIN closer.rows = closer.swept
        /\ \A q \in closer.swept :
             /\ RowRight(q, closer.rows[q])
             /\ row[q].folded \subseteq closer.rows[q].folded
             /\ LayersCosted(Over(closer.cost, cost), closer.rows[q])
        /\ \A i \in DOMAIN closer.cost :
             /\ i \in Ids /\ lines[i].pool \in closer.swept
             /\ i \in closer.rows[lines[i].pool].folded
             /\ Frozen(i) => i \in DOMAIN cost /\ cost[i] = closer.cost[i]
        /\ \A i \in closer.residue : /\ i \in Ids /\ lines[i].pool \in Strict
                                     /\ losses = 0 => i > closer.lsn

\* The feed's position may lie past lines that nobody has queued.
Broken == unseeded \/ ~slot \/ feed \in {"fresh", "seeding"}

\* Unless it does, delivered lines are accounted for, and in a swept pool
\* they are in the close's layers.
AccountOK ==
    /\ losses = 0 => ~Broken
    /\ ~Broken => /\ Accounted
                  /\ closer.pc # "idle" =>
                       \A q \in closer.swept : \A i \in LinesOf(q) :
                           i > delivered \/ i \in closer.rows[q].folded

\* Only lines of strict pools are booked to residue, and none of a closed
\* period unless WAL was lost.
MisbookedOK ==
    /\ \A i \in misbooked : i \in Ids /\ lines[i].pool \in Strict
    /\ PeriodNotMisbooked

\* The inductive invariant: what the runs check of a close, with what its open
\* transactions and the passes carry.
IInv ==
    /\ TypeOK /\ OrderOK /\ RowsOK /\ SubsOK /\ WorkersOK /\ DetectedOK
    /\ ClaimsOK /\ CloseOrderOK /\ SweptOK /\ AccountOK /\ MisbookedOK
    /\ FrozenRight /\ HaltedContradicts

--------------------------------------------------------------------------------
(* Facts about the data.                                                   *)

\* What the steps need to know of finite sets.  PeriodCloseProofs shows it from
\* the library's theorems, which the modules of the steps do not have to carry.
FiniteFacts ==
    /\ \A n \in Nat : IsFiniteSet(1..n)
    /\ \A T : IsFiniteSet(T) =>
         /\ Cardinality(T) \in Nat
         /\ \A S \in SUBSET T : /\ IsFiniteSet(S)
                                /\ Cardinality(S) <= Cardinality(T)
                                /\ Cardinality(S) = Cardinality(T) => S = T
    /\ \A S, R :
         /\ IsFiniteSet(S) /\ S # {}
         /\ \A x, y \in S : x # y => <<x, y>> \in R \/ <<y, x>> \in R
         /\ \A x, y, z \in S : <<x, y>> \in R /\ <<y, z>> \in R => <<x, z>> \in R
         => \E x \in S : \A y \in S : x = y \/ <<x, y>> \in R

\* The least of a finite set of numbers is one of them.
LEMMA MinIn ==
    ASSUME FiniteFacts, NEW S \in SUBSET Nat, IsFiniteSet(S), S # {}
    PROVE  Min(S) \in S
  <1> DEFINE R == {z \in S \X S : z[1] < z[2]}
  <1>1. \A x, y \in S : <<x, y>> \in R <=> x < y
    BY Zenon
  <1> HIDE DEF R
  <1>2. \E x \in S : \A y \in S : x = y \/ <<x, y>> \in R
    <2>1. \A x, y \in S : x # y => <<x, y>> \in R \/ <<y, x>> \in R
      BY <1>1
    <2>2. \A x, y, z \in S : <<x, y>> \in R /\ <<y, z>> \in R => <<x, z>> \in R
      BY <1>1
    <2> QED BY <2>1, <2>2, ZenonT(60) DEF FiniteFacts
  <1>3. \E x \in S : \A y \in S : x <= y
    <2>1. PICK x \in S : \A y \in S : x = y \/ <<x, y>> \in R
      BY <1>2, Zenon
    <2>2. \A y \in S : x = y \/ x < y
      BY <1>1, <2>1, Zenon
    <2> QED BY <2>2
  <1> QED BY <1>3, Zenon DEF Min

\* Positions are ordered: first by date, then by line.
LEMMA BeforeOrder ==
    ASSUME NEW a \in Position, NEW b \in Position, NEW c \in Position
    PROVE  /\ ~Before(a, a)
           /\ Before(a, b) => ~Before(b, a)
           /\ Before(a, b) \/ a = b \/ Before(b, a)
           /\ Before(a, b) /\ Before(b, c) => Before(a, c)
           /\ Before(a, b) /\ ~Before(c, b) => Before(a, c)
           /\ ~Before(b, a) /\ Before(b, c) => Before(a, c)
           /\ ~Before(b, a) /\ ~Before(c, b) => ~Before(c, a)
           /\ Before(a, b) => a[1] <= b[1]
  BY DEF Before, Position

\* What the type of the lines says of one line.
LEMMA LineFacts ==
    ASSUME TypeOK
    PROVE  /\ Len(lines) \in Nat /\ Ids \subseteq Nat
           /\ \A i \in Ids : /\ lines[i] \in LineType
                             /\ Pos(i) \in Position /\ Pos(i) # Never
                             /\ Before(Never, Pos(i))
           /\ \A i, j \in Ids : Pos(i) = Pos(j) => i = j
           /\ Never \in Position
  <1>1. Len(lines) \in Nat /\ \A i \in Ids : lines[i] \in LineType
    BY DEF TypeOK, Ids
  <1>3. Dates \subseteq Nat \ {0}
    BY CloseAssumption, Zenon
  <1>4. \A i \in Ids : lines[i].at \in Nat \ {0} /\ i \in Nat \ {0}
    <2> TAKE i \in Ids
    <2>1. lines[i] \in LineType
      BY <1>1, Zenon
    <2>2. lines[i].at \in Dates
      BY <2>1, Zenon DEF LineType
    <2>3. i \in Nat \ {0}
      BY <1>1 DEF Ids
    <2> QED BY <1>3, <2>2, <2>3, Zenon
  <1> QED BY <1>1, <1>4 DEF Pos, Position, Never, Before, Ids

\* What the feed has delivered is a prefix of the log.
LEMMA DeliveredFacts ==
    ASSUME TypeOK
    PROVE  delivered \in Nat /\ delivered <= Len(lines)
  BY LineFacts DEF TypeOK

\* There are finitely many lines.
LEMMA LinesFinite ==
    ASSUME FiniteFacts, TypeOK, NEW S \in SUBSET Ids
    PROVE  IsFiniteSet(S) /\ Cardinality(S) \in Nat
  <1>1. Len(lines) \in Nat
    BY LineFacts, Zenon
  <1>2. IsFiniteSet(Ids)
    BY <1>1, Zenon DEF FiniteFacts, Ids
  <1> QED BY <1>2, Zenon DEF FiniteFacts

\* Every non-empty set of lines has a first and a last one.
LEMMA EndsOf ==
    ASSUME FiniteFacts, TypeOK, NEW S \in SUBSET Ids, S # {}
    PROVE  /\ Earliest(S) \in S
           /\ Latest(S) \in S
           /\ \A j \in S : Latest(S) = j \/ Before(Pos(j), Pos(Latest(S)))
  <1>1. /\ IsFiniteSet(S)
        /\ \A i \in S : Pos(i) \in Position
        /\ \A i, j \in S : Pos(i) = Pos(j) => i = j
    BY LineFacts, LinesFinite, Zenon
  <1>2. \A x, y, z \in S :
          /\ Before(Pos(x), Pos(y)) \/ x = y \/ Before(Pos(y), Pos(x))
          /\ Before(Pos(x), Pos(y)) /\ Before(Pos(y), Pos(z)) => Before(Pos(x), Pos(z))
    BY <1>1, BeforeOrder
  <1>3. \E i \in S : \A j \in S : i = j \/ Before(Pos(i), Pos(j))
    <2> DEFINE R == {z \in S \X S : Before(Pos(z[1]), Pos(z[2]))}
    <2>1. \A x, y \in S : <<x, y>> \in R <=> Before(Pos(x), Pos(y))
      BY Zenon
    <2> HIDE DEF R
    <2>2. \A x, y \in S : x # y => <<x, y>> \in R \/ <<y, x>> \in R
      BY <1>2, <2>1, Zenon
    <2>3. \A x, y, z \in S : <<x, y>> \in R /\ <<y, z>> \in R => <<x, z>> \in R
      BY <1>2, <2>1, Zenon
    <2>4. \E x \in S : \A y \in S : x = y \/ <<x, y>> \in R
      BY <1>1, <2>2, <2>3, ZenonT(60) DEF FiniteFacts
    <2> QED BY <2>1, <2>4, Zenon
  <1>4. \E i \in S : \A j \in S : i = j \/ Before(Pos(j), Pos(i))
    <2> DEFINE R == {z \in S \X S : Before(Pos(z[2]), Pos(z[1]))}
    <2>1. \A x, y \in S : <<x, y>> \in R <=> Before(Pos(y), Pos(x))
      BY Zenon
    <2> HIDE DEF R
    <2>2. \A x, y \in S : x # y => <<x, y>> \in R \/ <<y, x>> \in R
      BY <1>2, <2>1, Zenon
    <2>3. \A x, y, z \in S : <<x, y>> \in R /\ <<y, z>> \in R => <<x, z>> \in R
      BY <1>2, <2>1, Zenon
    <2>4. \E x \in S : \A y \in S : x = y \/ <<x, y>> \in R
      BY <1>1, <2>2, <2>3, ZenonT(60) DEF FiniteFacts
    <2> QED BY <2>1, <2>4, Zenon
  <1>5. Earliest(S) \in S
    BY <1>3, Zenon DEF Earliest
  <1>6. Latest(S) \in S /\ \A j \in S : Latest(S) = j \/ Before(Pos(j), Pos(Latest(S)))
    BY <1>4, Zenon DEF Latest
  <1> QED BY <1>5, <1>6, Zenon

\* The empty map is a map of costs and of rows.
LEMMA EmptyMap == Empty \in CostMap /\ Empty \in RowMap /\ DOMAIN Empty = {}
  <1>1. Empty \in [{} -> SUBSET Nat] /\ Empty \in [{} -> RowType] /\ DOMAIN Empty = {}
    BY Zenon DEF Empty
  <1>2. {} \in SUBSET Nat /\ {} \in SUBSET Strict
    BY Zenon
  <1> HIDE DEF Empty
  <1> QED BY <1>1, <1>2, Zenon DEF CostMap, RowMap

\* What a map holds under another.
LEMMA OverFacts ==
    ASSUME NEW f \in CostMap, NEW g \in CostMap
    PROVE  /\ Over(f, g) \in CostMap
           /\ DOMAIN Over(f, g) = DOMAIN f \cup DOMAIN g
           /\ \A i \in DOMAIN f : Over(f, g)[i] = f[i]
           /\ \A i \in DOMAIN g : i \notin DOMAIN f => Over(f, g)[i] = g[i]
  <1>1. PICK S \in SUBSET Nat : f \in [S -> SUBSET Nat]
    BY Zenon DEF CostMap
  <1>2. PICK T \in SUBSET Nat : g \in [T -> SUBSET Nat]
    BY Zenon DEF CostMap
  <1>3. Over(f, g) \in [S \cup T -> SUBSET Nat]
    BY <1>1, <1>2, Zenon DEF Over
  <1>4. S \cup T \in SUBSET Nat
    BY Zenon
  <1>5. Over(f, g) \in CostMap
    BY <1>3, <1>4, Zenon DEF CostMap
  <1> QED BY <1>1, <1>2, <1>5, Zenon DEF Over

\* The costings of a pass.
LEMMA CostingsFacts ==
    ASSUME TypeOK, NEW r \in RowType, NEW scan \in SUBSET Ids, r.folded \subseteq Ids
    PROVE  /\ Costings(r, scan) \in CostMap
           /\ DOMAIN Costings(r, scan) = {j \in scan : lines[j].out}
           /\ \A i \in scan : lines[i].out =>
                Costings(r, scan)[i] = Basis(i, Folded(r, scan))
  <1> DEFINE D == {j \in scan : lines[j].out}
  <1>1. D \in SUBSET Nat /\ Ids \subseteq Nat
    BY LineFacts, Zenon
  <1>2. Folded(r, scan) \in SUBSET Nat
    BY <1>1, ZenonT(60) DEF Folded
  <1>3. Costings(r, scan) \in [D -> SUBSET Nat]
    BY <1>2, Zenon DEF Costings, Basis
  <1>4. Costings(r, scan) \in CostMap
    BY <1>1, <1>3, Zenon DEF CostMap
  <1> QED BY <1>4, Zenon DEF Costings

\* A pass from row r over lines past its frontier leaves a right row whose
\* layers are the ones it folded.
LEMMA Refold ==
    ASSUME FiniteFacts, TypeOK, NEW p \in Pools, NEW r \in RowType, RowRight(p, r),
           NEW scan \in SUBSET Scan(p, r), r.folded \subseteq Folded(r, scan),
           NEW now \in RowType, now.frontier = r.frontier, now.folded = r.folded
    PROVE  /\ Settled(now, r, scan) \in RowType
           /\ RowRight(p, Settled(now, r, scan))
           /\ Settled(now, r, scan).folded = Folded(r, scan)
           /\ Settled(now, r, scan).frontier = Frontier(r, scan)
           /\ Folded(r, scan) \subseteq LinesOf(p)
           /\ scan \subseteq LinesOf(p)
  <1> DEFINE t == Settled(now, r, scan)
  <1>1. /\ scan \subseteq LinesOf(p) /\ LinesOf(p) \subseteq Ids
        /\ r.folded \subseteq LinesOf(p)
    BY Zenon DEF Scan, LinesOf, RowRight
  <1>2. Folded(r, scan) \subseteq LinesOf(p)
    BY <1>1, Zenon DEF Folded
  <1>3. r.frontier \in Position /\ r.floor \in Position /\ now.floor \in Position
    BY Zenon DEF RowType
  <1>4. Frontier(r, scan) \in Position /\ (scan # {} => Frontier(r, scan) # Never)
    BY <1>1, <1>3, EndsOf, LineFacts, Zenon DEF Frontier
  <1>5. \A i \in scan : ~Before(Frontier(r, scan), Pos(i))
    <2>1. SUFFICES ASSUME NEW i \in scan PROVE ~Before(Pos(Latest(scan)), Pos(i))
      BY <2>1, Zenon DEF Frontier
    <2>2. Latest(scan) = i \/ Before(Pos(i), Pos(Latest(scan)))
      BY <1>1, EndsOf, Zenon
    <2>3. Latest(scan) \in Ids /\ i \in Ids
      BY <1>1, EndsOf, Zenon
    <2> QED BY <2>2, <2>3, LineFacts, BeforeOrder, Zenon
  <1>6. \A i \in Folded(r, scan) : ~Before(Frontier(r, scan), Pos(i))
    <2>1. SUFFICES ASSUME NEW i \in r.folded, ~FullReplay(r)
                   PROVE ~Before(Frontier(r, scan), Pos(i))
      BY <1>5, <2>1, Zenon DEF Folded
    <2>2. ~Before(r.frontier, Pos(i))
      BY Zenon DEF RowRight
    <2>3. CASE scan = {}
      BY <2>2, <2>3, Zenon DEF Frontier
    <2>4. CASE scan # {}
      <3>1. Latest(scan) \in scan /\ Latest(scan) \in Ids /\ i \in Ids
        BY <1>1, <2>4, EndsOf, Zenon
      <3>2. Before(r.frontier, Pos(Latest(scan)))
        BY <2>1, <3>1, Zenon DEF Scan, ScanFrom
      <3>3. ~Before(Pos(Latest(scan)), Pos(i))
        BY <1>3, <2>2, <3>1, <3>2, LineFacts, BeforeOrder, Zenon
      <3> QED BY <2>4, <3>3, Zenon DEF Frontier
    <2> QED BY <2>3, <2>4, Zenon
  <1>7. CASE Frontier(r, scan) = Never
    <2>1. scan = {} /\ r.frontier = Never /\ t = now
      BY <1>4, <1>7, Zenon DEF Frontier, Settled
    <2>2. r.folded = {}
      <3>1. SUFFICES ASSUME NEW i \in r.folded PROVE FALSE
        BY Zenon
      <3>2. Before(Never, Pos(i)) /\ ~Before(r.frontier, Pos(i))
        BY <1>1, LineFacts, Zenon DEF RowRight
      <3> QED BY <2>1, <3>2, Zenon
    <2>3. Folded(r, scan) = {}
      BY <2>1, <2>2, Zenon DEF Folded
    <2> QED BY <1>1, <1>2, <1>7, <2>1, <2>2, <2>3, Zenon DEF RowRight
  <1>8. CASE Frontier(r, scan) # Never
    <2>1. /\ t.frontier = Frontier(r, scan) /\ t.folded = Folded(r, scan)
          /\ t = [frontier |-> t.frontier, folded |-> t.folded, floor |-> t.floor]
          /\ t.floor \in {Never, now.floor}
      BY <1>8, Zenon DEF Settled
    <2>2. t \in RowType
      BY <1>1, <1>2, <1>3, <1>4, <2>1, LineFacts, ZenonT(60) DEF RowType
    <2>3. \E i \in Folded(r, scan) : Frontier(r, scan) = Pos(i)
      <3>1. CASE scan = {}
        <4>1. r.frontier # Never
          BY <1>8, <3>1, Zenon DEF Frontier
        <4>2. PICK i \in r.folded : r.frontier = Pos(i)
          BY <4>1, Zenon DEF RowRight
        <4> QED BY <3>1, <4>2, Zenon DEF Frontier
      <3>2. CASE scan # {}
        BY <1>1, <3>2, EndsOf, Zenon DEF Frontier, Folded
      <3> QED BY <3>1, <3>2, Zenon
    <2>4. RowRight(p, t)
      BY <1>2, <1>6, <2>1, <2>3, Zenon DEF RowRight
    <2> QED BY <1>1, <1>2, <2>1, <2>2, <2>4, Zenon
  <1> QED BY <1>7, <1>8, Zenon

\* The pass costs its layers: those it scanned anew, the others as before,
\* since everything it scanned comes after them.
LEMMA RefoldCosts ==
    ASSUME TypeOK, NEW p \in Pools, NEW r \in RowType, RowRight(p, r),
           NEW scan \in SUBSET Scan(p, r), r.folded \subseteq Folded(r, scan),
           NEW c \in CostMap, LayersCosted(c, r),
           NEW i \in Folded(r, scan), lines[i].out
    PROVE  /\ i \in DOMAIN Over(Costings(r, scan), c)
           /\ Over(Costings(r, scan), c)[i] = Basis(i, Folded(r, scan))
  <1>1. scan \subseteq Ids /\ r.folded \subseteq Ids
    BY Zenon DEF Scan, LinesOf, RowRight
  <1> DEFINE new == Costings(r, scan)
  <1>4. /\ new \in CostMap /\ DOMAIN new = {j \in scan : lines[j].out}
        /\ \A j \in scan : lines[j].out => new[j] = Basis(j, Folded(r, scan))
    BY <1>1, CostingsFacts, Zenon
  <1>5. /\ DOMAIN Over(new, c) = DOMAIN new \cup DOMAIN c
        /\ \A j \in DOMAIN new : Over(new, c)[j] = new[j]
        /\ \A j \in DOMAIN c : j \notin DOMAIN new => Over(new, c)[j] = c[j]
    BY <1>4, OverFacts, ZenonT(60)
  <1> HIDE DEF new
  <1>2. CASE i \in scan
    <2>1. i \in DOMAIN new
      BY <1>2, <1>4, Zenon
    <2> QED BY <1>2, <1>4, <1>5, <2>1, Zenon DEF new
  <1>3. CASE i \notin scan
    <2>1. i \in r.folded /\ ~FullReplay(r)
      BY <1>3, Zenon DEF Folded
    <2>2. i \in DOMAIN c /\ c[i] = Basis(i, r.folded)
      BY <2>1, Zenon DEF LayersCosted
    <2>3. \A j \in scan : ~Before(Pos(j), Pos(i))
      <3>1. TAKE j \in scan
      <3>2. ~Before(r.frontier, Pos(i)) /\ Before(r.frontier, Pos(j))
        BY <2>1, Zenon DEF RowRight, Scan, ScanFrom
      <3>3. r.frontier \in Position /\ Pos(i) \in Position /\ Pos(j) \in Position
        BY <1>1, <2>1, LineFacts, Zenon DEF RowType
      <3> QED BY <3>2, <3>3, BeforeOrder, Zenon
    <2>4. Basis(i, Folded(r, scan)) = Basis(i, r.folded)
      BY <2>1, <2>3, Zenon DEF Basis, Folded
    <2>5. i \notin DOMAIN new
      BY <1>3, <1>4, Zenon
    <2> QED BY <1>5, <2>2, <2>4, <2>5, Zenon DEF new
  <1> QED BY <1>2, <1>3, Zenon

--------------------------------------------------------------------------------
(* A conjunct stands when the variables it reads do.                       *)

\* Layers read the lines, the settlement rows and the costs.
LEMMA FrameRows == RowsOK /\ UNCHANGED <<lines, row, cost>> => RowsOK'
  BY DEF RowsOK, RowRight, LayersCosted, LinesOf, Ids, Pos, Basis

\* The calendar order of closes reads the period statuses.
LEMMA FrameOrder == OrderOK /\ UNCHANGED period => OrderOK'
  BY Zenon DEF OrderOK

\* A submission's guard reads the periods and the submission.
LEMMA FrameSubs == SubsOK /\ UNCHANGED <<period, sub>> => SubsOK'
  BY Zenon DEF SubsOK, ClosedThrough

\* A pass's snapshot reads its pool's queue row, settlement row and lines.
LEMMA FrameWorkers ==
    WorkersOK /\ UNCHANGED <<worker, queued, halted, row, lines>> => WorkersOK'
  BY SMTT(60) DEF WorkersOK, Scan, ScanFrom, FullReplay, Folded, LinesOf, Ids, Pos

\* The detector's verdict reads what is frozen and what is costed.
LEMMA FrameDetected ==
    DetectedOK /\ UNCHANGED <<worker, period, lines, cost>> => DetectedOK'
  <1>1. ASSUME UNCHANGED <<worker, lines>>
        PROVE  \A w \in Workers : Costings(worker[w].row, worker[w].scan)'
                                  = Costings(worker[w].row, worker[w].scan)
    BY <1>1, ZenonT(60) DEF Costings, Basis, Folded, FullReplay, Pos
  <1> QED BY <1>1, Zenon DEF DetectedOK, Diverges, Pending, Frozen, ClosedThrough

\* The claims read the passes, the close and the halted pools.
LEMMA FrameClaims == ClaimsOK /\ UNCHANGED <<worker, closer, halted>> => ClaimsOK'
  BY Zenon DEF ClaimsOK

\* The phases of a close read the lines, the feed's position and the
\* submissions.
LEMMA FrameClose ==
    CloseOrderOK /\ UNCHANGED <<closer, period, lines, delivered, sub>> => CloseOrderOK'
  BY Zenon DEF CloseOrderOK, Due, Ids, EndOf

\* The sweep's rows are compared with those on record.
LEMMA FrameSwept ==
    SweptOK /\ UNCHANGED <<closer, lines, row, cost, period, losses>> => SweptOK'
  <1> SUFFICES ASSUME SweptOK, UNCHANGED <<closer, lines, row, cost, period, losses>>
               PROVE  SweptOK'
    BY Zenon
  <1>1. Over(closer.cost, cost)' = Over(closer.cost, cost)
    BY Zenon DEF Over
  <1>2. \A q : /\ RowRight(q, closer.rows[q])' = RowRight(q, closer.rows[q])
               /\ LayersCosted(Over(closer.cost, cost), closer.rows[q])'
                    = LayersCosted(Over(closer.cost, cost), closer.rows[q])
    BY <1>1, ZenonT(60) DEF RowRight, LayersCosted, LinesOf, Ids, Pos, Basis
  <1> QED BY <1>2, Zenon DEF SweptOK, Ids, Frozen, ClosedThrough

\* What is accounted for reads the feed, the queue and the rows.
LEMMA FrameAccount ==
    AccountOK /\ UNCHANGED <<process, lines, row, queued, closer>> => AccountOK'
  BY DEF AccountOK, Broken, Accounted, LinesOf, Ids, Pos, process

\* The residue's bookings read the period statuses and the losses.
LEMMA FrameMisbooked ==
    MisbookedOK /\ UNCHANGED <<misbooked, lines, period, losses>> => MisbookedOK'
  BY Zenon DEF MisbookedOK, PeriodNotMisbooked, Ids, Frozen, ClosedThrough

\* The frozen costs read the lines, the periods and the costs.
LEMMA FrameFrozen ==
    FrozenRight /\ UNCHANGED <<losses, lines, period, cost>> => FrozenRight'
  BY DEF FrozenRight, StrictOuts, RightlyCosted, Ids, Frozen, ClosedThrough, Basis,
         LinesOf, Pos

\* A halt's cause reads the lines, the periods and the costs.
LEMMA FrameHalted ==
    HaltedContradicts /\ UNCHANGED <<halted, lines, period, cost>> => HaltedContradicts'
  BY SMTT(60) DEF HaltedContradicts, StrictOuts, RightlyCosted, Ids, Frozen,
     ClosedThrough, Basis,
         LinesOf, Pos

--------------------------------------------------------------------------------
(* The initial state.                                                      *)

\* An empty database with a live slot satisfies the invariant.
LEMMA InitIInv == Init => IInv
  <1> SUFFICES ASSUME Init PROVE IInv
    BY Zenon
  <1>1. Ids = {} /\ \A q : LinesOf(q) = {}
    BY DEF Init, Ids, LinesOf
  <1>2. TypeOK
    <2>1. Never \in Position
      BY Zenon DEF Never, Position
    <2>2. row \in [Pools -> RowType]
      BY <2>1, Zenon DEF Init, RowType
    <2>3. lines \in Seq(LineType) /\ delivered \in 0..Len(lines)
      BY DEF Init
    <2>4. cost \in CostMap
      BY EmptyMap, Zenon DEF Init
    <2> QED BY <2>2, <2>3, <2>4, Zenon DEF Init, TypeOK
  <1>3. OrderOK /\ SubsOK /\ WorkersOK /\ DetectedOK /\ ClaimsOK
    BY Zenon DEF Init, OrderOK, SubsOK, WorkersOK, DetectedOK, ClaimsOK, Idle
  <1>4. CloseOrderOK /\ SweptOK
    BY Zenon DEF Init, CloseOrderOK, SweptOK, Idle
  <1>5. RowsOK
    <2>1. DOMAIN cost = {} /\ \A p \in Pools : row[p].folded = {} /\ row[p].frontier = Never
      BY EmptyMap, Zenon DEF Init
    <2>2. Strict \subseteq Pools
      BY CloseAssumption, Zenon
    <2> QED BY <2>1, <2>2, Zenon DEF RowsOK, RowRight, LayersCosted
  <1>6. AccountOK
    BY <1>1, Zenon DEF Init, AccountOK, Broken, Accounted, Idle
  <1>7. MisbookedOK /\ FrozenRight /\ HaltedContradicts
    BY SMTT(60) DEF Init, MisbookedOK, PeriodNotMisbooked, FrozenRight, StrictOuts, Ids,
           HaltedContradicts
  <1> QED BY <1>2, <1>3, <1>4, <1>5, <1>6, <1>7, Zenon DEF IInv

--------------------------------------------------------------------------------
(* What the invariant says of an open pass, of the feed and of the close.  *)

\* What the invariant says of a worker's pass, spelled out once.
LEMMA PassFacts ==
    ASSUME IInv, NEW w \in Workers, worker[w].pc # "idle"
    PROVE  /\ worker[w] \in WorkerType /\ worker[w].pool \in Strict
           /\ worker[w].pool \in Pools /\ worker[w].row \in RowType
           /\ worker[w].scan \subseteq Ids /\ worker[w].row.folded \subseteq Ids
           /\ worker[w].scan \subseteq LinesOf(worker[w].pool)
           /\ worker[w].scan \subseteq Scan(worker[w].pool, worker[w].row)
           /\ row[worker[w].pool] \in RowType
           /\ RowRight(worker[w].pool, worker[w].row)
  <1>1. worker[w] \in WorkerType
    BY DEF IInv, TypeOK, Idle
  <1>2. worker[w].pool \in Strict /\ worker[w].pool \in Pools /\ worker[w].row \in RowType
    BY <1>1, CloseAssumption, ZenonT(60) DEF WorkerType
  <1>3. worker[w].scan \subseteq Scan(worker[w].pool, worker[w].row)
    BY Zenon DEF IInv, WorkersOK
  <1>4. RowRight(worker[w].pool, row[worker[w].pool])
    BY <1>2, Zenon DEF IInv, RowsOK
  <1>5. RowRight(worker[w].pool, worker[w].row)
    BY <1>4, Zenon DEF IInv, WorkersOK, RowRight
  <1>6. row[worker[w].pool] \in RowType
    BY <1>2, Zenon DEF IInv, TypeOK
  <1> QED BY <1>1, <1>2, <1>3, <1>5, <1>6, Zenon DEF Scan, LinesOf, RowRight

\* A floor is only ever lowered, never cleared, and nothing else moves.
LEMMA LowerFacts ==
    ASSUME TypeOK, NEW r \in RowType, NEW i \in Ids
    PROVE  /\ Lower(r, i) \in RowType
           /\ Lower(r, i).frontier = r.frontier /\ Lower(r, i).folded = r.folded
           /\ Lower(r, i).floor # Never
  <1>1. Pos(i) \in Position /\ Pos(i) # Never
    BY LineFacts, Zenon
  <1>2. CASE r.floor = Never \/ Before(Pos(i), r.floor)
    <2>1. Lower(r, i) = [r EXCEPT !.floor = Pos(i)]
      BY <1>2, Zenon DEF Lower
    <2> QED BY <1>1, <2>1, Zenon DEF RowType
  <1>3. CASE ~(r.floor = Never \/ Before(Pos(i), r.floor))
    BY <1>3, Zenon DEF Lower
  <1> QED BY <1>2, <1>3, Zenon

\* A pass over everything past the frontier folds at least the old layers.
LEMMA ScanFacts ==
    ASSUME TypeOK, NEW p \in Pools, NEW r \in RowType, RowRight(p, r)
    PROVE  /\ Scan(p, r) \subseteq LinesOf(p) /\ Scan(p, r) \in SUBSET Nat
           /\ r.folded \subseteq Folded(r, Scan(p, r))
           /\ FullReplay(r) => Scan(p, r) = LinesOf(p)
  <1>1. Scan(p, r) \subseteq LinesOf(p) /\ Scan(p, r) \in SUBSET Nat
    BY LineFacts, Zenon DEF Scan, LinesOf
  <1>2. FullReplay(r) => Scan(p, r) = LinesOf(p)
    BY LineFacts, Zenon DEF Scan, ScanFrom, LinesOf
  <1> QED BY <1>1, <1>2, Zenon DEF Folded, RowRight

\* The types of a running close.
LEMMA CloserFacts ==
    ASSUME IInv, closer.pc # "idle"
    PROVE  /\ closer \in CloserType /\ closer.cost \in CostMap /\ closer.rows \in RowMap
           /\ closer.swept \subseteq Strict /\ closer.swept \subseteq Pools
           /\ closer.claimed \subseteq Strict /\ closer.todo \subseteq Strict
           /\ closer.period \in Periods /\ closer.lsn \in Nat /\ closer.baseline \in Nat
           /\ \A q \in closer.swept : closer.rows[q] \in RowType
  <1>1. closer \in CloserType
    BY DEF IInv, TypeOK, Idle
  <1>2. /\ closer.cost \in CostMap /\ closer.rows \in RowMap
        /\ closer.swept \subseteq Strict /\ closer.todo \subseteq Strict
        /\ closer.claimed \subseteq Strict
        /\ closer.period \in Periods /\ closer.lsn \in Nat /\ closer.baseline \in Nat
    BY <1>1, Zenon DEF CloserType
  <1>3. DOMAIN closer.rows = closer.swept
    BY Zenon DEF IInv, SweptOK
  <1>4. \A q \in closer.swept : closer.rows[q] \in RowType
    BY <1>2, <1>3, Zenon DEF RowMap
  <1> QED BY <1>1, <1>2, <1>4, CloseAssumption, Zenon

\* Costings at or before the closed frontier are those on record.
LEMMA FrozenCosts ==
    ASSUME NEW new \in CostMap, NEW c \in CostMap, ~Diverges(Pending(new, c)),
           NEW i, Frozen(i)
    PROVE  /\ i \in DOMAIN Over(new, c) <=> i \in DOMAIN c
           /\ i \in DOMAIN c => Over(new, c)[i] = c[i]
  <1>1. i \in DOMAIN new => i \in DOMAIN c /\ c[i] = new[i]
    BY Zenon DEF Diverges, Pending
  <1>2. /\ DOMAIN Over(new, c) = DOMAIN new \cup DOMAIN c
        /\ i \in DOMAIN new => Over(new, c)[i] = new[i]
        /\ i \in DOMAIN c /\ i \notin DOMAIN new => Over(new, c)[i] = c[i]
    BY OverFacts, ZenonT(60)
  <1> QED BY <1>1, <1>2, Zenon

--------------------------------------------------------------------------------
(* Recalc passes up to their commit.                                       *)

\* A step of a pass that writes nothing but its own state has its own snapshot,
\* verdict and claim to keep.
LEMMA WorkerStep ==
    ASSUME IInv, UNCHANGED <<ledger, engine, process, sub, closer, misbooked>>,
           worker' \in [Workers -> WorkerType \cup {Idle}],
           WorkersOK', DetectedOK', ClaimsOK'
    PROVE  IInv'
  <1>1. TypeOK'
    BY Zenon DEF IInv, TypeOK, ledger, engine, process
  <1>2. OrderOK' /\ RowsOK' /\ SubsOK' /\ CloseOrderOK'
    BY FrameOrder, FrameRows, FrameSubs, FrameClose, Zenon DEF IInv, ledger, engine,
       process
  <1>3. SweptOK' /\ AccountOK' /\ MisbookedOK'
    BY FrameSwept, FrameAccount, FrameMisbooked, Zenon DEF IInv, ledger, engine, process
  <1>4. FrozenRight' /\ HaltedContradicts'
    BY FrameFrozen, FrameHalted, Zenon DEF IInv, ledger, engine, process
  <1> QED BY <1>1, <1>2, <1>3, <1>4, Zenon DEF IInv

\* A claim locks a queued pool that no other pass, no sweep and no halt has.
LEMMA WorkerClaimKeeps ==
    ASSUME IInv, NEW w \in Workers, NEW p \in Pools, WorkerClaim(w, p)
    PROVE  IInv'
  <1> DEFINE new == [pc |-> "scanned", pool |-> p, row |-> row[p],
                     scan |-> Scan(p, row[p]), pending |-> {},
                     fence |-> FALSE, moves |-> FALSE]
  <1>1. /\ p \in queued /\ p \in Strict /\ p \notin halted
        /\ \A v \in Workers : ~WorkerClaims(v, p)
        /\ ~CloserClaims(p)
        /\ worker' = [worker EXCEPT ![w] = new]
        /\ UNCHANGED <<ledger, engine, process, sub, closer, misbooked>>
    BY Zenon DEF WorkerClaim
  <1>2. row[p] \in RowType /\ RowRight(p, row[p])
    BY Zenon DEF IInv, TypeOK, RowsOK
  <1>3. Scan(p, row[p]) \in SUBSET Nat /\ row[p].folded \subseteq Folded(row[p], Scan(p, row[p]))
    BY <1>2, ScanFacts, Zenon DEF IInv
  <1>4. new \in WorkerType
    BY <1>1, <1>2, <1>3, Zenon DEF WorkerType
  <1>5. worker \in [Workers -> WorkerType \cup {Idle}]
    BY Zenon DEF IInv, TypeOK
  <1>6. worker' \in [Workers -> WorkerType \cup {Idle}]
    BY <1>1, <1>4, <1>5, Zenon
  <1>7. \A v \in Workers : worker'[v] = IF v = w THEN new ELSE worker[v]
    BY <1>1, <1>5, Zenon
  <1>8. /\ new.pc = "scanned" /\ new.pool = p /\ new.row = row[p]
        /\ new.scan = Scan(p, row[p]) /\ new.pending = {}
    BY Zenon
  <1> HIDE DEF new
  <1>9. UNCHANGED <<period, lines, row, cost, queued, halted, closer>>
    BY <1>1, Zenon DEF ledger, engine
  <1>10. WorkersOK'
    <2>1. ASSUME NEW v \in Workers, worker'[v].pc # "idle"
          PROVE  LET W == worker'[v]
                 IN  /\ W.pool \in queued \ halted
                     /\ W.row.folded = row[W.pool].folded
                     /\ W.row.frontier = row[W.pool].frontier
                     /\ W.scan \subseteq Scan(W.pool, W.row)
                     /\ row[W.pool].folded \subseteq Folded(W.row, W.scan)
                     /\ W.pending \subseteq W.scan
      <3>1. CASE v = w
        BY <1>1, <1>3, <1>7, <1>8, <3>1, ZenonT(60)
      <3>2. CASE v # w
        BY <1>7, <2>1, <3>2, Zenon DEF IInv, WorkersOK
      <3> QED BY <3>1, <3>2, Zenon
    <2> QED BY <1>9, <2>1, ZenonT(60) DEF WorkersOK, Scan, ScanFrom, FullReplay, Folded,
               LinesOf, Ids, Pos
  <1>11. DetectedOK'
    <2>1. ASSUME NEW v \in Workers, worker'[v].pc \in {"write", "reconcile", "commit"}
          PROVE  v # w /\ worker'[v] = worker[v]
      BY <1>7, <1>8, <2>1, Zenon
    <2>2. \A r, scan : Costings(r, scan)' = Costings(r, scan)
      BY <1>9, ZenonT(60) DEF Costings, Basis, Folded, FullReplay, Pos
    <2> QED BY <1>9, <2>1, <2>2 DEF IInv, DetectedOK, Diverges, Pending, Frozen,
               ClosedThrough
  <1>12. ClaimsOK'
    BY <1>1, <1>7, <1>8, <1>9 DEF IInv, ClaimsOK, WorkerClaims, CloserClaims
  <1> QED BY <1>1, <1>6, <1>10, <1>11, <1>12, WorkerStep, Zenon

\* A pool of another method loses its queue row; no pass works on it.
LEMMA WorkerSkipKeeps ==
    ASSUME IInv, NEW p \in Pools, WorkerSkip(p)
    PROVE  IInv'
  <1>1. /\ p \notin Strict /\ queued' = queued \ {p}
        /\ UNCHANGED <<period, lines, row, cost, halted, process, sub, worker, closer,
                       misbooked>>
    BY Zenon DEF WorkerSkip, ledger
  <1>2. UNCHANGED <<slot, delivered, feed, losses, unseeded>>
    BY <1>1, Zenon DEF process
  <1>3. TypeOK'
    BY <1>1, <1>2, Zenon DEF IInv, TypeOK
  <1>4. OrderOK' /\ RowsOK' /\ SubsOK' /\ DetectedOK' /\ ClaimsOK'
    BY <1>1, FrameOrder, FrameRows, FrameSubs, FrameDetected, FrameClaims, Zenon DEF IInv
  <1>5. CloseOrderOK' /\ SweptOK' /\ MisbookedOK' /\ FrozenRight' /\ HaltedContradicts'
    BY <1>1, <1>2, FrameClose, FrameSwept, FrameMisbooked, FrameFrozen, FrameHalted, Zenon
       DEF IInv
  <1>6. WorkersOK'
    <2>1. \A w \in Workers : worker[w].pc # "idle" => worker[w].pool # p
      BY <1>1, PassFacts, Zenon
    <2> QED BY <1>1, <2>1, ZenonT(60)
            DEF IInv, WorkersOK, Scan, ScanFrom, FullReplay, Folded, LinesOf, Ids, Pos
  <1>7. AccountOK'
    <2>1. (Broken' <=> Broken) /\ (Accounted => Accounted')
      BY <1>1, <1>2, Zenon DEF Broken, Accounted, LinesOf, Ids, Pos
    <2> QED BY <1>1, <1>2, <2>1, Zenon DEF IInv, AccountOK, LinesOf, Ids
  <1> QED BY <1>3, <1>4, <1>5, <1>6, <1>7, Zenon DEF IInv

\* A worker that gives up, or goes on with the pass it has.
LEMMA WorkerMoved ==
    ASSUME IInv, NEW w \in Workers, NEW new, worker' = [worker EXCEPT ![w] = new],
           \/ new = Idle
           \/ /\ new \in WorkerType /\ worker[w].pc \in {"write", "reconcile", "commit"}
              /\ new.pool = worker[w].pool /\ new.row = worker[w].row
              /\ new.scan = worker[w].scan /\ new.pending = worker[w].pending
    PROVE  /\ worker' \in [Workers -> WorkerType \cup {Idle}]
           /\ UNCHANGED <<lines, row, queued, halted>> => WorkersOK'
           /\ UNCHANGED <<lines, period, cost>> => DetectedOK'
           /\ UNCHANGED <<closer, halted>> => ClaimsOK'
  <1>1. worker \in [Workers -> WorkerType \cup {Idle}]
    BY Zenon DEF IInv, TypeOK
  <1>2. worker' \in [Workers -> WorkerType \cup {Idle}]
    BY <1>1, Zenon
  <1>3. \A v \in Workers : worker'[v] = IF v = w THEN new ELSE worker[v]
    BY <1>1, Zenon
  <1>4. ASSUME NEW v \in Workers, worker'[v].pc # "idle"
        PROVE  /\ worker[v].pc # "idle"
               /\ worker'[v].pool = worker[v].pool /\ worker'[v].row = worker[v].row
               /\ worker'[v].scan = worker[v].scan /\ worker'[v].pending = worker[v].pending
               /\ worker'[v].pc \in {"write", "reconcile", "commit"} =>
                    worker[v].pc \in {"write", "reconcile", "commit"}
    <2>1. Idle.pc = "idle"
      BY Zenon DEF Idle
    <2>2. CASE v # w
      BY <1>3, <1>4, <2>2, Zenon
    <2>3. CASE v = w
      BY <1>3, <1>4, <2>1, <2>3, Zenon
    <2> QED BY <2>2, <2>3, Zenon
  <1>5. ASSUME UNCHANGED <<lines, row, queued, halted>> PROVE WorkersOK'
    <2>1. \A q, r : Scan(q, r)' = Scan(q, r)
      BY <1>5, Zenon DEF Scan, LinesOf, Ids, Pos
    <2>2. ASSUME NEW v \in Workers, worker'[v].pc # "idle"
          PROVE  LET W == worker'[v]
                     p == W.pool
                 IN  /\ p \in queued' \ halted'
                     /\ W.row.folded = row'[p].folded /\ W.row.frontier = row'[p].frontier
                     /\ W.scan \subseteq Scan(p, W.row)
                     /\ row'[p].folded \subseteq Folded(W.row, W.scan)
                     /\ W.pending \subseteq W.scan
      BY <1>4, <1>5, <2>2, ZenonT(60) DEF IInv, WorkersOK
    <2> QED BY <2>1, <2>2, ZenonT(60) DEF WorkersOK
  <1>6. ASSUME UNCHANGED <<lines, period, cost>> PROVE DetectedOK'
    <2>1. \A r, scan : Costings(r, scan)' = Costings(r, scan)
      BY <1>6, ZenonT(60) DEF Costings, Basis, Folded, FullReplay, Pos
    <2> QED BY <1>4, <1>6, <2>1, SMTT(60)
            DEF IInv, DetectedOK, Diverges, Pending, Frozen, ClosedThrough
  <1>7. ASSUME UNCHANGED <<closer, halted>> PROVE ClaimsOK'
    BY <1>4, <1>7 DEF IInv, ClaimsOK
  <1> QED BY <1>2, <1>5, <1>6, <1>7, Zenon

\* The guarded cost writes take the fence, or roll the pass back.
LEMMA WorkerWriteKeeps ==
    ASSUME IInv, NEW w \in Workers, NEW moves \in BOOLEAN, WorkerWrite(w, moves)
    PROVE  IInv'
  <1> DEFINE on == [worker[w] EXCEPT !.fence = TRUE,
                                     !.pc = IF moves THEN "reconcile" ELSE "commit"]
             new == IF Rejected(w) THEN Idle ELSE on
  <1>1. /\ worker[w].pc = "write" /\ worker' = [worker EXCEPT ![w] = new]
        /\ UNCHANGED <<ledger, engine, process, sub, closer, misbooked>>
    BY Zenon DEF WorkerWrite
  <1>2. worker[w] \in WorkerType
    BY <1>1, PassFacts, Zenon
  <1>3. /\ on \in WorkerType
        /\ on.pool = worker[w].pool /\ on.row = worker[w].row
        /\ on.scan = worker[w].scan /\ on.pending = worker[w].pending
    BY <1>2, Zenon DEF WorkerType
  <1> HIDE DEF on
  <1>4. UNCHANGED <<lines, period, cost, row, queued, halted, closer>>
    BY <1>1, Zenon DEF ledger, engine
  <1>5. /\ worker' \in [Workers -> WorkerType \cup {Idle}]
        /\ WorkersOK' /\ DetectedOK' /\ ClaimsOK'
    BY <1>1, <1>3, <1>4, WorkerMoved, Zenon
  <1> QED BY <1>1, <1>5, WorkerStep, Zenon

\* The reconcile locks the pool's aggregate.
LEMMA WorkerReconcileKeeps ==
    ASSUME IInv, NEW w \in Workers, WorkerReconcile(w)
    PROVE  IInv'
  <1> DEFINE new == [worker[w] EXCEPT !.pc = "commit", !.moves = TRUE]
  <1>1. /\ worker[w].pc = "reconcile" /\ worker' = [worker EXCEPT ![w] = new]
        /\ UNCHANGED <<ledger, engine, process, sub, closer, misbooked>>
    BY Zenon DEF WorkerReconcile
  <1>2. worker[w] \in WorkerType
    BY <1>1, PassFacts, Zenon
  <1>3. /\ new \in WorkerType
        /\ new.pool = worker[w].pool /\ new.row = worker[w].row
        /\ new.scan = worker[w].scan /\ new.pending = worker[w].pending
    BY <1>2, Zenon DEF WorkerType
  <1> HIDE DEF new
  <1>4. UNCHANGED <<lines, period, cost, row, queued, halted, closer>>
    BY <1>1, Zenon DEF ledger, engine
  <1>5. /\ worker' \in [Workers -> WorkerType \cup {Idle}]
        /\ WorkersOK' /\ DetectedOK' /\ ClaimsOK'
    BY <1>1, <1>3, <1>4, WorkerMoved, ZenonT(60)
  <1> QED BY <1>1, <1>5, WorkerStep, Zenon

\* The detector halts the pool when a frozen cost would move, and lets the
\* pass go on when none would.
LEMMA WorkerDetectKeeps ==
    ASSUME IInv, NEW w \in Workers, WorkerDetect(w)
    PROVE  IInv'
  <1> DEFINE W == worker[w]
             p == W.pool
             new == Costings(W.row, W.scan)
             pending == Pending(new, cost)
  <1>1. /\ W.pc = "scanned" /\ W.pc # "idle"
        /\ UNCHANGED <<ledger, row, cost, queued, process, sub, closer, misbooked>>
    BY Zenon DEF WorkerDetect, Escalate
  <1>2. /\ W \in WorkerType /\ p \in Strict /\ p \in Pools /\ W.row \in RowType
        /\ W.scan \subseteq Ids /\ W.row.folded \subseteq Ids /\ W.scan \subseteq LinesOf(p)
    BY <1>1, PassFacts, Zenon
  <1>3. /\ new \in CostMap /\ DOMAIN new = {j \in W.scan : lines[j].out}
        /\ \A i \in DOMAIN new : new[i] = Basis(i, Folded(W.row, W.scan))
    BY <1>2, CostingsFacts, ZenonT(60) DEF IInv
  <1>4. UNCHANGED <<period, lines>> /\ pending \subseteq W.scan
    BY <1>1, <1>3, Zenon DEF ledger, Pending
  <1>5. CASE Diverges(pending)
    <2>1. halted' = halted \cup {p} /\ worker' = [worker EXCEPT ![w] = Idle]
      BY <1>5, Zenon DEF WorkerDetect, Escalate
    <2>2. worker' \in [Workers -> WorkerType \cup {Idle}] /\ DetectedOK'
      BY <1>1, <1>4, <2>1, WorkerMoved, Zenon
    <2>3. TypeOK'
      BY <1>1, <1>2, <1>4, <2>1, <2>2, ZenonT(60) DEF IInv, TypeOK, process
    <2>4. OrderOK' /\ RowsOK' /\ SubsOK' /\ CloseOrderOK'
      BY <1>1, <1>4, FrameOrder, FrameRows, FrameSubs, FrameClose, ZenonT(60)
         DEF IInv, process
    <2>5. SweptOK' /\ AccountOK' /\ MisbookedOK' /\ FrozenRight'
      BY <1>1, <1>4, FrameSwept, FrameAccount, FrameMisbooked, FrameFrozen, Zenon
         DEF IInv, process
    <2>6. \A v \in Workers : worker'[v] = IF v = w THEN Idle ELSE worker[v]
      BY <2>1, Zenon DEF IInv, TypeOK
    <2>7. \A v \in Workers : worker'[v].pc # "idle" =>
            /\ worker'[v] = worker[v] /\ worker[v].pc # "idle" /\ worker[v].pool # p
      <3>1. Idle.pc = "idle"
        BY Zenon DEF Idle
      <3> QED BY <1>1, <2>6, <3>1, ZenonT(60) DEF IInv, ClaimsOK
    <2>8. WorkersOK'
      BY <1>1, <1>4, <2>1, <2>7, SMTT(90)
         DEF IInv, WorkersOK, Scan, ScanFrom, FullReplay, Folded, LinesOf, Ids, Pos
    <2>9. ClaimsOK'
      BY <1>1, <2>1, <2>7 DEF IInv, ClaimsOK
    <2>10. HaltedContradicts'
      <3>1. PICK i \in pending : Frozen(i)
        BY <1>5, Zenon DEF Diverges
      <3>2. i \in W.scan /\ lines[i].out /\ lines[i].pool = p /\ i \in StrictOuts
        BY <1>2, <1>3, Zenon DEF Pending, LinesOf, StrictOuts
      <3>3. ~RightlyCosted(i)
        <4>1. SUFFICES ASSUME i \in DOMAIN cost, cost[i] = Basis(i, LinesOf(p)) PROVE FALSE
          BY <3>2, Zenon DEF RightlyCosted
        <4>2. i \in row[p].folded
          BY <3>2, <4>1, Zenon DEF IInv, RowsOK
        <4>3. cost[i] = Basis(i, row[p].folded)
          BY <1>2, <3>2, <4>2, Zenon DEF IInv, RowsOK, LayersCosted
        <4>4. /\ row[p].folded \subseteq Folded(W.row, W.scan)
              /\ W.row.folded = row[p].folded
          BY <1>1, Zenon DEF IInv, WorkersOK
        <4>5. Folded(W.row, W.scan) \subseteq LinesOf(p)
          BY <1>1, <1>2, PassFacts, Zenon DEF Folded, RowRight
        <4>6. new[i] = Basis(i, Folded(W.row, W.scan))
          BY <1>3, Zenon DEF Pending
        <4>7. Basis(i, Folded(W.row, W.scan)) = Basis(i, LinesOf(p))
          BY <4>1, <4>3, <4>4, <4>5, Zenon DEF Basis
        <4> QED BY <4>1, <4>6, <4>7, Zenon DEF Pending
      <3>4. \A j : /\ RightlyCosted(j)' = RightlyCosted(j) /\ Frozen(j)' = Frozen(j)
                   /\ (j \in StrictOuts)' = (j \in StrictOuts)
        BY <1>1, <1>4, Zenon DEF RightlyCosted, Frozen, ClosedThrough, StrictOuts, Ids,
           Basis,
                          LinesOf, Pos
      <3> QED BY <1>4, <2>1, <3>1, <3>2, <3>3, <3>4, Zenon DEF IInv, HaltedContradicts
    <2> QED BY <2>2, <2>3, <2>4, <2>5, <2>8, <2>9, <2>10, Zenon DEF IInv
  <1>6. CASE ~Diverges(pending)
    <2> DEFINE on == [W EXCEPT !.pending = pending,
                               !.pc = IF pending = {} THEN "commit" ELSE "write"]
    <2>1. worker' = [worker EXCEPT ![w] = on] /\ UNCHANGED halted
      BY <1>6, ZenonT(60) DEF WorkerDetect
    <2>2. UNCHANGED <<ledger, engine, process, sub, closer, misbooked>>
      BY <1>1, <2>1, Zenon DEF engine
    <2>3. pending \in SUBSET Nat
      BY <1>2, <1>4, LineFacts, Zenon DEF IInv
    <2>4. /\ on \in WorkerType /\ on.pending = pending
          /\ on.pool = p /\ on.row = W.row /\ on.scan = W.scan
      BY <1>2, <2>3, Zenon DEF WorkerType
    <2> HIDE DEF on
    <2>5. worker' \in [Workers -> WorkerType \cup {Idle}]
      BY <2>1, <2>4, Zenon DEF IInv, TypeOK
    <2>6. \A v \in Workers : worker'[v] = IF v = w THEN on ELSE worker[v]
      BY <2>1, ZenonT(60) DEF IInv, TypeOK
    <2>7. WorkersOK'
      <3>1. ASSUME NEW v \in Workers, worker'[v].pc # "idle"
            PROVE  /\ worker[v].pc # "idle" /\ worker'[v].pool = worker[v].pool
                   /\ worker'[v].row = worker[v].row /\ worker'[v].scan = worker[v].scan
                   /\ worker'[v].pending \subseteq worker'[v].scan
        <4>1. CASE v = w
          BY <1>1, <1>4, <2>4, <2>6, <4>1, Zenon
        <4>2. CASE v # w
          BY <2>6, <3>1, <4>2, Zenon DEF IInv, WorkersOK
        <4> QED BY <4>1, <4>2, Zenon
      <3> QED BY <1>1, <1>4, <2>1, <3>1, SMTT(90)
              DEF IInv, WorkersOK, Scan, ScanFrom, FullReplay, Folded, LinesOf, Ids, Pos
    <2>8. DetectedOK'
      <3>1. \A r, scan : Costings(r, scan)' = Costings(r, scan)
        BY <1>4, ZenonT(60) DEF Costings, Basis, Folded, FullReplay, Pos
      <3>3. ASSUME NEW v \in Workers, worker'[v].pc \in {"write", "reconcile", "commit"}
            PROVE  /\ \A i \in worker'[v].pending : ~Frozen(i)
                   /\ ~Diverges(Pending(Costings(worker'[v].row, worker'[v].scan), cost))
        <4>1. CASE v = w
          BY <1>6, <2>4, <2>6, <4>1, Zenon DEF Diverges
        <4>2. CASE v # w
          BY <2>6, <3>3, <4>2, Zenon DEF IInv, DetectedOK
        <4> QED BY <4>1, <4>2, Zenon
      <3> QED BY <1>1, <1>4, <3>1, <3>3, ZenonT(60)
              DEF DetectedOK, Diverges, Pending, Frozen, ClosedThrough
    <2>9. ClaimsOK'
      BY <1>1, <2>1, <2>4, <2>6, SMTT(60) DEF IInv, ClaimsOK
    <2> QED BY <2>2, <2>5, <2>7, <2>8, <2>9, WorkerStep, Zenon
  <1> QED BY <1>5, <1>6, Zenon

--------------------------------------------------------------------------------
(* A pass commits.                                                         *)

\* The row and the costs the pass leaves.
LEMMA CommitFacts ==
    ASSUME FiniteFacts, IInv, NEW w \in Workers, WorkerCommit(w)
    PROVE  LET p == worker[w].pool
               F == Folded(worker[w].row, worker[w].scan)
               new == Costings(worker[w].row, worker[w].scan)
           IN  /\ row' = [row EXCEPT ![p] = row'[p]] /\ row'[p] \in RowType
               /\ RowRight(p, row'[p]) /\ row'[p].folded = F
               /\ row[p].folded \subseteq F /\ F \subseteq LinesOf(p)
               /\ row'[p].frontier = Settled(row[p], worker[w].row, worker[w].scan).frontier
               /\ new \in CostMap
               /\ DOMAIN new = {i \in worker[w].scan : lines[i].out}
               /\ DOMAIN new \subseteq F
               /\ cost' = Over(new, cost)
               /\ LayersCosted(cost', row'[p])
               /\ ~Diverges(Pending(new, cost))
  <1> DEFINE W == worker[w]
             p == W.pool
             F == Folded(W.row, W.scan)
             new == Costings(W.row, W.scan)
             settled == Settled(row[p], W.row, W.scan)
             missed == {i \in LinesOf(p) \ W.scan :
                          /\ Before(ScanFrom(W.row), Pos(i))
                          /\ ~Before(settled.frontier, Pos(i))}
             final == IF missed = {} THEN settled ELSE Lower(settled, Earliest(missed))
  <1>1. /\ W.pc = "commit" /\ row' = [row EXCEPT ![p] = final] /\ cost' = Over(new, cost)
    BY ZenonT(60) DEF WorkerCommit
  <1>2. /\ p \in Strict /\ p \in Pools /\ W.row \in RowType
        /\ W.scan \subseteq Ids /\ W.row.folded \subseteq Ids
        /\ W.scan \subseteq Scan(p, W.row)
        /\ row[p] \in RowType /\ RowRight(p, W.row)
    BY <1>1, PassFacts, ZenonT(60)
  <1>3. /\ W.row.folded = row[p].folded /\ W.row.frontier = row[p].frontier
        /\ row[p].folded \subseteq F
    BY <1>1, ZenonT(60) DEF IInv, WorkersOK
  <1>4. /\ settled \in RowType /\ RowRight(p, settled) /\ settled.folded = F
        /\ F \subseteq LinesOf(p)
    BY <1>2, <1>3, Refold, SMTT(90) DEF IInv
  <1>5. missed \subseteq Ids
    BY Zenon DEF LinesOf
  <1> HIDE DEF settled, missed
  <1>6. /\ final \in RowType /\ final.frontier = settled.frontier
        /\ final.folded = settled.folded
    BY <1>4, <1>5, EndsOf, LowerFacts, Zenon DEF IInv
  <1> HIDE DEF final
  <1>7. row' = [row EXCEPT ![p] = row'[p]] /\ row'[p] = final
    BY <1>1, <1>2, ZenonT(60) DEF IInv, TypeOK
  <1>8. RowRight(p, final)
    BY <1>4, <1>6, Zenon DEF RowRight
  <1>9. new \in CostMap /\ DOMAIN new = {i \in W.scan : lines[i].out}
    BY <1>2, CostingsFacts, Zenon DEF IInv
  <1>10. DOMAIN new \subseteq F
    BY <1>9, Zenon DEF Folded
  <1>11. LayersCosted(cost, W.row) /\ cost \in CostMap
    BY <1>2, <1>3, ZenonT(60) DEF IInv, RowsOK, LayersCosted, TypeOK
  <1>12. LayersCosted(cost', row'[p])
    <2>1. \A i \in F : lines[i].out =>
            i \in DOMAIN Over(new, cost) /\ Over(new, cost)[i] = Basis(i, F)
      BY <1>2, <1>3, <1>11, RefoldCosts, SMTT(90) DEF IInv
    <2> QED BY <1>1, <1>4, <1>6, <1>7, <2>1 DEF LayersCosted
  <1>13. ~Diverges(Pending(new, cost))
    BY <1>1, Zenon DEF IInv, DetectedOK
  <1> QED BY <1>1, <1>3, <1>4, <1>6, <1>7, <1>8, <1>9, <1>10, <1>12, <1>13, ZenonT(60)
             DEF settled

\* Accounted lines stay accounted: what the pass did not fold is past its
\* frontier, behind a floor it left or lowered, or not delivered.
LEMMA CommitAccounts ==
    ASSUME FiniteFacts, IInv, NEW w \in Workers, WorkerCommit(w), Accounted
    PROVE  Accounted'
  <1> DEFINE W == worker[w]
             p == W.pool
             F == Folded(W.row, W.scan)
             settled == Settled(row[p], W.row, W.scan)
             missed == {i \in LinesOf(p) \ W.scan :
                          /\ Before(ScanFrom(W.row), Pos(i))
                          /\ ~Before(settled.frontier, Pos(i))}
  <1>1. /\ W.pc = "commit"
        /\ row' = [row EXCEPT ![p] = IF missed = {} THEN settled
                                     ELSE Lower(settled, Earliest(missed))]
        /\ queued' = IF \/ row'[p].floor # Never
                        \/ \E i \in LinesOf(p) : Before(settled.frontier, Pos(i))
                     THEN queued ELSE queued \ {p}
        /\ UNCHANGED <<lines, delivered>>
    BY ZenonT(60) DEF WorkerCommit, ledger, process
  <1>2. /\ p \in Pools /\ row[p] \in RowType /\ p \in queued
        /\ W.row.frontier = row[p].frontier /\ W.row.folded = row[p].folded
    BY <1>1, PassFacts, ZenonT(60) DEF IInv, WorkersOK
  <1>3. row'[p].folded = F /\ row'[p].frontier = settled.frontier
    BY CommitFacts, ZenonT(60)
  <1>4. \A q \in Pools : q # p => row'[q] = row[q]
    BY <1>1, ZenonT(60) DEF IInv, TypeOK
  <1>5. row'[p] = IF missed = {} THEN settled ELSE Lower(settled, Earliest(missed))
    BY <1>1, <1>2, ZenonT(60) DEF IInv, TypeOK
  <1>6. settled \in RowType
    BY <1>1, <1>2, PassFacts, Refold, ZenonT(60) DEF IInv, WorkersOK
  <1>7. missed # {} => row'[p].floor # Never
    <2>1. missed \subseteq Ids
      BY Zenon DEF LinesOf
    <2> HIDE DEF missed, settled
    <2> QED BY <1>5, <1>6, <2>1, EndsOf, LowerFacts, SMTT(60) DEF IInv
  <1>8. settled.floor # Never => row'[p].floor # Never
    <2>1. CASE missed = {}
      BY <1>5, <2>1, ZenonT(60)
    <2>2. CASE missed # {}
      BY <1>7, <2>2, ZenonT(60)
    <2> QED BY <2>1, <2>2, ZenonT(60)
  <1>9. ASSUME NEW i \in LinesOf(p), i <= delivered, i \notin F,
               ~Before(settled.frontier, Pos(i))
        PROVE  row'[p].floor # Never
    <2>1. i \notin W.scan
      BY <1>9, Zenon DEF Folded
    <2>2. CASE i \in Scan(p, W.row)
      <3>1. i \in missed
        BY <1>9, <2>1, <2>2, Zenon DEF Scan
      <3> QED BY <1>7, <3>1, Zenon
    <2>3. CASE i \notin Scan(p, W.row)
      <3>1. ~FullReplay(W.row)
        BY <1>1, <2>3, PassFacts, ScanFacts, ZenonT(60) DEF IInv
      <3>2. i \notin row[p].folded
        BY <1>2, <1>9, <3>1, ZenonT(60) DEF Folded
      <3>3. ~Before(row[p].frontier, Pos(i))
        BY <1>2, <2>3, <3>1, ZenonT(60) DEF Scan, ScanFrom
      <3>4. i \in Nat /\ delivered \in Nat /\ p \in Strict
        BY <1>1, <1>9, PassFacts, LineFacts, DeliveredFacts, Zenon DEF IInv, LinesOf
      <3>5. row[p].floor # Never
        BY <1>9, <3>2, <3>3, <3>4, SMTT(90) DEF Accounted
      <3>6. W.row.floor = Never /\ W.row.frontier # Never
        BY <3>1, ZenonT(60) DEF FullReplay
      <3>7. Frontier(W.row, W.scan) # Never
        <4>1. W.scan \subseteq Ids
          BY <1>1, PassFacts, ZenonT(60)
        <4>2. W.scan # {} => Pos(Latest(W.scan)) # Never
          BY <4>1, EndsOf, LineFacts, Zenon DEF IInv
        <4> QED BY <3>6, <4>2, Zenon DEF Frontier
      <3>8. settled.floor = row[p].floor
        BY <3>5, <3>6, <3>7, Zenon DEF Settled
      <3> QED BY <1>8, <3>5, <3>8, Zenon
    <2> QED BY <2>2, <2>3, Zenon
  <1> HIDE DEF settled, F, missed
  <1>10. ASSUME NEW q \in Strict, NEW i \in LinesOf(q)
         PROVE  \/ i > delivered
                \/ i \in row'[q].folded
                \/ q \in queued' /\ (row'[q].floor # Never \/ Before(row'[q].frontier, Pos(i)))
    <2>1. i \in Nat /\ delivered \in Nat /\ q \in Pools
      BY CloseAssumption, LineFacts, DeliveredFacts, Zenon DEF IInv, LinesOf
    <2>2. CASE q = p
      BY <1>1, <1>2, <1>3, <1>9, <2>1, <2>2, SMTT(90)
    <2>3. CASE q # p
      BY <1>1, <1>4, <2>1, <2>3, Zenon DEF Accounted
    <2> QED BY <2>2, <2>3, Zenon
  <1> QED BY <1>1, <1>10, Zenon DEF Accounted, LinesOf, Ids, Pos

\* The commit publishes the refold: its layers are costed, no frozen cost
\* moves, and what was delivered stays accounted for.
LEMMA WorkerCommitKeeps ==
    ASSUME FiniteFacts, IInv, NEW w \in Workers, WorkerCommit(w)
    PROVE  IInv'
  <1> DEFINE W == worker[w]
             p == W.pool
             F == Folded(W.row, W.scan)
             new == Costings(W.row, W.scan)
  <1>1. /\ W.pc = "commit" /\ W.pc # "idle" /\ worker' = [worker EXCEPT ![w] = Idle]
        /\ queued' \in {queued, queued \ {p}}
        /\ UNCHANGED <<period, lines, halted, process, sub, closer, misbooked>>
    BY Zenon DEF WorkerCommit, ledger
  <1>u. UNCHANGED <<slot, delivered, feed, losses, unseeded>>
    BY <1>1, Zenon DEF process
  <1>2. /\ p \in Strict /\ p \in Pools /\ W.scan \subseteq LinesOf(p)
    BY <1>1, PassFacts, ZenonT(60)
  <1>3. /\ row' = [row EXCEPT ![p] = row'[p]] /\ row'[p] \in RowType
        /\ RowRight(p, row'[p]) /\ row'[p].folded = F
        /\ row[p].folded \subseteq F /\ F \subseteq LinesOf(p)
        /\ new \in CostMap /\ DOMAIN new = {i \in W.scan : lines[i].out}
        /\ DOMAIN new \subseteq F
        /\ cost' = Over(new, cost)
        /\ LayersCosted(cost', row'[p])
        /\ ~Diverges(Pending(new, cost))
    BY CommitFacts, ZenonT(60)
  <1> HIDE DEF F, new
  <1>4. row' \in [Pools -> RowType] /\ \A q \in Pools : q # p => row'[q] = row[q]
    BY <1>2, <1>3, ZenonT(60) DEF IInv, TypeOK
  <1>5. cost \in CostMap
    BY Zenon DEF IInv, TypeOK
  <1>6. /\ cost' \in CostMap /\ DOMAIN cost' = DOMAIN new \cup DOMAIN cost
        /\ \A i \in DOMAIN cost : i \notin DOMAIN new => cost'[i] = cost[i]
    <2>1. /\ Over(new, cost) \in CostMap
          /\ DOMAIN Over(new, cost) = DOMAIN new \cup DOMAIN cost
          /\ \A i \in DOMAIN cost : i \notin DOMAIN new => Over(new, cost)[i] = cost[i]
      BY <1>3, <1>5, OverFacts, ZenonT(60)
    <2> QED BY <1>3, <2>1, ZenonT(60)
  <1>7. \A i : Frozen(i) => /\ i \in DOMAIN cost' <=> i \in DOMAIN cost
                            /\ i \in DOMAIN cost => cost'[i] = cost[i]
    BY <1>3, <1>5, FrozenCosts, SMTT(90)
  <1>8. \A i : (i \in Ids => lines[i].pool # p) =>
               /\ i \in DOMAIN cost' <=> i \in DOMAIN cost
               /\ i \in DOMAIN cost => cost'[i] = cost[i]
    BY <1>3, <1>6, Zenon DEF LinesOf
  <1>9. \A v \in Workers : worker'[v] = IF v = w THEN Idle ELSE worker[v]
    BY <1>1, Zenon DEF IInv, TypeOK
  <1>10. \A v \in Workers : worker'[v].pc # "idle" =>
           /\ worker'[v] = worker[v] /\ worker[v].pc # "idle" /\ worker[v].pool # p
    BY <1>1, <1>9, SMTT(90) DEF IInv, ClaimsOK, Idle
  <1>11. TypeOK'
    <2>1. worker' \in [Workers -> WorkerType \cup {Idle}]
      BY <1>1, WorkerMoved, ZenonT(60)
    <2> QED BY <1>1, <1>u, <1>4, <1>6, <2>1, Zenon DEF IInv, TypeOK
  <1>12. OrderOK' /\ SubsOK' /\ CloseOrderOK' /\ MisbookedOK'
    BY <1>1, <1>u, FrameOrder, FrameSubs, FrameClose, FrameMisbooked, ZenonT(60) DEF IInv
  <1>13. RowsOK'
    <2>1. \A q \in Pools : RowRight(q, row'[q])
      BY <1>3, <1>4, Zenon DEF IInv, RowsOK
    <2>2. ASSUME NEW q \in Strict PROVE LayersCosted(cost', row'[q])
      <3>1. CASE q = p
        BY <1>3, <3>1, ZenonT(60)
      <3>2. CASE q # p
        <4>1. q \in Pools
          BY CloseAssumption, Zenon
        <4>2. row'[q] = row[q] /\ LayersCosted(cost, row[q]) /\ RowRight(q, row[q])
          BY <1>4, <3>2, <4>1, Zenon DEF IInv, RowsOK
        <4>3. \A i \in row[q].folded : i \in Ids /\ lines[i].pool # p
          BY <3>2, <4>2, Zenon DEF RowRight, LinesOf
        <4> QED BY <1>8, <4>2, <4>3, Zenon DEF LayersCosted
      <3> QED BY <3>1, <3>2, ZenonT(60)
    <2>3. ASSUME NEW i \in DOMAIN cost'
          PROVE  i \in Ids /\ lines[i].pool \in Strict /\ i \in row'[lines[i].pool].folded
      <3>1. CASE i \in DOMAIN new
        BY <1>2, <1>3, <3>1, ZenonT(60) DEF LinesOf
      <3>2. CASE i \in DOMAIN cost
        <4>1. i \in Ids /\ lines[i].pool \in Strict /\ i \in row[lines[i].pool].folded
          BY <3>2, ZenonT(60) DEF IInv, RowsOK
        <4> QED BY <1>3, <1>4, <4>1, CloseAssumption, ZenonT(60)
      <3> QED BY <1>6, <3>1, <3>2, Zenon
    <2> QED BY <1>1, <2>1, <2>2, <2>3, SMTT(90)
            DEF RowsOK, RowRight, LayersCosted, LinesOf, Ids, Pos, Basis
  <1>14. WorkersOK'
    <2>1. \A v \in Workers : worker'[v].pc # "idle" =>
            /\ row'[worker[v].pool] = row[worker[v].pool]
            /\ worker[v].pool \in queued' <=> worker[v].pool \in queued
      BY <1>1, <1>4, <1>10, PassFacts, Zenon
    <2> QED BY <1>1, <1>10, <2>1, SMTT(90)
            DEF IInv, WorkersOK, Scan, ScanFrom, FullReplay, Folded, LinesOf, Ids, Pos
  <1>15. DetectedOK'
    <2>1. ASSUME NEW v \in Workers, worker'[v].pc \in {"write", "reconcile", "commit"}
          PROVE  /\ \A i \in worker'[v].pending : ~Frozen(i)
                 /\ ~Diverges(Pending(Costings(worker'[v].row, worker'[v].scan), cost'))
      <3>1. worker'[v] = worker[v] /\ worker[v].pc # "idle" /\ worker[v].pool # p
        BY <1>10, <2>1, Zenon
      <3> DEFINE his == Costings(worker[v].row, worker[v].scan)
      <3>2. /\ \A i \in worker[v].pending : ~Frozen(i)
            /\ ~Diverges(Pending(his, cost))
        BY <2>1, <3>1, Zenon DEF IInv, DetectedOK
      <3>3. \A i \in DOMAIN his : i \in Ids /\ lines[i].pool # p
        <4>1. worker[v].scan \subseteq LinesOf(worker[v].pool)
          BY <3>1, PassFacts, Zenon
        <4>2. DOMAIN his \subseteq worker[v].scan
          BY Zenon DEF Costings
        <4> QED BY <3>1, <4>1, <4>2, Zenon DEF LinesOf
      <3>4. Pending(his, cost') = Pending(his, cost)
        BY <1>8, <3>3, Zenon DEF Pending
      <3> QED BY <3>1, <3>2, <3>4, Zenon
    <2>2. \A r, scan : Costings(r, scan)' = Costings(r, scan)
      BY <1>1, ZenonT(60) DEF Costings, Basis, Folded, FullReplay, Pos
    <2> QED BY <1>1, <2>1, <2>2, ZenonT(60) DEF DetectedOK, Diverges, Pending, Frozen,
               ClosedThrough
  <1>16. ClaimsOK'
    BY <1>1, WorkerMoved, Zenon
  <1>17. SweptOK'
    <2>1. SUFFICES ASSUME closer.pc # "idle" PROVE SweptOK'
      BY <1>1, Zenon DEF SweptOK
    <2>2. p \notin closer.claimed /\ closer.swept \subseteq closer.claimed
      BY <1>1, <2>1, ZenonT(60) DEF IInv, ClaimsOK, SweptOK
    <2>3. closer.swept \subseteq Pools
      BY <2>1, CloserFacts, Zenon
    <2>4. ASSUME NEW q \in closer.swept
          PROVE  /\ RowRight(q, closer.rows[q])
                 /\ row'[q].folded \subseteq closer.rows[q].folded
                 /\ LayersCosted(Over(closer.cost, cost'), closer.rows[q])
      <3>1. /\ RowRight(q, closer.rows[q])
            /\ row[q].folded \subseteq closer.rows[q].folded
            /\ LayersCosted(Over(closer.cost, cost), closer.rows[q])
        BY <2>1, ZenonT(60) DEF IInv, SweptOK
      <3>2. q # p /\ row'[q] = row[q]
        BY <1>4, <2>2, <2>3, Zenon
      <3>3. \A i \in closer.rows[q].folded : i \in Ids /\ lines[i].pool # p
        BY <3>1, <3>2, Zenon DEF RowRight, LinesOf
      <3>4. \A i \in closer.rows[q].folded :
              /\ i \in DOMAIN Over(closer.cost, cost') <=> i \in DOMAIN Over(closer.cost, cost)
              /\ i \in DOMAIN Over(closer.cost, cost) =>
                   Over(closer.cost, cost')[i] = Over(closer.cost, cost)[i]
        BY <1>8, <3>3, Zenon DEF Over
      <3> QED BY <3>1, <3>2, <3>4, Zenon DEF LayersCosted
    <2>5. ASSUME NEW i \in DOMAIN closer.cost
          PROVE  /\ i \in Ids /\ lines[i].pool \in closer.swept
                 /\ i \in closer.rows[lines[i].pool].folded
                 /\ Frozen(i) => i \in DOMAIN cost' /\ cost'[i] = closer.cost[i]
      BY <1>7, <2>1, <2>5, ZenonT(60) DEF IInv, SweptOK
    <2>6. \A i \in closer.residue : /\ i \in Ids /\ lines[i].pool \in Strict
                                    /\ losses = 0 => i > closer.lsn
      BY <2>1, Zenon DEF IInv, SweptOK
    <2>7. closer.swept \subseteq closer.claimed /\ DOMAIN closer.rows = closer.swept
      BY <2>1, Zenon DEF IInv, SweptOK
    <2>8. closer' = closer
      BY <1>1, ZenonT(60)
    <2>9. ASSUME NEW q \in closer.swept
          PROVE  /\ RowRight(q, closer.rows[q])'
                 /\ LayersCosted(Over(closer.cost, cost), closer.rows[q])'
      <3>1. Over(closer.cost, cost)' = Over(closer.cost, cost')
        BY <2>8, Zenon DEF Over
      <3> QED BY <1>1, <2>4, <2>8, <3>1, SMTT(90) DEF RowRight, LayersCosted, LinesOf,
                 Ids, Pos, Basis
    <2> QED BY <1>1, <1>u, <2>4, <2>5, <2>6, <2>7, <2>8, <2>9, ZenonT(60)
            DEF SweptOK, Ids, Frozen, ClosedThrough
  <1>18. AccountOK'
    <2>1. Broken' <=> Broken
      BY <1>u, Zenon DEF Broken
    <2> QED BY <1>1, <1>u, <2>1, CommitAccounts, ZenonT(60) DEF IInv, AccountOK,
               LinesOf, Ids
  <1>19. ASSUME NEW i
         PROVE  /\ Frozen(i)' <=> Frozen(i)
                /\ (i \in StrictOuts)' <=> (i \in StrictOuts)
                /\ Frozen(i) => (RightlyCosted(i)' <=> RightlyCosted(i))
    <2>1. Basis(i, LinesOf(lines[i].pool))' = Basis(i, LinesOf(lines[i].pool))
      BY <1>1, Zenon DEF Basis, LinesOf, Ids, Pos
    <2>2. Frozen(i) => (RightlyCosted(i)' <=> RightlyCosted(i))
      BY <1>7, <2>1, Zenon DEF RightlyCosted
    <2> QED BY <1>1, <2>2, Zenon DEF Frozen, ClosedThrough, StrictOuts, Ids
  <1>20. FrozenRight'
    BY <1>u, <1>19, Zenon DEF IInv, FrozenRight
  <1>21. HaltedContradicts'
    BY <1>1, <1>19, Zenon DEF IInv, HaltedContradicts
  <1> QED BY <1>11, <1>12, <1>13, <1>14, <1>15, <1>16, <1>17, <1>18, <1>20, <1>21, Zenon
             DEF IInv

--------------------------------------------------------------------------------
(* Submissions up to their commit.                                         *)

\* A step of the submissions alone has three conjuncts to keep.
LEMMA SubStep ==
    ASSUME IInv, UNCHANGED <<ledger, engine, process, worker, closer, misbooked>>,
           sub' \in [Submitters -> SubType \cup {Idle}], SubsOK', CloseOrderOK'
    PROVE  IInv'
  <1>1. TypeOK'
    BY Zenon DEF IInv, TypeOK, ledger, engine, process
  <1>2. OrderOK' /\ RowsOK'
    BY FrameOrder, FrameRows, Zenon DEF IInv, ledger, engine
  <1>3. WorkersOK' /\ DetectedOK' /\ ClaimsOK'
    BY FrameWorkers, FrameDetected, FrameClaims, Zenon DEF IInv, ledger, engine
  <1>4. SweptOK' /\ AccountOK' /\ MisbookedOK'
    BY FrameSwept, FrameAccount, FrameMisbooked, Zenon DEF IInv, ledger, engine, process
  <1>5. FrozenRight' /\ HaltedContradicts'
    BY FrameFrozen, FrameHalted, Zenon DEF IInv, ledger, engine, process
  <1> QED BY <1>1, <1>2, <1>3, <1>4, <1>5, Zenon DEF IInv

\* The start of a submission reads the period and takes no lock.
LEMMA SubmitKeeps ==
    ASSUME IInv, NEW s \in Submitters, NEW at \in Dates, NEW S \in (SUBSET Pools) \ {{}},
           NEW outs \in SUBSET S, Submit(s, at, S, outs)
    PROVE  IInv'
  <1>1. sub \in [Submitters -> SubType \cup {Idle}]
    BY Zenon DEF IInv, TypeOK
  <1> DEFINE new == [pc |-> "line", at |-> at, outs |-> outs, todo |-> S, held |-> {},
                     fence |-> FALSE]
  <1>2. sub' = [sub EXCEPT ![s] = new]
    BY Zenon DEF Submit
  <1>3. new \in SubType
    BY Zenon DEF SubType
  <1>4. sub' \in [Submitters -> SubType \cup {Idle}]
    BY <1>1, <1>2, <1>3, Zenon
  <1>5. \A x \in Submitters : sub'[x] = IF x = s THEN new ELSE sub[x]
    BY <1>1, <1>2, Zenon
  <1> HIDE DEF new
  <1>6. new.pc = "line" /\ new.todo # {} /\ ~new.fence
    BY Zenon DEF new
  <1>7. UNCHANGED <<ledger, engine, process, worker, closer, misbooked>>
    BY Zenon DEF Submit
  <1>8. SubsOK'
    BY <1>5, <1>6, <1>7, Zenon DEF IInv, SubsOK, ClosedThrough, ledger
  <1>9. CloseOrderOK'
    BY <1>5, <1>6, <1>7, Zenon DEF IInv, CloseOrderOK, Due, Ids, EndOf, ledger, process
  <1> QED BY <1>4, <1>7, <1>8, <1>9, SubStep, Zenon

\* The least pool a submission still has to touch.
LEMMA NextPool ==
    ASSUME FiniteFacts, IInv, NEW s \in Submitters, sub[s].pc \in {"line", "guard"}
    PROVE  /\ sub[s] \in SubType /\ sub[s].todo # {}
           /\ Min(sub[s].todo) \in sub[s].todo
  <1>1. sub[s] \in SubType
    BY DEF IInv, TypeOK, Idle
  <1>2. sub[s].todo # {}
    BY Zenon DEF IInv, SubsOK
  <1>3. sub[s].todo \in SUBSET Pools
    BY <1>1, Zenon DEF SubType
  <1>4. sub[s].todo \in SUBSET Nat /\ IsFiniteSet(sub[s].todo)
    BY <1>3, CloseAssumption, Zenon DEF FiniteFacts
  <1> QED BY <1>1, <1>2, <1>4, MinIn, Zenon

\* Each aggregate lock is one more held, and no row changes.
LEMMA SubmitAggregateKeeps ==
    ASSUME FiniteFacts, IInv, NEW s \in Submitters, SubmitAggregate(s)
    PROVE  IInv'
  <1> DEFINE m == Min(sub[s].todo)
             new == [sub[s] EXCEPT !.pc = "guard", !.held = @ \cup {m}]
  <1>1. /\ sub[s].pc = "line"
        /\ UNCHANGED <<ledger, engine, process, worker, closer, misbooked>>
    BY Zenon DEF SubmitAggregate
  <1>2. sub[s] \in SubType /\ sub[s].todo # {} /\ m \in sub[s].todo
    BY <1>1, NextPool, Zenon
  <1>3. sub \in [Submitters -> SubType \cup {Idle}]
    BY Zenon DEF IInv, TypeOK
  <1>4. sub' = [sub EXCEPT ![s] = new]
    BY Zenon DEF SubmitAggregate
  <1>5. m \in Pools
    BY <1>2, Zenon DEF SubType
  <1> HIDE DEF m
  <1>6. /\ new \in SubType /\ new.pc = "guard" /\ new.todo = sub[s].todo
        /\ new.fence = sub[s].fence /\ new.at = sub[s].at
    BY <1>2, <1>5, Zenon DEF SubType
  <1> HIDE DEF new
  <1>7. sub' \in [Submitters -> SubType \cup {Idle}]
    BY <1>3, <1>4, <1>6, Zenon
  <1>8. \A x \in Submitters : sub'[x] = IF x = s THEN new ELSE sub[x]
    BY <1>3, <1>4, Zenon
  <1>9. SubsOK'
    BY <1>1, <1>2, <1>6, <1>8, ZenonT(60) DEF IInv, SubsOK, ClosedThrough, ledger
  <1>10. CloseOrderOK'
    BY <1>1, <1>6, <1>8, Zenon DEF IInv, CloseOrderOK, Due, Ids, EndOf, ledger, process
  <1> QED BY <1>1, <1>7, <1>9, <1>10, SubStep, Zenon

\* The guard takes the fence on an open date, or rejects the submission.
LEMMA SubmitGuardKeeps ==
    ASSUME FiniteFacts, IInv, NEW s \in Submitters, SubmitGuard(s)
    PROVE  IInv'
  <1> DEFINE todo == sub[s].todo \ {Min(sub[s].todo)}
             on == [sub[s] EXCEPT !.fence = TRUE, !.todo = todo,
                                  !.pc = IF todo = {} THEN "commit" ELSE "line"]
             new == IF ~Admissible(sub[s].at) THEN Idle ELSE on
  <1>1. /\ sub[s].pc = "guard" /\ ~Fenced
        /\ UNCHANGED <<ledger, engine, process, worker, closer, misbooked>>
    BY Zenon DEF SubmitGuard
  <1>2. sub[s] \in SubType
    BY <1>1, NextPool, Zenon
  <1>3. sub \in [Submitters -> SubType \cup {Idle}]
    BY Zenon DEF IInv, TypeOK
  <1>4. sub' = [sub EXCEPT ![s] = new]
    BY Zenon DEF SubmitGuard
  <1>5. /\ on \in SubType /\ on.at = sub[s].at /\ on.fence
        /\ on.pc # "commit" => on.todo # {}
    BY <1>2, Zenon DEF SubType
  <1> HIDE DEF on
  <1>6. \/ new = Idle
        \/ /\ new \in SubType /\ ~ClosedThrough(new.at) /\ new.fence
           /\ new.pc # "commit" => new.todo # {}
    BY <1>5, Zenon DEF Admissible
  <1> HIDE DEF new
  <1>7. sub' \in [Submitters -> SubType \cup {Idle}]
    BY <1>3, <1>4, <1>6, Zenon
  <1>8. \A x \in Submitters : sub'[x] = IF x = s THEN new ELSE sub[x]
    BY <1>3, <1>4, Zenon
  <1>9. SubsOK'
    <2>1. Idle.pc = "idle"
      BY Zenon DEF Idle
    <2>2. \A at : ClosedThrough(at)' <=> ClosedThrough(at)
      BY <1>1, Zenon DEF ClosedThrough, ledger
    <2>3. ASSUME NEW x \in Submitters, sub'[x].pc # "idle"
          PROVE  /\ sub'[x].fence => ~ClosedThrough(sub'[x].at)
                 /\ sub'[x].pc = "commit" => sub'[x].fence
                 /\ sub'[x].pc # "commit" => sub'[x].todo # {}
      <3>1. CASE x = s
        BY <1>6, <1>8, <2>1, <2>3, <3>1, Zenon
      <3>2. CASE x # s
        BY <1>8, <2>3, <3>2, Zenon DEF IInv, SubsOK
      <3> QED BY <3>1, <3>2, Zenon
    <2> QED BY <2>2, <2>3, Zenon DEF SubsOK
  <1>10. CloseOrderOK'
    BY <1>1, <1>6, <1>8, Zenon
       DEF IInv, CloseOrderOK, Due, Ids, EndOf, ledger, process, Idle, Fenced
  <1> QED BY <1>1, <1>7, <1>9, <1>10, SubStep, Zenon

--------------------------------------------------------------------------------
(* A submission commits: lines are appended, all on an open date.          *)

\* A commit leaves the lines on record and appends lines of the submission's
\* date, which no closed period covers.
LEMMA Appended ==
    ASSUME FiniteFacts, IInv, NEW s \in Submitters, SubmitCommit(s)
    PROVE  /\ lines' \in Seq(LineType)
           /\ Len(lines) \in Nat /\ Len(lines') \in Nat /\ Len(lines) <= Len(lines')
           /\ \A i \in Ids : lines'[i] = lines[i]
           /\ \A i \in Ids' : i \notin Ids => lines'[i].at = sub[s].at
           /\ sub[s].at \in Nat /\ ~ClosedThrough(sub[s].at)
  <1>1. sub[s].pc = "commit" /\ sub[s] \in SubType
    BY DEF SubmitCommit, IInv, TypeOK, Idle
  <1>2. ~ClosedThrough(sub[s].at)
    BY <1>1, Zenon DEF IInv, SubsOK
  <1>3. sub[s].at \in Dates /\ sub[s].held \in SUBSET Pools
    BY <1>1, Zenon DEF SubType
  <1> DEFINE n == Cardinality(sub[s].held)
             line(p) == [pool |-> p, at |-> sub[s].at, out |-> p \in sub[s].outs]
  <1>4. n \in Nat
    <2>1. sub[s].held \in SUBSET Pools /\ IsFiniteSet(Pools)
      BY <1>3, CloseAssumption, Zenon
    <2> QED BY <2>1, Zenon DEF FiniteFacts
  <1>5. PICK pools \in [1..n -> sub[s].held] :
          lines' = lines \o [k \in 1..n |-> line(pools[k])]
    BY Zenon DEF SubmitCommit
  <1> DEFINE t == [k \in 1..n |-> line(pools[k])]
  <1>6. \A k \in 1..n : line(pools[k]) \in LineType /\ line(pools[k]).at = sub[s].at
    BY <1>3, <1>5 DEF LineType
  <1> HIDE DEF line, n
  <1>7. t \in [1..n -> LineType]
    BY <1>6, Zenon
  <1>8. t \in Seq(LineType) /\ Len(t) = n
    BY <1>4, <1>7
  <1>9. \A k \in 1..n : t[k].at = sub[s].at
    BY <1>6, Zenon
  <1>10. lines \in Seq(LineType) /\ lines' = lines \o t
    BY <1>5, Zenon DEF IInv, TypeOK
  <1> HIDE DEF t
  <1>11. Len(lines) \in Nat
    BY <1>10
  <1>12. /\ lines' \in Seq(LineType) /\ Len(lines') = Len(lines) + n
         /\ \A i \in 1..Len(lines') :
              lines'[i] = IF i <= Len(lines) THEN lines[i] ELSE t[i - Len(lines)]
    BY <1>8, <1>10
  <1>13. \A i \in Ids : lines'[i] = lines[i]
    BY <1>4, <1>11, <1>12 DEF Ids
  <1>14. \A i \in Ids' : i \notin Ids => lines'[i].at = sub[s].at
    <2>1. ASSUME NEW i \in 1..Len(lines'), i \notin 1..Len(lines)
          PROVE  ~(i <= Len(lines)) /\ i - Len(lines) \in 1..n
      <3>1. Len(lines') = Len(lines) + n
        BY <1>12, Zenon
      <3> QED BY <1>4, <1>11, <2>1, <3>1
    <2> QED BY <1>9, <1>12, <2>1, Zenon DEF Ids
  <1>15. sub[s].at \in Nat
    BY <1>3, CloseAssumption, Zenon
  <1>16. Len(lines') \in Nat /\ Len(lines) <= Len(lines')
    <2>1. Len(lines') = Len(lines) + n
      BY <1>12, Zenon
    <2> QED BY <1>4, <1>11, <2>1
  <1> QED BY <1>2, <1>11, <1>12, <1>13, <1>14, <1>15, <1>16, Zenon

\* What the old lines keep: position, date, pool, and being frozen or not.
LEMMA AppendedKept ==
    ASSUME FiniteFacts, IInv, NEW s \in Submitters, SubmitCommit(s)
    PROVE  /\ Ids \subseteq Ids' /\ Ids \subseteq Nat
           /\ \A i \in Ids : Pos(i)' = Pos(i) /\ (Frozen(i)' <=> Frozen(i))
           /\ \A i \in Ids' : i \notin Ids =>
                i > Len(lines) /\ ~Frozen(i)' /\ \A j \in Ids : Frozen(j) =>
                                                   ~Before(Pos(i)', Pos(j))
           /\ \A q : /\ LinesOf(q) \subseteq Ids /\ LinesOf(q) \subseteq LinesOf(q)'
                     /\ LinesOf(q)' \cap Ids = LinesOf(q)
           /\ \A S \in SUBSET Ids, i \in Ids : Basis(i, S)' = Basis(i, S)
           /\ \A q, i \in Ids : Frozen(i) => Basis(i, LinesOf(q))' = Basis(i, LinesOf(q))
  <1>1. Ids \subseteq Ids' /\ Ids \subseteq Nat
    BY Appended DEF Ids
  <1>2. UNCHANGED period
    BY Zenon DEF SubmitCommit
  <1>3. \A i \in Ids : Pos(i)' = Pos(i) /\ (Frozen(i)' <=> Frozen(i))
    BY <1>2, Appended, Zenon DEF Pos, Frozen, ClosedThrough
  <1>4. \A q : /\ LinesOf(q) \subseteq Ids /\ LinesOf(q) \subseteq LinesOf(q)'
               /\ LinesOf(q)' \cap Ids = LinesOf(q)
    BY <1>1, Appended, ZenonT(60) DEF LinesOf
  <1>5. ASSUME NEW i \in Ids', i \notin Ids
        PROVE  /\ i > Len(lines) /\ ~Frozen(i)'
               /\ \A j \in Ids : Frozen(j) => ~Before(Pos(i)', Pos(j))
    <2>1. lines'[i].at = sub[s].at
      BY <1>5, Appended, Zenon
    <2>2. i > Len(lines) /\ i \in Nat
      BY <1>5, Appended DEF Ids
    <2>3. ~Frozen(i)'
      BY <1>2, <2>1, Appended, Zenon DEF Frozen, ClosedThrough
    <2>4. ASSUME NEW j \in Ids, Frozen(j) PROVE lines[j].at < sub[s].at
      <3>1. PICK p \in Periods : period[p] = "closed" /\ lines[j].at <= Calendar[p].last
        BY <2>4, Zenon DEF Frozen, ClosedThrough
      <3>2. ~(sub[s].at <= Calendar[p].last) /\ sub[s].at \in Nat
        BY <3>1, Appended, Zenon DEF ClosedThrough
      <3>3. Calendar[p].last \in Nat /\ lines[j].at \in Nat
        BY CloseAssumption, LineFacts, Zenon DEF IInv, LineType
      <3> QED BY <3>1, <3>2, <3>3
    <2>5. \A j \in Ids : lines[j].at \in Nat
      BY CloseAssumption, LineFacts, ZenonT(60) DEF IInv, LineType
    <2> QED BY <2>1, <2>2, <2>3, <2>4, <2>5, Appended DEF Before, Pos
  <1>6. \A S \in SUBSET Ids, i \in Ids : Basis(i, S)' = Basis(i, S)
    BY <1>3, Zenon DEF Basis
  <1>7. ASSUME NEW q, NEW i \in Ids, Frozen(i)
        PROVE  Basis(i, LinesOf(q))' = Basis(i, LinesOf(q))
    <2>1. Basis(i, LinesOf(q))' = {j \in LinesOf(q)' : Before(Pos(j)', Pos(i)')}
      BY Zenon DEF Basis, Before
    <2>2. \A j \in LinesOf(q)' : j \in Ids'
      BY Zenon DEF LinesOf
    <2> QED BY <1>3, <1>4, <1>5, <1>7, <2>1, <2>2, Zenon DEF Basis
  <1> QED BY <1>1, <1>3, <1>4, <1>5, <1>6, <1>7, Zenon

\* The commit adds undelivered, unfrozen lines: no verdict about the lines on
\* record changes.
LEMMA SubmitCommitKeeps ==
    ASSUME FiniteFacts, IInv, NEW s \in Submitters, SubmitCommit(s)
    PROVE  IInv'
  <1>1. /\ UNCHANGED <<period, engine, process, worker, closer, misbooked>>
        /\ sub' = [sub EXCEPT ![s] = Idle]
    BY Zenon DEF SubmitCommit
  <1>u. UNCHANGED <<row, cost, queued, halted, slot, delivered, feed, losses, unseeded>>
    BY <1>1, Zenon DEF engine, process
  <1>2. Strict \subseteq Pools
    BY CloseAssumption, Zenon
  <1>3. TypeOK'
    <2>1. delivered' \in 0..Len(lines')
      BY <1>u, Appended DEF IInv, TypeOK
    <2> QED BY <1>1, <1>u, <2>1, Appended, Zenon DEF IInv, TypeOK
  <1>4. OrderOK' /\ ClaimsOK'
    BY <1>1, <1>u, FrameOrder, FrameClaims, Zenon DEF IInv
  <1>5. \A x \in Submitters : sub'[x] = IF x = s THEN Idle ELSE sub[x]
    BY <1>1, Zenon DEF IInv, TypeOK
  <1>6. SubsOK'
    BY <1>1, <1>5 DEF IInv, SubsOK, ClosedThrough, Idle
  <1>7. ASSUME NEW q, NEW r, RowRight(q, r)
        PROVE  RowRight(q, r)'
               /\ \A c : LayersCosted(c, r) => LayersCosted(c, r)'
    <2>1. r.folded \subseteq Ids
      BY <1>7, AppendedKept, Zenon DEF RowRight
    <2>2. RowRight(q, r)'
      BY <1>7, <2>1, AppendedKept, Zenon DEF RowRight, Before
    <2>3. ASSUME NEW c, LayersCosted(c, r) PROVE LayersCosted(c, r)'
      BY <2>1, <2>3, AppendedKept, Appended, Zenon DEF LayersCosted
    <2> QED BY <2>2, <2>3, Zenon
  <1>8. RowsOK'
    <2>1. \A p \in Pools : RowRight(p, row[p])'
      BY <1>7, <1>u, Zenon DEF IInv, RowsOK, RowRight
    <2>2. \A p \in Strict : LayersCosted(cost, row[p])'
      BY <1>2, <1>7, <1>u, ZenonT(60) DEF IInv, RowsOK, LayersCosted
    <2>3. \A i \in DOMAIN cost' : /\ i \in Ids' /\ lines'[i].pool \in Strict
                                  /\ i \in row'[lines'[i].pool].folded
      BY <1>u, Appended, AppendedKept, ZenonT(60) DEF IInv, RowsOK
    <2> QED BY <2>1, <2>2, <2>3, Zenon DEF RowsOK
  <1>9. WorkersOK'
    <2>1. ASSUME NEW w \in Workers, worker[w].pc # "idle"
          PROVE  Scan(worker[w].pool, worker[w].row)
                 \subseteq Scan(worker[w].pool, worker[w].row)'
      BY <1>1, AppendedKept, ZenonT(60) DEF Scan, ScanFrom, FullReplay, Before
    <2>2. \A w \in Workers : worker[w].pc # "idle" =>
            Folded(worker[w].row, worker[w].scan)' = Folded(worker[w].row, worker[w].scan)
      BY <1>1, Zenon DEF Folded, FullReplay
    <2> QED BY <1>1, <1>u, <2>1, <2>2, Zenon DEF IInv, WorkersOK
  <1>10. DetectedOK'
    <2>1. ASSUME NEW w \in Workers, worker[w].pc # "idle"
          PROVE  /\ Costings(worker[w].row, worker[w].scan)'
                    = Costings(worker[w].row, worker[w].scan)
                 /\ DOMAIN Costings(worker[w].row, worker[w].scan) \subseteq Ids
      <3> DEFINE r == worker[w].row
                 scan == worker[w].scan
      <3>1. scan \subseteq Ids /\ r.folded \subseteq Ids
        BY <2>1, PassFacts, Zenon
      <3>2. worker' = worker
        BY <1>1, Zenon
      <3>3. Folded(r, scan)' = Folded(r, scan) /\ Folded(r, scan) \subseteq Ids
        BY <3>1, <3>2, Zenon DEF Folded, FullReplay
      <3>4. \A i \in Ids : Basis(i, Folded(r, scan))' = Basis(i, Folded(r, scan))
        BY <3>3, AppendedKept, Zenon DEF Basis, Before
      <3>5. {j \in scan : lines[j].out}' = {j \in scan : lines[j].out}
        BY <3>1, <3>2, Appended, Zenon
      <3> QED BY <3>1, <3>4, <3>5, Zenon DEF Costings
    <2>2. \A w \in Workers : worker[w].pc # "idle" =>
            worker[w].pending \subseteq Ids
      BY PassFacts, Zenon DEF IInv, WorkersOK
    <2>3. worker' = worker /\ cost' = cost
      BY <1>1, <1>u, Zenon
    <2>4. ASSUME NEW w \in Workers, worker'[w].pc \in {"write", "reconcile", "commit"}
          PROVE  /\ \A i \in worker'[w].pending : ~Frozen(i)'
                 /\ ~Diverges(Pending(Costings(worker[w].row, worker[w].scan), cost))'
      <3>1. /\ worker[w].pc \in {"write", "reconcile", "commit"}
            /\ worker[w].pc # "idle"
        BY <2>3, <2>4, Zenon
      <3>2. /\ \A i \in worker[w].pending : ~Frozen(i)
            /\ ~Diverges(Pending(Costings(worker[w].row, worker[w].scan), cost))
        BY <3>1, Zenon DEF IInv, DetectedOK
      <3>3. \A i \in worker'[w].pending : ~Frozen(i)'
        BY <2>2, <2>3, <3>1, <3>2, AppendedKept, ZenonT(60)
      <3> DEFINE new == Costings(worker[w].row, worker[w].scan)
      <3>4. Pending(new, cost)' = Pending(new, cost) /\ Pending(new, cost) \subseteq Ids
        BY <2>1, <2>3, <3>1, ZenonT(60) DEF Pending
      <3> QED BY <3>2, <3>3, <3>4, AppendedKept, Zenon DEF Diverges
    <2> QED BY <2>4, Zenon DEF DetectedOK
  <1>11. CloseOrderOK'
    <2>1. SUFFICES ASSUME closer.pc # "idle" PROVE CloseOrderOK'
      BY <1>1, Zenon DEF CloseOrderOK
    <2> DEFINE D == {i \in Due(closer.period) : closer.pc = "lsn" \/ i <= closer.lsn}
    <2>2. D \subseteq D'
      BY <1>1, Appended, AppendedKept, Zenon DEF Due, EndOf
    <2>3. IsFiniteSet(D')
      <3>1. D' \subseteq Ids'
        BY Zenon DEF Due
      <3>2. IsFiniteSet(Ids')
        <4>1. Len(lines') \in Nat
          BY Appended, Zenon
        <4> QED BY <4>1, Zenon DEF FiniteFacts, Ids
      <3> QED BY <3>1, <3>2, Zenon DEF FiniteFacts
    <2>4. Cardinality(D) <= Cardinality(D') /\ Cardinality(D) \in Nat
          /\ Cardinality(D') \in Nat
      <3> HIDE DEF D
      <3>1. D \in SUBSET D'
        BY <2>2, Zenon
      <3> QED BY <2>3, <3>1, Zenon DEF FiniteFacts
    <2>5. closer.baseline \in Nat /\ closer.lsn \in Nat
      BY <2>1, CloserFacts, Zenon
    <2>6. closer.baseline <= Cardinality(D')
      <3>1. closer.baseline <= Cardinality(D)
        BY <2>1, Zenon DEF IInv, CloseOrderOK
      <3> HIDE DEF D
      <3> QED BY <2>4, <2>5, <3>1
    <2>7. closer.lsn <= Len(lines')
      <3>1. closer.lsn <= Len(lines) /\ Len(lines) <= Len(lines')
            /\ Len(lines) \in Nat /\ Len(lines') \in Nat
        BY <2>1, LineFacts, Appended, Zenon DEF IInv, CloseOrderOK
      <3> QED BY <2>5, <3>1
    <2> QED BY <1>1, <1>u, <1>5, <2>1, <2>6, <2>7, SMTT(60) DEF IInv, CloseOrderOK, Idle
  <1>12. SweptOK'
    <2>1. SUFFICES ASSUME closer.pc # "idle" PROVE SweptOK'
      BY <1>1, Zenon DEF SweptOK
    <2>2. closer' = closer
      BY <1>1, ZenonT(60)
    <2>3. ASSUME NEW q \in closer.swept
          PROVE  /\ RowRight(q, closer.rows[q])'
                 /\ LayersCosted(Over(closer.cost, cost), closer.rows[q])'
      <3>1. /\ RowRight(q, closer.rows[q])
            /\ LayersCosted(Over(closer.cost, cost), closer.rows[q])
        BY <2>1, Zenon DEF IInv, SweptOK
      <3>2. Over(closer.cost, cost)' = Over(closer.cost, cost)
        BY <1>u, <2>2, Zenon DEF Over
      <3>3. PICK r, c : r = closer.rows[q] /\ c = Over(closer.cost, cost)
        BY Zenon
      <3>4. RowRight(q, r)' /\ LayersCosted(c, r)'
        <4>1. RowRight(q, r) /\ LayersCosted(c, r)
          BY <3>1, <3>3, Zenon
        <4> QED BY <1>7, <4>1, Zenon
      <3> QED BY <2>2, <3>2, <3>3, <3>4, Zenon DEF RowRight, LayersCosted
    <2>4. \A i \in closer.residue : i \in Ids' /\ lines'[i].pool = lines[i].pool
      BY <2>1, Appended, AppendedKept, ZenonT(60) DEF IInv, SweptOK
    <2>5. \A i \in DOMAIN closer.cost :
            i \in Ids' /\ lines'[i] = lines[i] /\ (Frozen(i)' <=> Frozen(i))
      BY <2>1, Appended, AppendedKept, ZenonT(60) DEF IInv, SweptOK
    <2> QED BY <1>u, <2>1, <2>2, <2>3, <2>4, <2>5, ZenonT(60) DEF IInv, SweptOK
  <1>13. AccountOK'
    <2>1. ASSUME NEW q, NEW i \in LinesOf(q)', i \notin LinesOf(q) PROVE i > delivered
      <3>1. i \in Ids' /\ i \notin Ids
        BY <2>1, AppendedKept, ZenonT(60) DEF LinesOf
      <3>2. i \in Nat
        BY <3>1, Appended, SMTT(60) DEF Ids
      <3>3. delivered \in Nat /\ delivered <= Len(lines)
        BY LineFacts DEF IInv, TypeOK
      <3> QED BY <3>1, <3>2, <3>3, AppendedKept, Appended, SMTT(60)
    <2>2. Broken' <=> Broken
      BY <1>u, Zenon DEF Broken
    <2>3. Accounted => Accounted'
      <3>1. \A q, i \in Ids : Before(row[q].frontier, Pos(i))
                              => Before(row[q].frontier, Pos(i))'
        BY <1>u, AppendedKept, Zenon DEF Before
      <3> QED BY <1>u, <2>1, <3>1, AppendedKept, ZenonT(60) DEF Accounted
    <2> QED BY <1>1, <1>u, <2>1, <2>2, <2>3, ZenonT(60) DEF IInv, AccountOK
  <1>14. MisbookedOK'
    BY <1>1, <1>u, Appended, AppendedKept, ZenonT(60) DEF IInv, MisbookedOK,
       PeriodNotMisbooked
  <1>15. ASSUME NEW i \in Ids
         PROVE  /\ i \in StrictOuts' <=> i \in StrictOuts
                /\ Frozen(i) => (RightlyCosted(i)' <=> RightlyCosted(i))
    <2>1. i \in StrictOuts' <=> i \in StrictOuts
      BY <1>15, Appended, AppendedKept, ZenonT(60) DEF StrictOuts
    <2>2. Frozen(i) => Basis(i, LinesOf(lines[i].pool))' = Basis(i, LinesOf(lines[i].pool))
      BY <1>15, Appended, AppendedKept, SMTT(90) DEF Basis, LinesOf
    <2> QED BY <1>u, <2>1, <2>2, Zenon DEF RightlyCosted
  <1>16. FrozenRight'
    <2>1. \A i \in StrictOuts' : i \in Ids'
      BY Zenon DEF StrictOuts
    <2> QED BY <1>u, <1>15, <2>1, AppendedKept, Zenon DEF IInv, FrozenRight
  <1>17. HaltedContradicts'
    <2>1. \A i \in StrictOuts : i \in Ids
      BY Zenon DEF StrictOuts
    <2> QED BY <1>u, <1>15, <2>1, Appended, AppendedKept, ZenonT(60)
               DEF IInv, HaltedContradicts
  <1> QED BY <1>3, <1>4, <1>6, <1>8, <1>9, <1>10, <1>11, <1>12, <1>13, <1>14, <1>16,
             <1>17, ZenonT(60)
          DEF IInv

--------------------------------------------------------------------------------
(* The feed.                                                               *)

\* A step that moves the feed, adds queue rows and lowers floors has the
\* bookkeeping of what was delivered to keep, and no more.
LEMMA FloorStep ==
    ASSUME IInv,
           UNCHANGED <<ledger, cost, halted, losses, sub, worker, closer, misbooked>>,
           row' \in [Pools -> RowType],
           \A p \in Pools : /\ row'[p].frontier = row[p].frontier
                            /\ row'[p].folded = row[p].folded,
           queued \subseteq queued', queued' \subseteq Pools,
           delivered <= delivered', delivered' \in 0..Len(lines),
           slot' \in BOOLEAN, unseeded' \in BOOLEAN,
           feed' \in {"loop", "down", "fresh", "seeding"},
           AccountOK'
    PROVE  IInv'
  <1>1. Strict \subseteq Pools
    BY CloseAssumption, Zenon
  <1>2. TypeOK'
    BY Zenon DEF IInv, TypeOK, ledger
  <1>3. OrderOK' /\ SubsOK' /\ DetectedOK' /\ ClaimsOK'
    BY FrameOrder, FrameSubs, FrameDetected, FrameClaims, Zenon DEF IInv, ledger
  <1>4. RowsOK'
    <2>1. \A p \in Pools : RowRight(p, row[p])'
      BY SMTT(90) DEF IInv, RowsOK, RowRight, LinesOf, Ids, Pos, ledger
    <2>2. \A p \in Strict : LayersCosted(cost, row[p])'
      BY <1>1 DEF IInv, RowsOK, LayersCosted, Basis, Pos, ledger
    <2>3. \A i \in DOMAIN cost' : /\ i \in Ids' /\ lines'[i].pool \in Strict
                                  /\ i \in row'[lines'[i].pool].folded
      BY <1>1, Zenon DEF IInv, RowsOK, Ids, ledger
    <2> QED BY <2>1, <2>2, <2>3, ZenonT(60) DEF RowsOK
  <1>5. WorkersOK'
    <2>1. ASSUME NEW w \in Workers, worker[w].pc # "idle"
          PROVE  worker[w].pool \in Pools
      BY <2>1, PassFacts, Zenon
    <2> QED BY <2>1, ZenonT(60) DEF IInv, WorkersOK, Scan, ScanFrom, FullReplay, Folded,
               LinesOf, Ids,
                       Pos, ledger
  <1>6. CloseOrderOK'
    <2>1. closer.pc # "idle" => closer.lsn \in Nat
      BY CloserFacts, Zenon
    <2>2. delivered \in Nat /\ delivered' \in Nat
      BY LineFacts, DeliveredFacts DEF IInv
    <2> QED BY <2>1, <2>2, SMTT(90) DEF IInv, CloseOrderOK, Due, Ids, EndOf, ledger
  <1>7. SweptOK'
    <2>1. closer' = closer /\ cost' = cost /\ lines' = lines /\ losses' = losses
          /\ period' = period
      BY Zenon DEF ledger
    <2>2. Over(closer.cost, cost)' = Over(closer.cost, cost)
      BY <2>1, Zenon DEF Over
    <2>3. \A q : /\ RowRight(q, closer.rows[q])' = RowRight(q, closer.rows[q])
                 /\ LayersCosted(Over(closer.cost, cost), closer.rows[q])'
                      = LayersCosted(Over(closer.cost, cost), closer.rows[q])
      BY <2>1, <2>2, ZenonT(60) DEF RowRight, LayersCosted, LinesOf, Ids, Pos, Basis
    <2>4. closer.pc # "idle" => closer.swept \subseteq Pools
      BY <1>1, SMTT(90) DEF IInv, TypeOK, CloserType, Idle
    <2> QED BY <2>1, <2>3, <2>4, ZenonT(60) DEF IInv, SweptOK, Ids, Frozen, ClosedThrough
  <1>8. MisbookedOK' /\ FrozenRight' /\ HaltedContradicts'
    BY FrameMisbooked, FrameFrozen, FrameHalted, Zenon DEF IInv, ledger
  <1> QED BY <1>2, <1>3, <1>4, <1>5, <1>6, <1>7, <1>8, ZenonT(60) DEF IInv

\* A delivery queues the line's pool, and lowers its floor if the line is at or
\* behind the frontier.
LEMMA DeliverKeeps ==
    ASSUME IInv, Deliver
    PROVE  IInv'
  <1> DEFINE i == delivered + 1
             p == lines[i].pool
  <1>1. /\ feed = "loop" /\ slot /\ delivered < Len(lines) /\ ~RowsInDoubt(p)
        /\ row' = IF Before(Pos(i), row[p].frontier)
                  THEN [row EXCEPT ![p] = Lower(row[p], i)] ELSE row
        /\ queued' = queued \cup {p} /\ delivered' = i
        /\ UNCHANGED <<ledger, cost, halted, slot, feed, losses, crashes, unseeded,
                       sub, worker, closer, misbooked>>
    BY Zenon DEF Deliver
  <1>2. Len(lines) \in Nat /\ delivered \in Nat
    BY LineFacts, SMTT(60) DEF IInv, TypeOK
  <1>3. i \in Ids /\ i \in Nat
    BY <1>1, <1>2, SMTT(60) DEF Ids
  <1>4. p \in Pools
    BY <1>3, LineFacts, Zenon DEF IInv, LineType
  <1>5. row \in [Pools -> RowType]
    BY Zenon DEF IInv, TypeOK
  <1>6. /\ Lower(row[p], i) \in RowType /\ Lower(row[p], i).floor # Never
        /\ Lower(row[p], i).frontier = row[p].frontier
        /\ Lower(row[p], i).folded = row[p].folded
    BY <1>3, <1>4, <1>5, LowerFacts, Zenon DEF IInv
  <1> HIDE DEF p, i
  <1>7. row' \in [Pools -> RowType]
    BY <1>1, <1>4, <1>5, <1>6, Zenon
  <1>8. \A q \in Pools : /\ row'[q].frontier = row[q].frontier
                         /\ row'[q].folded = row[q].folded
                         /\ row[q].floor # Never => row'[q].floor # Never
                         /\ q = p /\ Before(Pos(i), row[q].frontier) => row'[q].floor # Never
    BY <1>1, <1>4, <1>5, <1>6, Zenon
  <1>9. AccountOK'
    <2>1. lines' = lines /\ UNCHANGED <<slot, feed, unseeded, losses, closer>>
      BY <1>1, Zenon DEF ledger
    <2>2. Broken' <=> Broken
      BY <2>1, Zenon DEF Broken
    <2>3. SUFFICES ASSUME ~Broken
                   PROVE  /\ Accounted'
                          /\ closer.pc # "idle" =>
                               \A q \in closer.swept : \A j \in LinesOf(q) :
                                 j > delivered' \/ j \in closer.rows[q].folded
      BY <2>1, <2>2, <2>3, Zenon DEF IInv, AccountOK, LinesOf, Ids
    <2>4. \A j \in Ids : j > delivered => j > delivered' \/ j = i
      BY <1>1, <1>2, SMTT(60) DEF i, Ids
    <2>5. Strict \subseteq Pools
      BY CloseAssumption, Zenon
    <2>6. ASSUME NEW q \in Strict, NEW j \in LinesOf(q)
          PROVE  \/ j > delivered'
                 \/ j \in row'[q].folded
                 \/ q \in queued' /\ (row'[q].floor # Never \/ Before(row'[q].frontier, Pos(j)))
      <3>1. CASE j = i
        <4>1. q = p /\ q \in Pools /\ j \in Ids
          BY <2>5, <3>1, Zenon DEF p, LinesOf
        <4>2. row[q].frontier \in Position /\ Pos(j) \in Position
          BY <1>5, <4>1, LineFacts, Zenon DEF IInv, RowType
        <4>3. CASE Before(Pos(j), row[q].frontier)
          BY <1>1, <1>8, <3>1, <4>1, <4>3, Zenon
        <4>4. CASE Before(row[q].frontier, Pos(j))
          BY <1>1, <1>8, <4>1, <4>4, ZenonT(60)
        <4>5. CASE row[q].frontier = Pos(j)
          <5>1. RowRight(q, row[q])
            BY <4>1, ZenonT(60) DEF IInv, RowsOK
          <5>2. row[q].frontier # Never
            BY <4>1, <4>5, LineFacts, Zenon DEF IInv
          <5>3. PICK k \in row[q].folded : row[q].frontier = Pos(k)
            BY <5>1, <5>2, Zenon DEF RowRight
          <5>4. k = j
            BY <4>1, <4>5, <5>1, <5>3, LineFacts, ZenonT(60) DEF IInv, RowRight, LinesOf
          <5> QED BY <1>8, <4>1, <5>3, <5>4, Zenon
        <4> QED BY <4>2, <4>3, <4>4, <4>5, BeforeOrder, ZenonT(60)
      <3>2. CASE j # i
        <4>1. \/ j > delivered
              \/ j \in row[q].folded
              \/ q \in queued /\ (row[q].floor # Never \/ Before(row[q].frontier, Pos(j)))
          BY <2>3, Zenon DEF IInv, AccountOK, Accounted
        <4>2. j \in Ids /\ q \in Pools
          BY <2>5, Zenon DEF LinesOf
        <4> QED BY <1>1, <1>8, <2>4, <3>2, <4>1, <4>2, Zenon
      <3> QED BY <3>1, <3>2, Zenon
    <2>7. Accounted'
      BY <2>1, <2>6, Zenon DEF Accounted, LinesOf, Ids, Pos
    <2>8. ASSUME closer.pc # "idle", NEW q \in closer.swept, NEW j \in LinesOf(q)
          PROVE  j > delivered' \/ j \in closer.rows[q].folded
      <3>1. j > delivered \/ j \in closer.rows[q].folded
        BY <2>3, <2>8, Zenon DEF IInv, AccountOK
      <3>2. q # p
        BY <1>1, <2>8, ZenonT(60) DEF IInv, SweptOK, RowsInDoubt
      <3>3. j # i
        BY <3>2, Zenon DEF LinesOf, p
      <3> QED BY <2>4, <3>1, <3>3, ZenonT(60) DEF LinesOf
    <2> QED BY <2>7, <2>8, Zenon
  <1>10. /\ delivered <= delivered' /\ delivered' \in 0..Len(lines)
         /\ queued' \subseteq Pools /\ queued \subseteq queued'
    BY <1>1, <1>2, <1>4, SMTT(60) DEF IInv, TypeOK, i
  <1> QED BY <1>1, <1>7, <1>8, <1>9, <1>10, FloorStep, ZenonT(60) DEF IInv, TypeOK

\* Losing the slot is counted, and suspends what deliveries promise.
LEMMA SlotLostKeeps ==
    ASSUME IInv, SlotLost
    PROVE  IInv'
  <1>1. /\ slot' = FALSE /\ feed' = "down" /\ losses' = losses + 1
        /\ UNCHANGED <<period, lines, row, cost, queued, halted, delivered, unseeded, sub,
                       worker, closer, misbooked>>
    BY Zenon DEF SlotLost, ledger, engine
  <1>2. losses' \in Nat /\ losses' # 0
    BY <1>1, SMTT(60) DEF IInv, TypeOK
  <1>3. TypeOK'
    BY <1>1, <1>2, ZenonT(60) DEF IInv, TypeOK
  <1>4. OrderOK' /\ RowsOK' /\ SubsOK' /\ WorkersOK' /\ DetectedOK' /\ ClaimsOK'
    BY <1>1, FrameOrder, FrameRows, FrameSubs, FrameWorkers, FrameDetected, FrameClaims,
       Zenon
       DEF IInv
  <1>5. CloseOrderOK' /\ HaltedContradicts'
    BY <1>1, FrameClose, FrameHalted, Zenon DEF IInv
  <1>6. SweptOK'
    <2>1. Over(closer.cost, cost)' = Over(closer.cost, cost)
      BY <1>1, Zenon DEF Over
    <2>2. \A q : /\ RowRight(q, closer.rows[q])' = RowRight(q, closer.rows[q])
                 /\ LayersCosted(Over(closer.cost, cost), closer.rows[q])'
                      = LayersCosted(Over(closer.cost, cost), closer.rows[q])
      BY <1>1, <2>1, ZenonT(60) DEF RowRight, LayersCosted, LinesOf, Ids, Pos, Basis
    <2> QED BY <1>1, <1>2, <2>2, ZenonT(60) DEF IInv, SweptOK, Ids, Frozen, ClosedThrough
  <1>7. AccountOK'
    BY <1>1, <1>2, ZenonT(60) DEF AccountOK, Broken
  <1>8. MisbookedOK' /\ FrozenRight'
    BY <1>1, <1>2, Zenon DEF IInv, MisbookedOK, PeriodNotMisbooked, FrozenRight, Ids
  <1> QED BY <1>3, <1>4, <1>5, <1>6, <1>7, <1>8, Zenon DEF IInv

\* A consumer that finds no slot creates one at the end of the WAL.
LEMMA ConsumerStartKeeps ==
    ASSUME IInv, ConsumerStart
    PROVE  IInv'
  <1>1. /\ feed = "down" /\ slot' = TRUE /\ feed' = IF slot THEN "loop" ELSE "fresh"
        /\ delivered' = IF slot THEN delivered ELSE Len(lines)
        /\ UNCHANGED <<ledger, row, cost, queued, halted, losses, unseeded, sub, worker,
                       closer, misbooked>>
    BY Zenon DEF ConsumerStart, engine
  <1>2. Len(lines) \in Nat /\ delivered \in 0..Len(lines)
    BY LineFacts, Zenon DEF IInv, TypeOK
  <1>3. delivered <= delivered' /\ delivered' \in 0..Len(lines)
    BY <1>1, <1>2
  <1>4. AccountOK'
    <2>1. CASE slot
      <3>1. delivered' = delivered /\ lines' = lines /\ (Broken' <=> Broken)
        BY <1>1, <2>1, Zenon DEF Broken, ledger
      <3>2. Accounted => Accounted'
        BY <1>1, <3>1, Zenon DEF Accounted, LinesOf, Ids, Pos
      <3> QED BY <1>1, <3>1, <3>2, ZenonT(60) DEF IInv, AccountOK, LinesOf, Ids
    <2>2. CASE ~slot
      <3>1. losses # 0
        BY <2>2, Zenon DEF IInv, AccountOK, Broken
      <3> QED BY <1>1, <2>2, <3>1, Zenon DEF AccountOK, Broken
    <2> QED BY <2>1, <2>2, Zenon
  <1>5. /\ row' \in [Pools -> RowType] /\ queued' \subseteq Pools
        /\ slot' \in BOOLEAN /\ unseeded' \in BOOLEAN
        /\ feed' \in {"loop", "down", "fresh", "seeding"}
    BY <1>1, Zenon DEF IInv, TypeOK
  <1> QED BY <1>1, <1>3, <1>4, <1>5, FloorStep, Zenon

\* The reseed starts on a slot that is not yet seeded.
LEMMA ReseedBeginKeeps ==
    ASSUME IInv, ReseedBegin
    PROVE  IInv'
  <1>1. /\ feed = "fresh"
        /\ (lines = <<>> /\ feed' = "loop") \/ feed' = "seeding"
        /\ UNCHANGED <<ledger, row, cost, queued, halted, slot, delivered, losses,
                       unseeded, sub, worker, closer, misbooked>>
    BY Zenon DEF ReseedBegin, engine
  <1>2. delivered <= delivered' /\ delivered' \in 0..Len(lines)
    BY <1>1, LineFacts, SMTT(60) DEF IInv, TypeOK
  <1>3. AccountOK'
    <2>1. losses' # 0
      BY <1>1, Zenon DEF IInv, AccountOK, Broken
    <2>2. CASE feed' = "seeding"
      BY <2>1, <2>2, Zenon DEF AccountOK, Broken
    <2>3. CASE lines = <<>>
      <3>1. \A q : LinesOf(q)' = {}
        BY <1>1, <2>3, SMTT(60) DEF LinesOf, Ids, ledger
      <3> QED BY <2>1, <3>1, Zenon DEF AccountOK, Accounted
    <2> QED BY <1>1, <2>2, <2>3, Zenon
  <1>4. /\ row' \in [Pools -> RowType] /\ queued' \subseteq Pools
        /\ slot' \in BOOLEAN /\ unseeded' \in BOOLEAN
        /\ feed' \in {"loop", "down", "fresh", "seeding"}
    BY <1>1, Zenon DEF IInv, TypeOK
  <1> QED BY <1>1, <1>2, <1>3, <1>4, FloorStep, Zenon

\* The reseed queues every strict pool with lines and lowers its floor: all
\* lines are accounted for again.
LEMMA ReseedApplyKeeps ==
    ASSUME FiniteFacts, IInv, ReseedApply
    PROVE  IInv'
  <1>1. /\ feed = "seeding" /\ feed' = "loop"
        /\ \A p \in ReseedScope : ~RowsInDoubt(p)
        /\ row' = [p \in Pools |-> IF p \in ReseedScope
                                   THEN Lower(row[p], Earliest(LinesOf(p))) ELSE row[p]]
        /\ queued' = queued \cup ReseedScope
        /\ UNCHANGED <<ledger, cost, halted, slot, delivered, losses, unseeded, sub,
                       worker, closer, misbooked>>
    BY Zenon DEF ReseedApply
  <1>2. ReseedScope \subseteq Pools /\ Strict \subseteq Pools
    BY CloseAssumption, ZenonT(60) DEF ReseedScope
  <1>3. ASSUME NEW p \in ReseedScope
        PROVE  /\ row'[p] \in RowType /\ row'[p].floor # Never
               /\ row'[p].frontier = row[p].frontier /\ row'[p].folded = row[p].folded
    <2>1. LinesOf(p) \subseteq Ids /\ LinesOf(p) # {}
      BY Zenon DEF LinesOf, ReseedScope
    <2>2. Earliest(LinesOf(p)) \in Ids
      BY <2>1, EndsOf, Zenon DEF IInv
    <2>3. row[p] \in RowType /\ row'[p] = Lower(row[p], Earliest(LinesOf(p)))
      BY <1>1, <1>2, Zenon DEF IInv, TypeOK
    <2> QED BY <2>2, <2>3, LowerFacts, SMTT(60) DEF IInv
  <1>4. \A p \in Pools : p \notin ReseedScope => row'[p] = row[p] /\ row[p] \in RowType
    BY <1>1, Zenon DEF IInv, TypeOK
  <1>5. row' \in [Pools -> RowType]
    <2>1. \A p \in Pools : row'[p] \in RowType
      BY <1>3, <1>4, Zenon
    <2>2. row' = [p \in Pools |-> row'[p]]
      BY <1>1, Zenon
    <2> QED BY <2>1, <2>2, Zenon
  <1>6. AccountOK'
    <2>1. losses' # 0
      BY <1>1, Zenon DEF IInv, AccountOK, Broken
    <2>2. ASSUME NEW q \in Strict, LinesOf(q) # {} PROVE q \in ReseedScope
      BY <2>2, Zenon DEF ReseedScope
    <2>3. lines' = lines /\ closer' = closer
      BY <1>1, Zenon DEF ledger
    <2>4. Accounted'
      BY <1>1, <1>3, <2>2, <2>3, ZenonT(60) DEF Accounted, LinesOf, Ids
    <2>5. ASSUME closer.pc # "idle", NEW q \in closer.swept PROVE LinesOf(q) = {}
      <3>1. q \in Strict /\ RowsInDoubt(q)
        BY <2>5, CloserFacts, Zenon DEF IInv, SweptOK, RowsInDoubt
      <3> QED BY <1>1, <2>2, <3>1, ZenonT(60)
    <2>6. \A q : LinesOf(q)' = LinesOf(q)
      BY <2>3, Zenon DEF LinesOf, Ids
    <2> QED BY <2>1, <2>3, <2>4, <2>5, <2>6, Zenon DEF AccountOK
  <1>7. /\ delivered <= delivered' /\ delivered' \in 0..Len(lines)
        /\ queued' \subseteq Pools /\ queued \subseteq queued'
        /\ slot' \in BOOLEAN /\ unseeded' \in BOOLEAN
        /\ feed' \in {"loop", "down", "fresh", "seeding"}
    BY <1>1, <1>2, LineFacts DEF IInv, TypeOK
  <1>8. \A p \in Pools : row'[p].frontier = row[p].frontier /\ row'[p].folded = row[p].folded
    BY <1>3, <1>4, Zenon
  <1> QED BY <1>1, <1>5, <1>6, <1>7, <1>8, FloorStep, Zenon

\* A crash takes the consumer down and leaves the slot and the tables.
LEMMA ConsumerCrashKeeps ==
    ASSUME IInv, ConsumerCrash
    PROVE  IInv'
  <1>1. /\ feed # "down" /\ feed' = "down" /\ unseeded' = (unseeded \/ feed # "loop")
        /\ UNCHANGED <<ledger, row, cost, queued, halted, slot, delivered, losses, sub,
                       worker, closer, misbooked>>
    BY Zenon DEF ConsumerCrash, engine
  <1>2. delivered <= delivered' /\ delivered' \in 0..Len(lines)
    BY <1>1, LineFacts, SMTT(60) DEF IInv, TypeOK
  <1>3. AccountOK'
    <2>1. Broken' <=> Broken
      BY <1>1, Zenon DEF Broken, IInv, TypeOK
    <2>2. Accounted => Accounted'
      BY <1>1, Zenon DEF Accounted, LinesOf, Ids, Pos, ledger
    <2> QED BY <1>1, <2>1, <2>2, ZenonT(60) DEF IInv, AccountOK, LinesOf, Ids, ledger
  <1>4. /\ row' \in [Pools -> RowType] /\ queued' \subseteq Pools
        /\ slot' \in BOOLEAN /\ unseeded' \in BOOLEAN
        /\ feed' \in {"loop", "down", "fresh", "seeding"}
    BY <1>1, Zenon DEF IInv, TypeOK
  <1> QED BY <1>1, <1>2, <1>3, <1>4, FloorStep, Zenon

================================================================================
