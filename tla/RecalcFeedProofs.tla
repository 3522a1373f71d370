--------------------------- MODULE RecalcFeedProofs ---------------------------
(***************************************************************************)
(* Proofs about the costing pipeline, for any pools, ranks and numbers of  *)
(* engine connections, and any number of crashes.                          *)
(***************************************************************************)
EXTENDS RecalcFeed, FiniteSetTheorems, TLAPS

Decision == {"settled", "checked", "counted", "decided"}
Applying == {"peeked", "floors", "bumps", "marks"}

\* The slot's cursor, the durably applied prefix and the consumer's batch all
\* stay within the WAL, in that order.
IndexOK ==
    /\ cursor <= applied /\ applied <= Len(wal)
    /\ feed.anchor <= Len(wal) /\ feed.upto <= Len(wal)
    /\ feed.pc = "applied" => feed.upto <= applied

\* The claim lock: one open pass per pool.
Exclusive ==
    \A v, w \in Workers :
        worker[v].pc # "idle" /\ worker[w].pc # "idle"
            /\ worker[v].pool = worker[w].pool => v = w

\* What an open pass knows of its pool, whose committed settlement row is
\* `row'.  Only the frontier is stable: the feed may still lower the floor.
PassOK(me, row) ==
    /\ ~me.inserted => me.pool \in queue
    /\ me.own => me.row.frontier # 0 /\ me.pool \in StrictPools
    /\ me.own /\ me.pc \notin Decision => me.claim = me.row
    /\ ~me.own => me.claim.frontier = row.frontier
                  /\ me.row.frontier = row.frontier
    /\ ~me.own /\ me.pc \in Decision => row.frontier = 0
    /\ me.own /\ me.pc \in Decision /\ me.row.floor # 0 => me.pending
    /\ me.pc = "decided" => me.reset
    /\ me.pc \notin {"claimed", "decided"} => me.pool \in StrictPools

PassesOK ==
    \A w \in Workers : worker[w].pc # "idle" =>
        PassOK(worker[w], settlement[worker[w].pool])

\* What the feed's open transaction has written, and the rows it still holds
\* against the passes.
FeedOK ==
    /\ feed.pc # "marks" => feed.marks = {}
    /\ feed.pc \in {"floors", "bumps", "marks"} => feed.todo \subseteq BatchPools
    /\ feed.pc = "bumps" => feed.todo \subseteq StrictPools
    /\ \A p \in Pools : feed.floors[p] # 0 =>
         /\ feed.pc \in Applying
         /\ p \in BatchPools
         /\ settlement[p].frontier # 0
         /\ ~SettleRowLocked(p)
         /\ feed.pc = "marks" /\ p \notin feed.todo => p \in queue \cup feed.marks
    /\ feed.bumped \subseteq StrictPools
    /\ \A p \in feed.bumped :
         /\ feed.pc \in Applying
         /\ p \in BatchPools
         /\ ~BacklogRowLocked(p)
         /\ feed.pc = "marks" /\ p \notin feed.todo => p \in queue \cup feed.marks

\* Only a settled strict pool can have a floor.
RowsOK ==
    \A p \in Pools :
        /\ settlement[p].frontier = 0 => settlement[p].floor = 0
        /\ settlement[p].frontier # 0 => p \in StrictPools

\* The inductive invariant: what the runs check, with what open transactions
\* have written and hold.
IInv ==
    /\ TypeOK /\ IndexOK /\ Exclusive /\ PassesOK /\ FeedOK /\ RowsOK
    /\ FloorQueued /\ CounterQueued /\ OnlyStrictThrottled

-----------------------------------------------------------------------------
(* Facts about the data.                                                   *)

\* The set of ranks, and every set of WAL indexes, is finite: counting them
\* gives a natural number.
LEMMA CountNat ==
    ASSUME NEW a \in Nat, NEW b \in Nat, NEW S \in SUBSET (a..b)
    PROVE  Cardinality(S) \in Nat
  <1>1. a \in Int /\ b \in Int
    OBVIOUS
  <1>2. IsFiniteSet(a..b)
    BY <1>1, FS_Interval, Zenon
  <1>3. IsFiniteSet(S)
    BY <1>2, FS_Subset, Zenon
  <1> QED BY <1>3, FS_CardinalityType, Zenon

\* The initial pool of an idle connection is a pool, and the idle records are
\* well typed.
LEMMA IdleTypes ==
    /\ \A p \in Pools : IdleWorker(p) \in Worker
    /\ IdleFeed \in Feed
  BY Zenon DEF IdleWorker, Worker, WorkerPc, NoRow, Row, AllEffects, IdleFeed, Feed,
         FeedPc

\* While a batch is within the WAL its entries are well-typed lines.
LEMMA BatchTypes ==
    ASSUME TypeOK, IndexOK
    PROVE  /\ Batch \subseteq 1..Len(wal)
           /\ BatchPools \subseteq Pools
           /\ \A p \in Pools : Positions(p) \subseteq Pos
           /\ \A p \in Pools : Cardinality(Physical(p)) \in Nat
  <1>1. Batch \subseteq 1..Len(wal)
    BY DEF TypeOK, IndexOK, Batch, Feed
  <1>2. \A i \in Batch : wal[i] \in WalEntry
    BY <1>1 DEF TypeOK
  <1>3. BatchPools \subseteq Pools
    BY <1>2, Zenon DEF BatchPools, WalEntry
  <1>4. ASSUME NEW p \in Pools PROVE Positions(p) \subseteq Pos
    BY <1>2, BoundsAssumption DEF Positions, Physical, WalEntry, Pos
  <1>5. ASSUME NEW p \in Pools PROVE Cardinality(Physical(p)) \in Nat
    <2>1. Physical(p) \in SUBSET ((cursor + 1)..feed.upto)
      BY Zenon DEF Physical, Batch
    <2>2. cursor + 1 \in Nat /\ feed.upto \in Nat
      BY DEF TypeOK, Feed
    <2> QED BY <2>1, <2>2, CountNat, Zenon
  <1> QED BY <1>1, <1>3, <1>4, <1>5, Zenon

-----------------------------------------------------------------------------
(* The initial states.                                                     *)

\* A fresh database, with every table empty and nobody running, satisfies the
\* invariant.
LEMMA InitIInv == Init => IInv
  <1> SUFFICES ASSUME Init PROVE IInv
    BY Zenon
  <1> DEFINE p0 == CHOOSE p \in Pools : TRUE
  <1>1. p0 \in Pools
    BY PoolsAssumption, Zenon
  <1>2. worker = [w \in Workers |-> IdleWorker(p0)] /\ worker \in [Workers -> Worker]
    BY <1>1, IdleTypes, Zenon DEF Init
  <1>3. \A w \in Workers : worker[w].pc = "idle"
    BY <1>2, Zenon DEF IdleWorker
  <1>4. TypeOK
    BY <1>2, IdleTypes, BoundsAssumption DEF Init, TypeOK, NoRow, Row
  <1>5. IndexOK
    BY DEF Init, IndexOK, IdleFeed
  <1>6. FeedOK
    BY Zenon DEF Init, FeedOK, IdleFeed
  <1>7. RowsOK /\ FloorQueued /\ CounterQueued /\ OnlyStrictThrottled
    BY Zenon DEF Init, RowsOK, FloorQueued, CounterQueued, OnlyStrictThrottled, NoRow
  <1> QED BY <1>3, <1>4, <1>5, <1>6, <1>7, Zenon DEF IInv, Exclusive, PassesOK

-----------------------------------------------------------------------------
(* Steps of an engine connection.                                          *)

\* A step that only moves one connection keeps the invariant if the new
\* record is a sound pass, alone on its pool, and holds no row of the feed's.
LEMMA LocalStep ==
    ASSUME IInv, NEW w \in Workers, NEW me \in Worker,
           worker' = [worker EXCEPT ![w] = me],
           UNCHANGED <<tables, slot, feed>>, raced' = raced,
           crashes' \in 0..MaxCrashes,
           me.pc # "idle" =>
             /\ PassOK(me, settlement[me.pool])
             /\ \A v \in Workers \ {w} :
                  worker[v].pc # "idle" => worker[v].pool # me.pool
             /\ me.own => feed.floors[me.pool] = 0
             /\ me.reset => me.pool \notin feed.bumped
    PROVE  IInv'
  <1> USE DEF tables, slot
  <1>0. worker \in [Workers -> Worker]
    BY Zenon DEF IInv, TypeOK
  <1>1. TypeOK'
    BY <1>0, Zenon DEF IInv, TypeOK
  <1>2. IndexOK'
    BY Zenon DEF IInv, IndexOK
  <1>3. Exclusive'
    BY <1>0, Zenon DEF IInv, Exclusive
  <1>4. PassesOK'
    BY <1>0, ZenonT(60) DEF IInv, PassesOK, PassOK
  <1>5. FeedOK'
    <2>1. BatchPools' = BatchPools
      BY Zenon DEF BatchPools, Batch
    <2>2. ASSUME NEW p \in Pools, feed.floors[p] # 0
          PROVE  ~SettleRowLocked(p)'
      BY <1>0, <2>2, Zenon DEF IInv, FeedOK, SettleRowLocked, Active
    <2>3. ASSUME NEW p \in feed.bumped
          PROVE  ~BacklogRowLocked(p)'
      BY <1>0, <2>3, Zenon DEF IInv, FeedOK, BacklogRowLocked, Active
    <2> QED BY <2>1, <2>2, <2>3, Zenon DEF IInv, FeedOK
  <1>6. RowsOK' /\ FloorQueued' /\ CounterQueued' /\ OnlyStrictThrottled'
    BY Zenon DEF IInv, RowsOK, FloorQueued, CounterQueued, OnlyStrictThrottled
  <1> QED BY <1>1, <1>2, <1>3, <1>4, <1>5, <1>6, Zenon DEF IInv

\* The two claims start a sound pass on a pool that nobody holds.
LEMMA ClaimStep ==
    ASSUME IInv, NEW w \in Workers, NEW p \in Pools,
           ClaimNext(w, p) \/ ClaimPool(w, p)
    PROVE  IInv'
  <1> DEFINE ins == w \notin Steppers /\ p \notin queue
             me == [IdleWorker(p) EXCEPT !.pc = "claimed",
                                         !.claim = settlement[p],
                                         !.row = settlement[p],
                                         !.fold = folded[p],
                                         !.agg = w \in Sweepers,
                                         !.inserted = ins]
  <1>1. /\ worker' = [worker EXCEPT ![w] = me]
        /\ UNCHANGED <<tables, slot, feed>> /\ raced' = raced
        /\ crashes' = crashes
        /\ ~QueueRowLocked(p)
        /\ ~ins => p \in queue
    BY WorkersAssumption, Zenon DEF ClaimNext, ClaimPool, Begin, history, Workers
  <1>2. me \in Worker
    <2>1. /\ IdleWorker(p) \in Worker /\ settlement[p] \in Row
          /\ folded[p] \in SUBSET Pos
      BY IdleTypes, Zenon DEF IInv, TypeOK
    <2>2. \A a, b \in BOOLEAN :
             [IdleWorker(p) EXCEPT !.pc = "claimed", !.claim = settlement[p],
                 !.row = settlement[p], !.fold = folded[p], !.agg = a,
                 !.inserted = b] \in Worker
      BY <2>1, ZenonT(60) DEF Worker, WorkerPc
    <2>3. (w \in Sweepers) \in BOOLEAN /\ ins \in BOOLEAN
      OBVIOUS
    <2> QED BY <2>2, <2>3, Zenon
  <1>3. PassOK(me, settlement[me.pool])
    BY <1>1, Zenon DEF PassOK, IdleWorker, Decision
  <1>4. \A v \in Workers : worker[v].pc # "idle" => worker[v].pool # p
    BY <1>1, Zenon DEF QueueRowLocked, Active
  <1>5. me.pool = p /\ ~me.own /\ ~me.reset
    BY Zenon DEF IdleWorker
  <1>6. crashes' \in 0..MaxCrashes
    BY <1>1, Zenon DEF IInv, TypeOK
  <1> HIDE DEF me
  <1> QED BY <1>1, <1>2, <1>3, <1>4, <1>5, <1>6, LocalStep, Zenon

\* What an open pass already satisfies, as the steps below use it.
LEMMA OpenPass ==
    ASSUME IInv, NEW w \in Workers, worker[w].pc # "idle"
    PROVE  /\ worker[w] \in Worker
           /\ worker[w].pool \in Pools
           /\ PassOK(worker[w], settlement[worker[w].pool])
           /\ \A v \in Workers \ {w} :
                worker[v].pc # "idle" => worker[v].pool # worker[w].pool
           /\ worker[w].own => feed.floors[worker[w].pool] = 0
           /\ worker[w].reset => worker[w].pool \notin feed.bumped
           /\ crashes \in 0..MaxCrashes
  <1>1. worker[w] \in Worker /\ worker[w].pool \in Pools
    BY Zenon DEF IInv, TypeOK, Worker
  <1>2. PassOK(worker[w], settlement[worker[w].pool])
    BY Zenon DEF IInv, PassesOK
  <1>3. \A v \in Workers \ {w} :
           worker[v].pc # "idle" => worker[v].pool # worker[w].pool
    BY Zenon DEF IInv, Exclusive
  <1>4. worker[w].own => feed.floors[worker[w].pool] = 0
    BY <1>1, Zenon DEF IInv, FeedOK, SettleRowLocked, Active
  <1>5. worker[w].reset => worker[w].pool \notin feed.bumped
    BY <1>1, Zenon DEF IInv, FeedOK, BacklogRowLocked, Active
  <1> QED BY <1>1, <1>2, <1>3, <1>4, <1>5, Zenon DEF IInv, TypeOK

\* drop_queue_row of a non-strict claim: such a pool never has a floor or a
\* counter, so deleting its row at commit orphans nothing.
LEMMA DropStep ==
    ASSUME IInv, NEW w \in Workers, DropQueueRow(w)
    PROVE  IInv'
  <1> DEFINE me == [worker[w] EXCEPT !.pc = "decided", !.reset = TRUE]
  <1>1. worker[w].pc # "idle" /\ worker[w].pool \notin StrictPools
    BY Zenon DEF DropQueueRow
  <1>2. worker' = [worker EXCEPT ![w] = me]
        /\ UNCHANGED <<tables, slot, feed>> /\ raced' = raced
        /\ crashes' = crashes
    BY Zenon DEF DropQueueRow, history, IInv, TypeOK, Worker
  <1>3. me \in Worker
    <2>1. worker[w] \in Worker
      BY <1>1, OpenPass, Zenon
    <2> QED BY <2>1, Zenon DEF Worker, WorkerPc
  <1>4. ~worker[w].own /\ settlement[worker[w].pool].frontier = 0
    BY <1>1, OpenPass, Zenon DEF PassOK, IInv, RowsOK
  <1>5. PassOK(me, settlement[me.pool])
    BY <1>1, <1>3, <1>4, OpenPass, Zenon DEF PassOK, Decision, Worker
  <1>6. worker[w].pool \notin feed.bumped
    BY <1>1, Zenon DEF IInv, FeedOK
  <1>7. me.pool = worker[w].pool /\ me.own = worker[w].own
    BY <1>1, OpenPass, Zenon DEF Worker
  <1> HIDE DEF me
  <1> QED BY <1>1, <1>2, <1>3, <1>4, <1>5, <1>6, <1>7, OpenPass, LocalStep, ZenonT(60)

\* scan_events and the fold only fill the pass's own record.
LEMMA ScanStep ==
    ASSUME IInv, NEW w \in Workers, Scan(w)
    PROVE  IInv'
  <1> DEFINE old == worker[w]
             scan == {e \in committed[old.pool] : e > ScanFrom(old.claim)}
             new == Refold(old.claim, old.fold, scan)
  <1>1. old.pc = "claimed" /\ old.pool \in StrictPools
    BY Zenon DEF Scan
  <1>2. PICK eff \in IF new = old.fold THEN {"none"} ELSE Effects :
           worker' = [worker EXCEPT ![w] =
               [old EXCEPT !.pc = "scanned", !.scan = scan, !.effect = eff,
                           !.fold = new]]
    BY Zenon DEF Scan
  <1> DEFINE me == [old EXCEPT !.pc = "scanned", !.scan = scan, !.effect = eff,
                               !.fold = new]
  <1>3. UNCHANGED <<tables, slot, feed>> /\ raced' = raced /\ crashes' = crashes
    BY Zenon DEF Scan, history
  <1>4. eff \in AllEffects /\ scan \in SUBSET Pos /\ new \in SUBSET Pos
    BY <1>1, <1>2, OpenPass, EffectsAssumption, Zenon
       DEF IInv, TypeOK, AllEffects, Refold, Worker
  <1>5. me \in Worker
    <2> HIDE DEF scan, new
    <2>1. old \in Worker
      BY <1>1, OpenPass, Zenon
    <2> QED BY <1>4, <2>1, Zenon DEF Worker, WorkerPc
  <1>6. PassOK(me, settlement[me.pool])
    BY <1>1, <1>4, OpenPass DEF PassOK, Decision, Worker
  <1>7. me.pool = old.pool /\ me.own = old.own /\ me.reset = old.reset
    BY <1>1, OpenPass, ZenonT(60) DEF Worker
  <1> HIDE DEF me, scan, new
  <1> QED BY <1>1, <1>2, <1>3, <1>5, <1>6, <1>7, OpenPass, LocalStep,
            ZenonT(60) DEF me, scan, new

\* settle takes the pool_settlement row only when the feed's transaction has
\* not written it, so the floor it keeps or retires is the current one.
LEMMA SettleStep ==
    ASSUME IInv, NEW w \in Workers, Settle(w)
    PROVE  IInv'
  <1> DEFINE old == worker[w]
             p == old.pool
  <1>1. old.pc = "scanned"
    BY Zenon DEF Settle
  <1>2. /\ old \in Worker /\ p \in Pools /\ old.claim \in Row /\ old.row \in Row
        /\ settlement[p] \in Row /\ old.scan \in SUBSET Pos
    BY <1>1, OpenPass, Zenon DEF IInv, TypeOK, Worker
  <1>3. UNCHANGED <<tables, slot, feed>> /\ raced' = raced /\ crashes' = crashes
    BY Zenon DEF Settle, history
  <1>4. PICK f \in Frontiers(old) :
          LET cur == IF old.own THEN old.row ELSE settlement[p]
              row == SettledRow(cur, old.claim, old.effect # "none", f)
          IN  IF f = 0
              THEN worker' = [worker EXCEPT ![w] =
                     [old EXCEPT !.pc = "settled", !.pending = FALSE]]
              ELSE /\ feed.floors[p] = 0
                   /\ worker' = [worker EXCEPT ![w] =
                        [old EXCEPT
                           !.pc = "settled", !.row = row, !.own = TRUE,
                           !.pending = row.floor # 0,
                           !.agg = @ \/ old.effect = "moved",
                           !.adjusted = @ \/ old.effect \in {"posted", "moved"}]]
    BY Zenon DEF Settle
  <1>5. f \in Nat /\ (f = 0 => old.claim.frontier = 0)
    BY <1>2, SMTT(60) DEF Frontiers, Row, Pos
  <1>6. CASE f = 0
    <2> DEFINE me == [old EXCEPT !.pc = "settled", !.pending = FALSE]
    <2>1. worker' = [worker EXCEPT ![w] = me]
      BY <1>4, <1>6, Zenon
    <2>2. me \in Worker
      BY <1>2, Zenon DEF Worker, WorkerPc
    <2>3. ~old.own
      BY <1>1, <1>5, <1>6, OpenPass, Zenon DEF PassOK, Decision
    <2>4. PassOK(me, settlement[me.pool])
      BY <1>1, <1>2, <1>5, <1>6, <2>3, OpenPass, Zenon DEF PassOK, Decision, Worker
    <2>5. me.pool = p /\ me.own = old.own /\ me.reset = old.reset
      BY <1>2, Zenon DEF Worker
    <2> HIDE DEF me
    <2> QED BY <1>1, <1>3, <2>1, <2>2, <2>4, <2>5, OpenPass, LocalStep, ZenonT(60)
  <1>7. CASE f # 0
    <2> DEFINE cur == IF old.own THEN old.row ELSE settlement[p]
               row == SettledRow(cur, old.claim, old.effect # "none", f)
               me == [old EXCEPT
                        !.pc = "settled", !.row = row, !.own = TRUE,
                        !.pending = row.floor # 0,
                        !.agg = @ \/ old.effect = "moved",
                        !.adjusted = @ \/ old.effect \in {"posted", "moved"}]
    <2>1. worker' = [worker EXCEPT ![w] = me] /\ feed.floors[p] = 0
      BY <1>4, <1>7, Zenon
    <2>2. row \in Row /\ row.frontier = f
      BY <1>2, <1>5 DEF SettledRow, Row
    <2>3. me \in Worker
      <3>1. \A r \in Row, a, b, c \in BOOLEAN :
               [old EXCEPT !.pc = "settled", !.row = r, !.own = TRUE,
                  !.pending = a, !.agg = b, !.adjusted = c] \in Worker
        BY <1>2, ZenonT(60) DEF Worker, WorkerPc
      <3>2. /\ (row.floor # 0) \in BOOLEAN
            /\ (old.agg \/ old.effect = "moved") \in BOOLEAN
            /\ (old.adjusted \/ old.effect \in {"posted", "moved"}) \in BOOLEAN
        BY Zenon
      <3> HIDE DEF row
      <3> QED BY <2>2, <3>1, <3>2, Zenon
    <2>4. p \in StrictPools
      BY <1>1, OpenPass, Zenon DEF PassOK
    <2>5. me.pool = p /\ me.own /\ me.reset = old.reset /\ me.row = row
          /\ me.inserted = old.inserted /\ me.pc = "settled"
          /\ (row.floor # 0 => me.pending)
      <3> HIDE DEF row
      <3> QED BY <1>2, Zenon DEF Worker
    <2>6. PassOK(me, settlement[me.pool])
      <3> HIDE DEF me, row
      <3> QED BY <1>1, <1>7, <2>2, <2>4, <2>5, OpenPass, Zenon DEF PassOK, Decision
    <2> HIDE DEF me, row
    <2> QED BY <1>1, <1>3, <2>1, <2>3, <2>5, <2>6, OpenPass, LocalStep, ZenonT(60)
  <1> QED BY <1>6, <1>7, Zenon

\* The missed-rows check only remembers whether the scan missed a row.
LEMMA CheckStep ==
    ASSUME IInv, NEW w \in Workers, CheckMissed(w)
    PROVE  IInv'
  <1> DEFINE old == worker[w]
  <1>1. old.pc = "settled"
    BY Zenon DEF CheckMissed
  <1>2. old \in Worker /\ old.row \in Row
    BY <1>1, OpenPass, Zenon DEF Worker
  <1>3. UNCHANGED <<tables, slot, feed>> /\ raced' = raced /\ crashes' = crashes
    BY ZenonT(60) DEF CheckMissed, history
  <1>4. CASE worker' = [worker EXCEPT ![w].pc = "checked"]
    <2> DEFINE me == [old EXCEPT !.pc = "checked"]
    <2>1. worker' = [worker EXCEPT ![w] = me]
      BY <1>4, Zenon DEF IInv, TypeOK
    <2>2. me \in Worker
      BY <1>2, Zenon DEF Worker, WorkerPc
    <2>3. PassOK(me, settlement[me.pool])
      BY <1>1, <1>2, OpenPass, Zenon DEF PassOK, Decision, Worker
    <2>4. me.pool = old.pool /\ me.own = old.own /\ me.reset = old.reset
      BY <1>2, Zenon DEF Worker
    <2> HIDE DEF me
    <2> QED BY <1>1, <1>3, <2>1, <2>2, <2>3, <2>4, OpenPass, LocalStep, ZenonT(60)
  <1>5. CASE \E m \in Missed(old) :
               worker' = [worker EXCEPT ![w] =
                 [old EXCEPT !.pc = "checked", !.pending = TRUE,
                             !.row.floor = IF @ = 0 \/ m < @ THEN m ELSE @]]
    <2>1. PICK m \in Missed(old) :
               worker' = [worker EXCEPT ![w] =
                 [old EXCEPT !.pc = "checked", !.pending = TRUE,
                             !.row.floor = IF @ = 0 \/ m < @ THEN m ELSE @]]
      BY <1>5, Zenon
    <2> DEFINE fl == IF old.row.floor = 0 \/ m < old.row.floor THEN m
                     ELSE old.row.floor
               me == [old EXCEPT !.pc = "checked", !.pending = TRUE,
                                 !.row.floor = fl]
    <2>2. worker' = [worker EXCEPT ![w] = me]
      BY <2>1, Zenon
    <2>3. m \in Nat
      BY <1>1, OpenPass DEF Missed, IInv, TypeOK, Pos
    <2>4. me \in Worker
      <3>1. [old.row EXCEPT !.floor = fl] \in Row
        BY <1>2, <2>3, Zenon DEF Row
      <3> QED BY <1>2, <3>1, ZenonT(60) DEF Worker, WorkerPc
    <2>5. /\ me.pool = old.pool /\ me.own = old.own /\ me.reset = old.reset
          /\ me.pc = "checked" /\ me.pending /\ me.inserted = old.inserted
          /\ me.row.frontier = old.row.frontier /\ me.claim = old.claim
      BY <1>2, Zenon DEF Worker, Row
    <2>6. PassOK(me, settlement[me.pool])
      <3> HIDE DEF me
      <3>1. PassOK(old, settlement[old.pool])
        BY <1>1, OpenPass, Zenon
      <3>2. old.pc \in Decision /\ me.pc \in Decision
        BY <1>1, <2>5, Zenon DEF Decision
      <3> QED BY <1>1, <2>5, <3>1, <3>2, ZenonT(60) DEF PassOK
    <2> HIDE DEF me
    <2> QED BY <1>1, <1>3, <2>2, <2>4, <2>5, <2>6, OpenPass, LocalStep, ZenonT(60)
  <1> QED BY <1>4, <1>5, ZenonT(60) DEF CheckMissed

\* The tail count only remembers a natural number.
LEMMA CountStep ==
    ASSUME IInv, NEW w \in Workers, CountTail(w)
    PROVE  IInv'
  <1> DEFINE old == worker[w]
             n == Cardinality({e \in committed[old.pool] : e > old.row.frontier})
             me == [old EXCEPT !.pc = "counted", !.tail = n]
  <1>1. old.pc = "checked" /\ worker' = [worker EXCEPT ![w] = me]
    BY Zenon DEF CountTail
  <1>2. old \in Worker
    BY <1>1, OpenPass, Zenon
  <1>3. UNCHANGED <<tables, slot, feed>> /\ raced' = raced /\ crashes' = crashes
    BY Zenon DEF CountTail, history
  <1>4. n \in Nat
    <2>1. {e \in committed[old.pool] : e > old.row.frontier} \in SUBSET (1..MaxPos)
      BY <1>1, OpenPass, Zenon DEF IInv, TypeOK, Pos
    <2> QED BY <2>1, CountNat, BoundsAssumption, Zenon
  <1> HIDE DEF n
  <1>5. me \in Worker
    BY <1>2, <1>4, Zenon DEF Worker, WorkerPc
  <1>6. PassOK(me, settlement[me.pool])
    BY <1>1, <1>2, OpenPass, Zenon DEF PassOK, Decision, Worker
  <1>7. me.pool = old.pool /\ me.own = old.own /\ me.reset = old.reset
    BY <1>2, Zenon DEF Worker
  <1> HIDE DEF me
  <1> QED BY <1>1, <1>3, <1>5, <1>6, <1>7, OpenPass, LocalStep, ZenonT(60)

\* decide_queue takes the recalc_backlog row only when the feed's transaction
\* has not bumped it.
LEMMA DecideStep ==
    ASSUME IInv, NEW w \in Workers, DecideQueue(w)
    PROVE  IInv'
  <1> DEFINE old == worker[w]
             c == IF old.own THEN old.row ELSE settlement[old.pool]
             again == [old EXCEPT !.pc = "claimed", !.reset = TRUE, !.claim = c]
             done == [old EXCEPT !.pc = "decided", !.reset = TRUE]
             me == IF w \notin Steppers /\ Keep(old) THEN again ELSE done
  <1>1. /\ old.pc = "counted" /\ old.pool \notin feed.bumped
        /\ worker' = [worker EXCEPT ![w] = me]
    BY Zenon DEF DecideQueue
  <1>2. old \in Worker /\ c \in Row
    BY <1>1, OpenPass, Zenon DEF Worker, IInv, TypeOK
  <1>3. UNCHANGED <<tables, slot, feed>> /\ raced' = raced /\ crashes' = crashes
    BY Zenon DEF DecideQueue, history
  <1>4. again \in Worker /\ PassOK(again, settlement[again.pool])
    BY <1>1, <1>2, OpenPass, ZenonT(60) DEF PassOK, Decision, Worker, WorkerPc
  <1>5. done \in Worker /\ PassOK(done, settlement[done.pool])
    BY <1>1, <1>2, OpenPass, ZenonT(60) DEF PassOK, Decision, Worker, WorkerPc
  <1>6. me.pool = old.pool /\ me.own = old.own
    BY <1>2, Zenon DEF Worker
  <1>7. me \in Worker /\ PassOK(me, settlement[me.pool])
    <2> HIDE DEF again, done
    <2> QED BY <1>4, <1>5, Zenon
  <1> HIDE DEF me
  <1> QED BY <1>1, <1>3, <1>6, <1>7, OpenPass, LocalStep, ZenonT(60)

\* A pass that rolls back leaves the rows as they were and frees its locks.
LEMMA AbortStep ==
    ASSUME IInv, NEW w \in Workers, worker[w].pc # "idle",
           worker' = [worker EXCEPT ![w] = IdleWorker(worker[w].pool)],
           UNCHANGED <<tables, slot, feed, raced>>, crashes' \in 0..MaxCrashes
    PROVE  IInv'
  <1> DEFINE me == IdleWorker(worker[w].pool)
  <1>1. me \in Worker /\ me.pc = "idle"
    BY OpenPass, IdleTypes, Zenon DEF IdleWorker
  <1> HIDE DEF me
  <1> QED BY <1>1, LocalStep, Zenon DEF me

\* Appending to the WAL changes no entry of the batch.
LEMMA AppendStable ==
    ASSUME TypeOK, IndexOK, NEW x \in WalEntry, wal' = Append(wal, x),
           cursor' = cursor, feed' = feed
    PROVE  /\ wal' \in Seq(WalEntry) /\ Len(wal') = Len(wal) + 1
           /\ BatchPools' = BatchPools
  <1>1. wal' \in Seq(WalEntry) /\ Len(wal') = Len(wal) + 1
    BY DEF TypeOK
  <1>2. Batch' = Batch /\ Batch \subseteq 1..Len(wal)
    BY BatchTypes, Zenon DEF Batch
  <1>3. \A i \in Batch : wal'[i] = wal[i]
    BY <1>2 DEF TypeOK
  <1> QED BY <1>1, <1>2, <1>3, Zenon DEF BatchPools

\* The commit of a pass: it drops the queue row only with no floor, an empty
\* tail and hence no throttle, and never one the feed's transaction relies on.
LEMMA CommitStep ==
    ASSUME IInv, NEW w \in Workers, CommitPass(w)
    PROVE  IInv'
  <1> DEFINE me == worker[w]
             p == me.pool
  <1>1. /\ me.pc = "decided" /\ committed' = committed
        /\ settlement' = IF me.own THEN [settlement EXCEPT ![p] = me.row]
                         ELSE settlement
        /\ folded' = [folded EXCEPT ![p] = me.fold]
        /\ backlog' = IF p \in StrictPools THEN [backlog EXCEPT ![p] = me.tail]
                      ELSE backlog
        /\ throttled' = IF p \in StrictPools THEN Throttle(p, me.tail)
                        ELSE throttled
        /\ queue' = IF Keep(me) THEN queue \cup {p} ELSE queue \ {p}
        /\ wal' = IF me.adjusted THEN Append(wal, [pool |-> p, pos |-> 0])
                  ELSE wal
        /\ worker' = [worker EXCEPT ![w] = IdleWorker(p)]
        /\ cursor' = cursor /\ applied' = applied /\ feed' = feed
        /\ raced' = raced /\ crashes' = crashes
    BY Zenon DEF CommitPass, slot, history
  <1>2. /\ me \in Worker /\ p \in Pools /\ me.row \in Row /\ me.tail \in Nat
        /\ PassOK(me, settlement[p]) /\ me.reset
        /\ me.own => feed.floors[p] = 0
        /\ p \notin feed.bumped
    <2>1. /\ me \in Worker /\ p \in Pools
          /\ PassOK(me, settlement[p])
          /\ me.own => feed.floors[p] = 0
          /\ me.reset => p \notin feed.bumped
      BY <1>1, OpenPass, Zenon
    <2>2. me.reset
      BY <1>1, <2>1, Zenon DEF PassOK
    <2>3. me.row \in Row /\ me.tail \in Nat
      BY <2>1, Zenon DEF Worker
    <2> QED BY <2>1, <2>2, <2>3, Zenon
  <1>3. /\ ~me.own => settlement[p].frontier = 0
        /\ me.own => /\ me.row.frontier # 0 /\ p \in StrictPools
                     /\ me.row.floor # 0 => me.pending
    BY <1>1, <1>2, Zenon DEF PassOK, Decision
  <1>4. /\ settlement \in [Pools -> Row] /\ backlog \in [Pools -> Nat]
        /\ queue \subseteq Pools /\ throttled \subseteq Pools
        /\ worker \in [Workers -> Worker]
        /\ Len(wal) \in Nat /\ cursor \in Nat /\ applied \in Nat
        /\ feed.bumped \subseteq Pools
        /\ feed.anchor \in Nat /\ feed.upto \in Nat
    BY DEF IInv, TypeOK, Feed
  <1>5. /\ wal' \in Seq(WalEntry) /\ Len(wal') >= Len(wal) /\ Len(wal') \in Nat
        /\ BatchPools' = BatchPools
    <2>1. [pool |-> p, pos |-> 0] \in WalEntry
      BY <1>2, BoundsAssumption DEF WalEntry
    <2>2. TypeOK /\ IndexOK
      BY Zenon DEF IInv
    <2>3. CASE me.adjusted
      <3>1. /\ wal' = Append(wal, [pool |-> p, pos |-> 0])
            /\ cursor' = cursor /\ feed' = feed
        BY <1>1, <2>3, Zenon
      <3>2. wal' \in Seq(WalEntry) /\ Len(wal') = Len(wal) + 1
            /\ BatchPools' = BatchPools
        BY <2>1, <2>2, <3>1, AppendStable, Zenon
      <3> QED BY <1>4, <3>2
    <2>4. CASE ~me.adjusted
      <3>1. wal' = wal /\ cursor' = cursor /\ feed' = feed
        BY <1>1, <2>4, Zenon
      <3>2. wal \in Seq(WalEntry)
        BY <2>2, Zenon DEF TypeOK
      <3>3. BatchPools' = BatchPools
        BY <3>1, Zenon DEF BatchPools, Batch
      <3> QED BY <1>4, <3>1, <3>2, <3>3, SMTT(60)
    <2> QED BY <2>3, <2>4, Zenon
  <1>6. \A q \in Pools : q # p =>
          /\ settlement'[q] = settlement[q] /\ backlog'[q] = backlog[q]
          /\ q \in queue' <=> q \in queue
          /\ q \in throttled' <=> q \in throttled
    <2> SUFFICES ASSUME NEW q \in Pools, q # p
                 PROVE  /\ settlement'[q] = settlement[q] /\ backlog'[q] = backlog[q]
                        /\ q \in queue' <=> q \in queue
                        /\ q \in throttled' <=> q \in throttled
      BY Zenon
    <2>1. settlement'[q] = settlement[q]
      BY <1>1, <1>4, Zenon
    <2>2. backlog'[q] = backlog[q]
      BY <1>1, <1>4, Zenon
    <2>3. q \in queue' <=> q \in queue
      BY <1>1, Zenon
    <2>4. q \in throttled' <=> q \in throttled
      BY <1>1, Zenon DEF Throttle
    <2> QED BY <2>1, <2>2, <2>3, <2>4, Zenon
  <1>7. /\ settlement' \in [Pools -> Row]
        /\ settlement'[p] = IF me.own THEN me.row ELSE settlement[p]
    BY <1>1, <1>2, <1>4, Zenon
  <1>8. /\ backlog' \in [Pools -> Nat]
        /\ backlog'[p] = IF p \in StrictPools THEN me.tail ELSE backlog[p]
    BY <1>1, <1>2, <1>4, Zenon
  <1>9. /\ IdleWorker(p) \in Worker /\ IdleWorker(p).pc = "idle"
    BY <1>2, IdleTypes, Zenon DEF IdleWorker
  <1>10. /\ worker' \in [Workers -> Worker] /\ worker'[w].pc = "idle"
         /\ \A v \in Workers : v # w => worker'[v] = worker[v]
    BY <1>1, <1>4, <1>9, Zenon
  <1>11. TypeOK'
    <2>1. me.fold \in SUBSET Pos
      BY <1>2, Zenon DEF Worker
    <2>2. folded' \in [Pools -> SUBSET Pos]
      <3>1. folded \in [Pools -> SUBSET Pos]
        BY Zenon DEF IInv, TypeOK
      <3> QED BY <1>1, <2>1, <3>1, ZenonT(60)
    <2>3. throttled' \subseteq Pools
      BY <1>1, <1>2, <1>4, Zenon DEF Throttle
    <2>4. queue' \subseteq Pools
      BY <1>1, <1>2, <1>4, Zenon
    <2>5. TypeOK
      BY Zenon DEF IInv
    <2> QED BY <1>1, <1>5, <1>7, <1>8, <1>10, <2>2, <2>3, <2>4, <2>5,
               ZenonT(60) DEF TypeOK
  <1>12. IndexOK'
    <2>1. IndexOK
      BY Zenon DEF IInv
    <2> QED BY <1>1, <1>4, <1>5, <2>1 DEF IndexOK
  <1>13. Exclusive'
    <2>1. Exclusive
      BY Zenon DEF IInv
    <2> QED BY <1>10, <2>1, ZenonT(60) DEF Exclusive
  <1>14. PassesOK'
    <2> SUFFICES ASSUME NEW v \in Workers, worker'[v].pc # "idle"
                 PROVE  PassOK(worker[v], settlement[worker[v].pool])'
      BY Zenon DEF PassesOK
    <2>1. v # w /\ worker'[v] = worker[v]
      BY <1>10, Zenon
    <2>2. /\ worker[v].pool \in Pools /\ worker[v].pool # p
          /\ PassOK(worker[v], settlement[worker[v].pool])
      BY <1>1, <2>1, OpenPass, ZenonT(60)
    <2>3. /\ settlement'[worker[v].pool] = settlement[worker[v].pool]
          /\ worker[v].pool \in queue' <=> worker[v].pool \in queue
      BY <1>6, <2>2, Zenon
    <2> QED BY <2>1, <2>2, <2>3, ZenonT(60) DEF PassOK
  <1>15. FeedOK'
    <2>1. FeedOK
      BY Zenon DEF IInv
    <2>2. ASSUME NEW q \in Pools, feed.floors[q] # 0
          PROVE  /\ q # p /\ settlement'[q] = settlement[q]
                 /\ ~SettleRowLocked(q)'
      <3>1. settlement[q].frontier # 0 /\ ~SettleRowLocked(q)
        BY <2>1, <2>2, Zenon DEF FeedOK
      <3>2. q # p
        BY <1>2, <1>3, <2>2, <3>1, Zenon
      <3>3. ASSUME NEW v \in Workers, worker'[v].pc # "idle",
                   worker'[v].pool = q, worker'[v].own
            PROVE  FALSE
        <4>1. v # w /\ worker'[v] = worker[v]
          BY <1>10, <3>3, Zenon
        <4> QED BY <3>1, <3>3, <4>1, Zenon DEF SettleRowLocked, Active
      <3>4. ~SettleRowLocked(q)'
        BY <3>3, Zenon DEF SettleRowLocked, Active
      <3> QED BY <1>6, <3>2, <3>4, Zenon
    <2>3. ASSUME NEW q \in feed.bumped
          PROVE  q # p /\ ~BacklogRowLocked(q)'
      <3>1. ~BacklogRowLocked(q)
        BY <2>1, Zenon DEF FeedOK
      <3>2. ASSUME NEW v \in Workers, worker'[v].pc # "idle",
                   worker'[v].pool = q, worker'[v].reset
            PROVE  FALSE
        <4>1. v # w /\ worker'[v] = worker[v]
          BY <1>10, <3>2, Zenon
        <4> QED BY <3>1, <3>2, <4>1, Zenon DEF BacklogRowLocked, Active
      <3>3. ~BacklogRowLocked(q)'
        BY <3>2, Zenon DEF BacklogRowLocked, Active
      <3> QED BY <1>2, <3>3, Zenon
    <2>4. feed' = feed
      BY <1>1, Zenon
    <2> QED BY <1>4, <1>5, <1>6, <2>1, <2>2, <2>3, <2>4, ZenonT(60) DEF FeedOK
  <1>16. RowsOK'
    <2> SUFFICES ASSUME NEW q \in Pools
                 PROVE  /\ settlement'[q].frontier = 0 => settlement'[q].floor = 0
                        /\ settlement'[q].frontier # 0 => q \in StrictPools
      BY Zenon DEF RowsOK
    <2>1. /\ settlement[q].frontier = 0 => settlement[q].floor = 0
          /\ settlement[q].frontier # 0 => q \in StrictPools
      BY Zenon DEF IInv, RowsOK
    <2>2. CASE q # p
      BY <1>6, <2>1, <2>2, Zenon
    <2>3. CASE q = p
      BY <1>3, <1>7, <2>1, <2>3, Zenon
    <2> QED BY <2>2, <2>3, Zenon
  <1>17. FloorQueued'
    <2> SUFFICES ASSUME NEW q \in Pools, settlement'[q].floor # 0
                 PROVE  q \in queue'
      BY Zenon DEF FloorQueued
    <2>1. CASE q # p
      BY <1>6, <2>1, Zenon DEF IInv, FloorQueued
    <2>2. CASE q = p
      <3>1. me.own
        BY <1>3, <1>7, <2>2, Zenon DEF IInv, RowsOK
      <3>2. Keep(me)
        BY <1>3, <1>7, <2>2, <3>1, Zenon DEF Keep
      <3> QED BY <1>1, <2>2, <3>2, Zenon
    <2> QED BY <2>1, <2>2, Zenon
  <1>18. CounterQueued'
    <2> SUFFICES ASSUME NEW q \in Pools, backlog'[q] # 0 \/ q \in throttled'
                 PROVE  q \in queue'
      BY Zenon DEF CounterQueued
    <2>1. CASE q # p
      BY <1>6, <2>1, Zenon DEF IInv, CounterQueued
    <2>2. CASE q = p /\ p \in StrictPools
      <3>1. backlog'[p] = me.tail /\ throttled' = Throttle(p, me.tail)
        BY <1>1, <1>8, <2>2, Zenon
      <3>2. me.tail # 0
        BY <1>2, <2>2, <3>1, BoundsAssumption DEF Throttle
      <3>3. Keep(me)
        BY <1>2, <3>2, SMTT(60) DEF Keep
      <3> QED BY <1>1, <2>2, <3>3, Zenon
    <2>3. CASE q = p /\ p \notin StrictPools
      BY <1>1, <1>8, <2>3, Zenon DEF IInv, OnlyStrictThrottled
    <2> QED BY <2>1, <2>2, <2>3, Zenon
  <1>19. OnlyStrictThrottled'
    <2> SUFFICES ASSUME NEW q \in Pools, q \in throttled' \/ backlog'[q] # 0
                 PROVE  q \in StrictPools
      BY Zenon DEF OnlyStrictThrottled
    <2>1. CASE q # p
      BY <1>6, <2>1, Zenon DEF IInv, OnlyStrictThrottled
    <2>2. CASE q = p
      BY <1>1, <1>8, <2>2, Zenon DEF IInv, OnlyStrictThrottled
    <2> QED BY <2>1, <2>2, Zenon
  <1> QED BY <1>11, <1>12, <1>13, <1>14, <1>15, <1>16, <1>17, <1>18,
            <1>19, ZenonT(60) DEF IInv

-----------------------------------------------------------------------------
(* Steps of the hot path and of the feed.                                  *)

\* A submitted line commits: it extends the event log and the WAL and leaves
\* every recalc table alone.
LEMMA PostStep ==
    ASSUME IInv, NEW p \in Pools, NEW e \in Pos, PostLine(p, e)
    PROVE  IInv'
  <1>1. /\ committed' = [committed EXCEPT ![p] = @ \cup {e}]
        /\ wal' = Append(wal, [pool |-> p, pos |-> e])
        /\ raced' \in [Pools -> SUBSET Pos]
        /\ UNCHANGED <<settlement, folded, queue, backlog, throttled, feed,
                       worker, crashes, cursor, applied>>
    BY Zenon DEF PostLine, slot, IInv, TypeOK
  <1>2. [pool |-> p, pos |-> e] \in WalEntry
    BY BoundsAssumption DEF WalEntry, Pos
  <1>3. /\ wal' \in Seq(WalEntry) /\ Len(wal') = Len(wal) + 1
        /\ BatchPools' = BatchPools /\ Len(wal) \in Nat
    BY <1>1, <1>2, AppendStable, SMTT(60) DEF IInv, TypeOK
  <1>4. TypeOK'
    BY <1>1, <1>3, Zenon DEF IInv, TypeOK
  <1>5. IndexOK'
    BY <1>1, <1>3, SMTT(60) DEF IInv, IndexOK, TypeOK, Feed
  <1>6. FeedOK'
    <2>1. \A q \in Pools : SettleRowLocked(q)' = SettleRowLocked(q)
                            /\ BacklogRowLocked(q)' = BacklogRowLocked(q)
      BY <1>1, Zenon DEF SettleRowLocked, BacklogRowLocked, Active
    <2>2. feed.bumped \subseteq Pools
      BY Zenon DEF IInv, TypeOK, Feed
    <2> QED BY <1>1, <1>3, <2>1, <2>2, ZenonT(60) DEF IInv, FeedOK
  <1>7. Exclusive' /\ PassesOK'
    BY <1>1, ZenonT(60) DEF IInv, Exclusive, PassesOK, PassOK
  <1>8. RowsOK' /\ FloorQueued' /\ CounterQueued' /\ OnlyStrictThrottled'
    BY <1>1, Zenon DEF IInv, RowsOK, FloorQueued, CounterQueued, OnlyStrictThrottled
  <1> QED BY <1>4, <1>5, <1>6, <1>7, <1>8, Zenon DEF IInv

\* A step that only moves the feed within its transaction keeps the invariant
\* if its own record stays sound.
LEMMA FeedLocalStep ==
    ASSUME IInv, feed' \in Feed, UNCHANGED <<tables, slot, worker, raced>>,
           crashes' \in 0..MaxCrashes, IndexOK', FeedOK'
    PROVE  IInv'
  <1> USE DEF tables, slot
  <1>1. TypeOK'
    BY Zenon DEF IInv, TypeOK
  <1>2. Exclusive' /\ PassesOK'
    BY ZenonT(60) DEF IInv, Exclusive, PassesOK, PassOK
  <1>3. RowsOK' /\ FloorQueued' /\ CounterQueued' /\ OnlyStrictThrottled'
    BY Zenon DEF IInv, RowsOK, FloorQueued, CounterQueued, OnlyStrictThrottled
  <1> QED BY <1>1, <1>2, <1>3, Zenon DEF IInv

\* The locks the feed's own steps do not touch.
LEMMA LocksStable ==
    ASSUME UNCHANGED worker
    PROVE  \A p \in Pools : /\ SettleRowLocked(p)' = SettleRowLocked(p)
                            /\ BacklogRowLocked(p)' = BacklogRowLocked(p)
  BY Zenon DEF SettleRowLocked, BacklogRowLocked, Active

\* Rolling the feed's transaction back, in a crash or as a deadlock victim.
LEMMA FeedAbortStep ==
    ASSUME IInv, feed' = IdleFeed, UNCHANGED <<tables, slot, worker, raced>>,
           crashes' \in 0..MaxCrashes
    PROVE  IInv'
  <1>1. IdleFeed \in Feed
    BY IdleTypes, Zenon
  <1>2. IndexOK'
    BY SMTT(60) DEF IInv, IndexOK, IdleFeed, tables, slot, TypeOK
  <1>3. FeedOK'
    BY Zenon DEF FeedOK, IdleFeed
  <1> QED BY <1>1, <1>2, <1>3, FeedLocalStep, Zenon

\* The feed outside its transaction: any batch within the WAL is sound.
LEMMA PeekAt ==
    ASSUME IInv, UNCHANGED <<tables, slot, worker, raced>>, crashes' = crashes,
           feed.pc \in {"idle", "anchored"},
           NEW pc \in {"anchored", "peeked", "applied"},
           NEW a \in Nat, NEW u \in Nat,
           feed' = [feed EXCEPT !.pc = pc, !.anchor = a, !.upto = u],
           a <= Len(wal), u <= Len(wal), pc = "applied" => u <= applied
    PROVE  IInv'
  <1>1. /\ wal' = wal /\ cursor' = cursor /\ applied' = applied /\ feed \in Feed
        /\ crashes' \in 0..MaxCrashes
    BY Zenon DEF tables, slot, IInv, TypeOK
  <1>2. /\ feed' \in Feed /\ feed'.pc = pc /\ feed'.anchor = a /\ feed'.upto = u
        /\ feed'.floors = feed.floors /\ feed'.bumped = feed.bumped
        /\ feed'.marks = feed.marks
    BY <1>1, ZenonT(60) DEF Feed, FeedPc
  <1>3. IndexOK'
    BY <1>1, <1>2, Zenon DEF IInv, IndexOK
  <1>4. /\ feed.marks = {} /\ feed.bumped = {}
        /\ \A p \in Pools : feed.floors[p] = 0
    BY Zenon DEF IInv, FeedOK, Applying
  <1>5. FeedOK'
    BY <1>2, <1>4, Zenon DEF FeedOK
  <1> QED BY <1>1, <1>2, <1>3, <1>5, FeedLocalStep, Zenon

\* ingest_once reads the flush position and peeks the slot: neither writes a
\* table.
LEMMA AnchorPeekStep ==
    ASSUME IInv, FeedAnchor \/ FeedPeek
    PROVE  IInv'
  <1>1. /\ UNCHANGED <<tables, slot, worker, raced>> /\ crashes' = crashes
        /\ feed.pc \in {"idle", "anchored"}
    BY Zenon DEF FeedAnchor, FeedPeek, history
  <1>2. /\ feed \in Feed /\ Len(wal) \in Nat /\ cursor \in Nat
        /\ feed.anchor \in Nat /\ feed.upto \in Nat
        /\ feed.anchor <= Len(wal) /\ feed.upto <= Len(wal)
        /\ cursor <= applied
    BY SMTT(60) DEF IInv, TypeOK, IndexOK, Feed
  <1>3. CASE FeedAnchor
    <2>1. feed' = [feed EXCEPT !.pc = "anchored", !.anchor = Len(wal),
                               !.upto = feed.upto]
      BY <1>2, <1>3, ZenonT(60) DEF FeedAnchor, Feed
    <2>2. Len(wal) <= Len(wal)
      BY <1>2
    <2> QED BY <1>1, <1>2, <2>1, <2>2, PeekAt, Zenon
  <1>4. CASE feed' = [feed EXCEPT !.pc = "applied", !.upto = feed.anchor]
             /\ Len(wal) = cursor
    <2>1. feed' = [feed EXCEPT !.pc = "applied", !.anchor = feed.anchor,
                               !.upto = feed.anchor]
      BY <1>2, <1>4, Zenon DEF Feed
    <2>2. feed.anchor <= applied
      BY <1>2, <1>4 DEF IInv, TypeOK
    <2> QED BY <1>1, <1>2, <2>1, <2>2, PeekAt, Zenon
  <1>5. ASSUME NEW n \in (cursor + 1)..Len(wal),
               feed' = [feed EXCEPT !.pc = "peeked", !.upto = n, !.anchor = 0]
        PROVE  IInv'
    <2>1. feed' = [feed EXCEPT !.pc = "peeked", !.anchor = 0, !.upto = n]
      BY <1>2, <1>5, Zenon DEF Feed
    <2>2. n \in Nat /\ n <= Len(wal) /\ 0 <= Len(wal)
      BY <1>2
    <2> QED BY <1>1, <2>1, <2>2, PeekAt, Zenon
  <1> QED BY <1>3, <1>4, <1>5, Zenon DEF FeedPeek

\* The floor UPDATE chooses its rows on the statement snapshot, among settled
\* pools only.
LEMMA FloorsStep ==
    ASSUME IInv, FeedFloors
    PROVE  IInv'
  <1> DEFINE T == {p \in BatchPools : \E m \in Positions(p) :
                     Earliest(p, m) /\ Backdates(m, settlement[p])}
  <1>1. /\ UNCHANGED <<tables, slot, worker, raced>> /\ crashes' = crashes
        /\ feed.pc = "peeked" /\ feed' = [feed EXCEPT !.pc = "floors", !.todo = T]
    BY Zenon DEF FeedFloors, history
  <1>2. T \subseteq BatchPools /\ BatchPools \subseteq Pools
    BY BatchTypes, Zenon DEF IInv
  <1> HIDE DEF T
  <1>3. /\ feed \in Feed /\ crashes' \in 0..MaxCrashes
        /\ wal' = wal /\ cursor' = cursor /\ applied' = applied
        /\ settlement' = settlement /\ queue' = queue
    BY <1>1, Zenon DEF IInv, TypeOK, tables, slot
  <1>4. /\ feed' \in Feed /\ feed'.pc = "floors" /\ feed'.todo = T
        /\ feed'.anchor = feed.anchor /\ feed'.upto = feed.upto
        /\ feed'.floors = feed.floors /\ feed'.bumped = feed.bumped
        /\ feed'.marks = feed.marks
    BY <1>1, <1>2, <1>3, ZenonT(60) DEF Feed, FeedPc
  <1>5. IndexOK' /\ BatchPools' = BatchPools
    BY <1>1, <1>3, <1>4, Zenon DEF IInv, IndexOK, BatchPools, Batch
  <1>6. FeedOK'
    BY <1>1, <1>2, <1>3, <1>4, <1>5, LocksStable, ZenonT(60)
       DEF IInv, FeedOK, Applying, TypeOK, Feed
  <1> QED BY <1>1, <1>3, <1>4, <1>5, <1>6, FeedLocalStep, Zenon

\* A floor is only written to a row no pass has settled, with a frontier.
LEMMA FloorRowStep ==
    ASSUME IInv, NEW p \in Pools, FeedFloorRow(p)
    PROVE  IInv'
  <1>1. /\ UNCHANGED <<tables, slot, worker, raced>> /\ crashes' = crashes
        /\ feed.pc = "floors" /\ p \in feed.todo /\ ~SettleRowLocked(p)
    BY Zenon DEF FeedFloorRow, history
  <1>2. PICK m \in Positions(p) :
           feed' = [feed EXCEPT
              !.todo = @ \ {p},
              !.floors[p] = IF Backdates(m, settlement[p]) THEN m ELSE 0]
    BY ZenonT(60) DEF FeedFloorRow
  <1>3. /\ feed \in Feed /\ crashes' \in 0..MaxCrashes
        /\ wal' = wal /\ cursor' = cursor /\ applied' = applied
        /\ settlement' = settlement /\ queue' = queue
    BY <1>1, Zenon DEF IInv, TypeOK, tables, slot
  <1>4. m \in Nat
    BY BatchTypes DEF IInv, Pos
  <1> DEFINE f == IF Backdates(m, settlement[p]) THEN m ELSE 0
  <1>5. f \in Nat /\ (f # 0 => settlement[p].frontier # 0)
    BY <1>4, Zenon DEF Backdates
  <1> HIDE DEF f
  <1>6. /\ feed' \in Feed /\ feed'.pc = "floors" /\ feed'.todo = feed.todo \ {p}
        /\ feed'.anchor = feed.anchor /\ feed'.upto = feed.upto
        /\ feed'.floors = [feed.floors EXCEPT ![p] = f]
        /\ feed'.bumped = feed.bumped /\ feed'.marks = feed.marks
    BY <1>1, <1>2, <1>3, <1>5, Zenon DEF Feed, FeedPc, f
  <1>7. IndexOK' /\ BatchPools' = BatchPools
    BY <1>1, <1>3, <1>6, ZenonT(60) DEF IInv, IndexOK, BatchPools, Batch
  <1>8. feed.floors \in [Pools -> Nat] /\ feed.bumped \subseteq Pools
    BY <1>3, Zenon DEF Feed
  <1>9. FeedOK'
    BY <1>1, <1>3, <1>5, <1>6, <1>7, <1>8, LocksStable, ZenonT(60)
       DEF IInv, FeedOK, Applying
  <1> QED BY <1>1, <1>3, <1>6, <1>7, <1>9, FeedLocalStep, ZenonT(60)

\* The counter bump addresses the batch's strict pools only.
LEMMA BumpsStep ==
    ASSUME IInv, FeedBumps
    PROVE  IInv'
  <1> DEFINE T == {p \in StrictPools : Physical(p) # {}}
  <1>1. /\ UNCHANGED <<tables, slot, worker, raced>> /\ crashes' = crashes
        /\ feed.pc = "floors" /\ feed' = [feed EXCEPT !.pc = "bumps", !.todo = T]
    BY Zenon DEF FeedBumps, history
  <1>2. T \subseteq BatchPools /\ T \subseteq StrictPools /\ T \subseteq Pools
    BY PoolsAssumption, Zenon DEF BatchPools, Physical
  <1> HIDE DEF T
  <1>3. /\ feed \in Feed /\ crashes' \in 0..MaxCrashes
        /\ wal' = wal /\ cursor' = cursor /\ applied' = applied
        /\ settlement' = settlement /\ queue' = queue
    BY <1>1, Zenon DEF IInv, TypeOK, tables, slot
  <1>4. /\ feed' \in Feed /\ feed'.pc = "bumps" /\ feed'.todo = T
        /\ feed'.anchor = feed.anchor /\ feed'.upto = feed.upto
        /\ feed'.floors = feed.floors /\ feed'.bumped = feed.bumped
        /\ feed'.marks = feed.marks
    BY <1>1, <1>2, <1>3, Zenon DEF Feed, FeedPc
  <1>5. IndexOK' /\ BatchPools' = BatchPools
    BY <1>1, <1>3, <1>4, Zenon DEF IInv, IndexOK, BatchPools, Batch
  <1>6. FeedOK'
    BY <1>1, <1>2, <1>3, <1>4, <1>5, LocksStable, ZenonT(60)
       DEF IInv, FeedOK, Applying, TypeOK, Feed
  <1> QED BY <1>1, <1>3, <1>4, <1>5, <1>6, FeedLocalStep, ZenonT(60)

\* A bump waits until no open pass holds the recalc_backlog row.
LEMMA BumpRowStep ==
    ASSUME IInv, NEW p \in Pools, FeedBumpRow(p)
    PROVE  IInv'
  <1>1. /\ UNCHANGED <<tables, slot, worker, raced>> /\ crashes' = crashes
        /\ feed.pc = "bumps" /\ p \in feed.todo /\ ~BacklogRowLocked(p)
        /\ feed' = [feed EXCEPT !.todo = @ \ {p}, !.bumped = @ \cup {p}]
    BY Zenon DEF FeedBumpRow, history
  <1>2. /\ feed \in Feed /\ crashes' \in 0..MaxCrashes
        /\ wal' = wal /\ cursor' = cursor /\ applied' = applied
        /\ settlement' = settlement /\ queue' = queue
    BY <1>1, Zenon DEF IInv, TypeOK, tables, slot
  <1>3. /\ feed' \in Feed /\ feed'.pc = "bumps" /\ feed'.todo = feed.todo \ {p}
        /\ feed'.anchor = feed.anchor /\ feed'.upto = feed.upto
        /\ feed'.floors = feed.floors /\ feed'.bumped = feed.bumped \cup {p}
        /\ feed'.marks = feed.marks
    BY <1>1, <1>2, Zenon DEF Feed, FeedPc
  <1>4. IndexOK' /\ BatchPools' = BatchPools
    BY <1>1, <1>2, <1>3, Zenon DEF IInv, IndexOK, BatchPools, Batch
  <1>5. FeedOK'
    BY <1>1, <1>2, <1>3, <1>4, LocksStable, ZenonT(60)
       DEF IInv, FeedOK, Applying, TypeOK, Feed
  <1> QED BY <1>1, <1>2, <1>3, <1>4, <1>5, FeedLocalStep, ZenonT(60)

\* The marks come last and address every pool of the batch, so every floored
\* or bumped pool is still to be marked.
LEMMA MarksStep ==
    ASSUME IInv, FeedMarks
    PROVE  IInv'
  <1>1. /\ UNCHANGED <<tables, slot, worker, raced>> /\ crashes' = crashes
        /\ feed.pc = "bumps"
        /\ feed' = [feed EXCEPT !.pc = "marks", !.todo = BatchPools]
    BY Zenon DEF FeedMarks, history
  <1>2. /\ feed \in Feed /\ crashes' \in 0..MaxCrashes
        /\ wal' = wal /\ cursor' = cursor /\ applied' = applied
        /\ settlement' = settlement /\ queue' = queue
        /\ BatchPools \subseteq Pools
    BY <1>1, BatchTypes, Zenon DEF IInv, TypeOK, tables, slot
  <1>3. /\ feed' \in Feed /\ feed'.pc = "marks" /\ feed'.todo = BatchPools
        /\ feed'.anchor = feed.anchor /\ feed'.upto = feed.upto
        /\ feed'.floors = feed.floors /\ feed'.bumped = feed.bumped
        /\ feed'.marks = feed.marks
    BY <1>1, <1>2, Zenon DEF Feed, FeedPc
  <1>4. IndexOK' /\ BatchPools' = BatchPools
    BY <1>1, <1>2, <1>3, ZenonT(60) DEF IInv, IndexOK, BatchPools, Batch
  <1>5. FeedOK'
    BY <1>1, <1>2, <1>3, <1>4, LocksStable, ZenonT(60)
       DEF IInv, FeedOK, Applying, TypeOK, Feed
  <1> QED BY <1>1, <1>2, <1>3, <1>4, <1>5, FeedLocalStep, Zenon

\* A mark leaves the pool queued: by a new row, or by an existing one that no
\* open pass has yet changed.
LEMMA MarkRowStep ==
    ASSUME IInv, NEW p \in Pools, FeedMarkRow(p)
    PROVE  IInv'
  <1> DEFINE M == IF p \in queue THEN feed.marks ELSE feed.marks \cup {p}
  <1>1. /\ UNCHANGED <<tables, slot, worker, raced>> /\ crashes' = crashes
        /\ feed.pc = "marks" /\ p \in feed.todo
        /\ feed' = [feed EXCEPT !.todo = @ \ {p}, !.marks = M]
    BY Zenon DEF FeedMarkRow, history
  <1>2. /\ feed \in Feed /\ crashes' \in 0..MaxCrashes
        /\ wal' = wal /\ cursor' = cursor /\ applied' = applied
        /\ settlement' = settlement /\ queue' = queue
        /\ feed.marks \subseteq M /\ p \in queue \cup M /\ M \subseteq Pools
    BY <1>1, Zenon DEF IInv, TypeOK, tables, slot, Feed
  <1> HIDE DEF M
  <1>3. /\ feed' \in Feed /\ feed'.pc = "marks" /\ feed'.todo = feed.todo \ {p}
        /\ feed'.anchor = feed.anchor /\ feed'.upto = feed.upto
        /\ feed'.floors = feed.floors /\ feed'.bumped = feed.bumped
        /\ feed'.marks = M
    BY <1>1, <1>2, ZenonT(60) DEF Feed, FeedPc
  <1>4. IndexOK' /\ BatchPools' = BatchPools
    BY <1>1, <1>2, <1>3, ZenonT(60) DEF IInv, IndexOK, BatchPools, Batch
  <1>5. FeedOK'
    BY <1>1, <1>2, <1>3, <1>4, LocksStable, ZenonT(60)
       DEF IInv, FeedOK, Applying, TypeOK, Feed
  <1> QED BY <1>1, <1>2, <1>3, <1>4, <1>5, FeedLocalStep, ZenonT(60)

\* The apply commits: every pool whose floor or counter it wrote has a queue
\* row, its own mark or one a pass could not drop in the meantime.
LEMMA FeedCommitStep ==
    ASSUME IInv, FeedCommit
    PROVE  IInv'
  <1> DEFINE count(p) == IF p \in feed.bumped
                         THEN backlog[p] + Cardinality(Physical(p))
                         ELSE backlog[p]
  <1>1. /\ feed.pc = "marks" /\ feed.todo = {}
        /\ settlement' = [p \in Pools |->
             IF feed.floors[p] # 0
             THEN [settlement[p] EXCEPT !.floor = feed.floors[p]]
             ELSE settlement[p]]
        /\ backlog' = [p \in Pools |-> count(p)]
        /\ throttled' = throttled \cup {p \in feed.bumped : count(p) >= Bound}
        /\ queue' = queue \cup feed.marks
        /\ applied' = IF feed.upto > applied THEN feed.upto ELSE applied
        /\ feed' = [IdleFeed EXCEPT !.pc = "applied", !.upto = feed.upto]
        /\ UNCHANGED <<committed, wal, folded, cursor, worker, raced, crashes>>
    BY Zenon DEF FeedCommit, history
  <1>2. /\ feed \in Feed /\ feed.bumped \subseteq Pools /\ feed.marks \subseteq Pools
        /\ feed.floors \in [Pools -> Nat] /\ feed.upto \in Nat
        /\ settlement \in [Pools -> Row] /\ backlog \in [Pools -> Nat]
        /\ queue \subseteq Pools /\ throttled \subseteq Pools
        /\ cursor \in Nat /\ applied \in Nat /\ Len(wal) \in Nat
    BY SMTT(60) DEF IInv, TypeOK, Feed
  <1>3. \A p \in Pools : count(p) \in Nat
    BY <1>2, BatchTypes DEF IInv
  <1>4. \A p \in Pools :
          /\ settlement'[p] \in Row
          /\ settlement'[p].frontier = settlement[p].frontier
          /\ settlement'[p].floor =
               IF feed.floors[p] # 0 THEN feed.floors[p] ELSE settlement[p].floor
    BY <1>1, <1>2, Zenon DEF Row
  <1>5. /\ feed' \in Feed /\ feed'.pc = "applied" /\ feed'.upto = feed.upto
        /\ feed'.anchor = 0 /\ feed'.marks = {} /\ feed'.bumped = {}
        /\ \A p \in Pools : feed'.floors[p] = 0
    BY <1>1, <1>2, IdleTypes, ZenonT(60) DEF IdleFeed, Feed, FeedPc
  <1>6. TypeOK'
    <2>1. settlement' \in [Pools -> Row]
      BY <1>1, <1>4, Zenon
    <2>2. backlog' \in [Pools -> Nat]
      BY <1>1, <1>3, ZenonT(60)
    <2> QED BY <1>1, <1>2, <1>5, <2>1, <2>2, ZenonT(60) DEF IInv, TypeOK
  <1>7. IndexOK'
    BY <1>1, <1>2, <1>5 DEF IInv, IndexOK
  <1>8. Exclusive'
    BY <1>1, Zenon DEF IInv, Exclusive
  <1>9. PassesOK'
    <2> SUFFICES ASSUME NEW w \in Workers, worker[w].pc # "idle"
                 PROVE  PassOK(worker[w], settlement[worker[w].pool])'
      BY <1>1, Zenon DEF PassesOK
    <2>1. PassOK(worker[w], settlement[worker[w].pool]) /\ worker[w].pool \in Pools
      BY OpenPass, Zenon
    <2> QED BY <1>1, <1>4, <2>1, ZenonT(60) DEF PassOK
  <1>10. FeedOK'
    BY <1>5, Zenon DEF FeedOK
  <1>11. RowsOK'
    BY <1>2, <1>4, Zenon DEF IInv, RowsOK, FeedOK
  <1>12. FloorQueued'
    BY <1>1, <1>4, Zenon DEF IInv, FloorQueued, FeedOK
  <1>13. CounterQueued'
    <2> SUFFICES ASSUME NEW p \in Pools, backlog'[p] # 0 \/ p \in throttled'
                 PROVE  p \in queue'
      BY Zenon DEF CounterQueued
    <2>1. CASE p \in feed.bumped
      BY <1>1, <2>1, Zenon DEF IInv, FeedOK
    <2>2. CASE p \notin feed.bumped
      BY <1>1, <2>2, Zenon DEF IInv, CounterQueued
    <2> QED BY <2>1, <2>2, Zenon
  <1>14. OnlyStrictThrottled'
    BY <1>1, <1>2, Zenon DEF IInv, OnlyStrictThrottled, FeedOK
  <1> QED BY <1>6, <1>7, <1>8, <1>9, <1>10, <1>11, <1>12, <1>13, <1>14, Zenon
             DEF IInv

\* advance confirms to the slot no more than has been applied.
LEMMA AdvanceStep ==
    ASSUME IInv, FeedAdvance
    PROVE  IInv'
  <1>1. /\ feed.pc = "applied" /\ feed' = IdleFeed
        /\ cursor' = IF feed.upto > cursor THEN feed.upto ELSE cursor
        /\ UNCHANGED <<committed, wal, settlement, folded, queue, backlog,
                       throttled, applied, worker, raced, crashes>>
    BY Zenon DEF FeedAdvance, tables, history
  <1>2. TypeOK'
    BY <1>1, IdleTypes, ZenonT(60) DEF IInv, TypeOK, Feed
  <1>3. IndexOK'
    BY <1>1, SMTT(60) DEF IInv, IndexOK, TypeOK, Feed, IdleFeed
  <1>4. FeedOK'
    BY <1>1, ZenonT(60) DEF FeedOK, IdleFeed
  <1>5. Exclusive' /\ PassesOK'
    BY <1>1, ZenonT(60) DEF IInv, Exclusive, PassesOK, PassOK
  <1>6. RowsOK' /\ FloorQueued' /\ CounterQueued' /\ OnlyStrictThrottled'
    BY <1>1, Zenon DEF IInv, RowsOK, FloorQueued, CounterQueued, OnlyStrictThrottled
  <1> QED BY <1>2, <1>3, <1>4, <1>5, <1>6, Zenon DEF IInv

-----------------------------------------------------------------------------
(* The invariant, and what it gives.                                       *)

\* Every step of the system keeps the invariant.
LEMMA NextIInv == IInv /\ [Next]_vars => IInv'
  <1> SUFFICES ASSUME IInv, [Next]_vars PROVE IInv'
    BY Zenon
  <1>1. ASSUME NEW p \in Pools, NEW e \in Pos, PostLine(p, e) PROVE IInv'
    BY <1>1, PostStep, Zenon
  <1>2. CASE Ingest
    BY <1>2, AnchorPeekStep, FloorsStep, FloorRowStep, BumpsStep, BumpRowStep,
       MarksStep, MarkRowStep, FeedCommitStep, AdvanceStep, ZenonT(60) DEF Ingest
  <1>3. CASE FeedCrash
    <2>1. /\ feed' = IdleFeed /\ UNCHANGED <<tables, slot, worker, raced>>
          /\ crashes' \in 0..MaxCrashes
      BY <1>3, BoundsAssumption, SMTT(60) DEF FeedCrash, IInv, TypeOK
    <2> QED BY <2>1, FeedAbortStep, Zenon
  <1>4. ASSUME NEW w \in Workers, Work(w) PROVE IInv'
    BY <1>4, ClaimStep, DropStep, ScanStep, SettleStep, CheckStep, CountStep,
       DecideStep, CommitStep, ZenonT(60) DEF Work
  <1>5. ASSUME NEW w \in Workers, AbortPass(w) PROVE IInv'
    <2>1. /\ worker[w].pc # "idle"
          /\ worker' = [worker EXCEPT ![w] = IdleWorker(worker[w].pool)]
          /\ UNCHANGED <<tables, slot, feed, raced>>
          /\ crashes' \in 0..MaxCrashes
      BY <1>5, BoundsAssumption DEF AbortPass, IInv, TypeOK
    <2> QED BY <2>1, AbortStep, ZenonT(60)
  <1>6. ASSUME NEW w \in Workers, BreakDeadlock(w) PROVE IInv'
    <2>1. /\ UNCHANGED <<tables, slot, raced>> /\ crashes' \in 0..MaxCrashes
          /\ worker[w].pc # "idle"
      BY <1>6, ZenonT(60)
         DEF BreakDeadlock, CrossLocked, FeedWaitsFor, history, IInv, TypeOK
    <2>2. CASE feed' = IdleFeed /\ UNCHANGED worker
      BY <2>1, <2>2, FeedAbortStep, Zenon
    <2>3. CASE worker' = [worker EXCEPT ![w] = IdleWorker(worker[w].pool)]
               /\ UNCHANGED feed
      BY <2>1, <2>3, AbortStep, ZenonT(60)
    <2> QED BY <1>6, <2>2, <2>3, Zenon DEF BreakDeadlock
  <1>7. CASE UNCHANGED vars
    <2>1. UNCHANGED <<tables, slot, worker, raced>> /\ crashes' \in 0..MaxCrashes
          /\ feed' = feed /\ wal' = wal /\ cursor' = cursor /\ applied' = applied
          /\ queue' = queue /\ settlement' = settlement
      BY <1>7, Zenon DEF vars, tables, slot, history, IInv, TypeOK
    <2>2. IndexOK' /\ feed' \in Feed
      BY <2>1, Zenon DEF IInv, IndexOK, TypeOK
    <2>3. BatchPools' = BatchPools
      BY <2>1, Zenon DEF BatchPools, Batch
    <2>4. /\ feed'.pc = feed.pc /\ feed'.todo = feed.todo
          /\ feed'.floors = feed.floors /\ feed'.bumped = feed.bumped
          /\ feed'.marks = feed.marks
      BY <2>1, Zenon
    <2>5. FeedOK'
      <3>1. UNCHANGED worker /\ settlement' = settlement /\ queue' = queue
        BY <2>1, Zenon
      <3> QED BY <2>3, <2>4, <3>1, LocksStable, ZenonT(60)
              DEF IInv, FeedOK, Applying, TypeOK, Feed
    <2> QED BY <2>1, <2>2, <2>5, FeedLocalStep, Zenon
  <1> QED BY <1>1, <1>2, <1>3, <1>4, <1>5, <1>6, <1>7, ZenonT(60) DEF Next

\* The inductive invariant holds in every reachable state.
THEOREM Invariance == Spec => []IInv
  BY InitIInv, NextIInv, PTL DEF Spec

\* Every table, the slot and every transaction record keep their types.
THEOREM TypeCorrect == Spec => []TypeOK
  <1>1. IInv => TypeOK
    BY Zenon DEF IInv
  <1> QED BY Invariance, <1>1, PTL

\* A pool with a recost floor set always has a recalc_queue row, for any
\* number of pools, events, engine connections and crashes.
THEOREM FloorAlwaysQueued == Spec => []FloorQueued
  <1>1. IInv => FloorQueued
    BY Zenon DEF IInv
  <1> QED BY Invariance, <1>1, PTL

\* A counted or throttled pool always has a recalc_queue row, so the pass
\* that resets the counter and releases the throttle is always still to come.
THEOREM CounterAlwaysQueued == Spec => []CounterQueued
  <1>1. IInv => CounterQueued
    BY Zenon DEF IInv
  <1> QED BY Invariance, <1>1, PTL

\* Only fifo and lifo pools are ever counted or throttled.
THEOREM ThrottleOnlyStrict == Spec => []OnlyStrictThrottled
  <1>1. IInv => OnlyStrictThrottled
    BY Zenon DEF IInv
  <1> QED BY Invariance, <1>1, PTL

\* The slot never confirms an insert that was not durably applied.
THEOREM CursorNeverAhead == Spec => []CursorApplied
  <1>1. IInv => CursorApplied
    BY Zenon DEF IInv, IndexOK, CursorApplied
  <1> QED BY Invariance, <1>1, PTL
=============================================================================
