--------------------------- MODULE CommitQueueSteps ----------------------------
(***************************************************************************)
(* Every step of the committer queue keeps what is known of the rows of a  *)
(* costing and of compensations, and the steps that hand out and free      *)
(* slots keep each slot its holder's.                                      *)
(***************************************************************************)
EXTENDS CommitQueueInv

--------------------------------------------------------------------------------
(* Costings are told apart and stay together.                              *)

\* A step that writes no row and commits none, and queues requests of open
\* transactions only.
LEMMA CostingsKept ==
    ASSUME Base, Costings, written' = written, rows' = rows, txSeq <= txSeq', txSeq' \in Nat,
           \A k \in DOMAIN ring' : ring'[k].kind = "apply" =>
              \/ \E j \in DOMAIN ring : ring[j].kind = "apply" /\ ring[j].xid = ring'[k].xid
              \/ \E c \in Backends : conn[c].xid # 0 /\ conn[c].xid = ring'[k].xid,
           \A c \in Backends :
              /\ conn'[c].rows = conn[c].rows \/ conn'[c].rows = {}
              /\ \/ conn'[c].xid = conn[c].xid \/ conn'[c].xid = 0
                 \/ \A r \in written : r.xid # conn'[c].xid
              /\ \/ DOMAIN conn'[c].batch = {}
                 \/ conn'[c].batch = conn[c].batch /\ conn'[c].ctx = conn[c].ctx
    PROVE  Costings'
  <1>1. ASSUME NEW x, Past(written, txSeq, x) PROVE Past(written', txSeq', x)
    <2>1. \A r \in written : r.ctx \in Nat /\ txSeq \in Nat
      BY Zenon DEF Base, Shape
    <2> QED BY <1>1, <2>1 DEF Past
  <1>2. \A k \in DOMAIN ring' : ring'[k].kind = "apply" => Past(written', txSeq', ring'[k].xid)
    BY <1>1, Zenon DEF Costings
  <1>3. ASSUME NEW c \in Backends
        PROVE  /\ conn'[c].xid # 0 => Past(written', txSeq', conn'[c].xid)
               /\ \A k \in DOMAIN conn'[c].batch : \A r \in written' :
                     r.xid = conn'[c].batch[k].xid => r.ctx < conn'[c].ctx
               /\ \A q \in conn'[c].rows : OneCosting(written', q) \subseteq conn'[c].rows
    <2>1. conn'[c].xid # 0 => Past(written', txSeq', conn'[c].xid)
      BY <1>1, Zenon DEF Costings, Past
    <2>2. \A k \in DOMAIN conn'[c].batch : \A r \in written' :
             r.xid = conn'[c].batch[k].xid => r.ctx < conn'[c].ctx
      <3>1. CASE DOMAIN conn'[c].batch = {}
        BY <3>1, Zenon
      <3>2. CASE conn'[c].batch = conn[c].batch /\ conn'[c].ctx = conn[c].ctx
        BY <3>2 DEF Costings
      <3> QED BY <3>1, <3>2, Zenon
    <2>3. \A q \in conn'[c].rows : OneCosting(written', q) \subseteq conn'[c].rows
      BY Zenon DEF Costings
    <2> QED BY <2>1, <2>2, <2>3, Zenon
  <1> QED BY <1>2, <1>3, Zenon DEF Costings

\* The same for a step of session b.
LEMMA CostingsKeptBy ==
    ASSUME Base, Costings, written' = written, rows' = rows, txSeq <= txSeq', txSeq' \in Nat,
           \A k \in DOMAIN ring' : ring'[k].kind = "apply" =>
              \/ \E j \in DOMAIN ring : ring'[k] = ring[j]
              \/ \E c \in Backends : conn[c].xid # 0 /\ conn[c].xid = ring'[k].xid,
           NEW b \in Backends, Only(b),
           conn'[b].rows = conn[b].rows \/ conn'[b].rows = {},
           conn'[b].xid = conn[b].xid \/ conn'[b].xid = 0,
           \/ DOMAIN conn'[b].batch = {}
           \/ conn'[b].batch = conn[b].batch /\ conn'[b].ctx = conn[b].ctx
    PROVE  Costings'
  <1>1. \A k \in DOMAIN ring' : ring'[k].kind = "apply" =>
              \/ \E j \in DOMAIN ring : ring[j].kind = "apply" /\ ring[j].xid = ring'[k].xid
              \/ \E c \in Backends : conn[c].xid # 0 /\ conn[c].xid = ring'[k].xid
    BY Zenon
  <1>2. ASSUME NEW c \in Backends
        PROVE  /\ conn'[c].rows = conn[c].rows \/ conn'[c].rows = {}
               /\ \/ conn'[c].xid = conn[c].xid \/ conn'[c].xid = 0
                  \/ \A r \in written : r.xid # conn'[c].xid
               /\ \/ DOMAIN conn'[c].batch = {}
                  \/ conn'[c].batch = conn[c].batch /\ conn'[c].ctx = conn[c].ctx
    <2>1. CASE c = b
      BY <2>1, Zenon
    <2>2. CASE c # b
      <3>1. conn'[c] = conn[c]
        BY <2>2, Zenon DEF Only
      <3> QED BY <3>1, Zenon
    <2> QED BY <2>1, <2>2, Zenon
  <1> QED BY <1>1, <1>2, CostingsKept, Zenon

LEMMA DrainCostings ==
    ASSUME QueueAssumption, NatsOrdered, Base, Costings, NEW b \in Backends, Drain(b)
    PROVE  Costings'
  <1> DEFINE n == Prefix("apply")
  <1>1. /\ Only(b) /\ SameTx(b) /\ conn'[b].ctx = txSeq + 1
        /\ conn'[b].batch = [k \in 1..n |->
              [slot |-> ring[k].slot, issue |-> ring[k].issue, xid |-> ring[k].xid,
               old |-> Prior(b, ring[k].issue)]]
    BY DrainConn, Zenon DEF Base
  <1>2. DOMAIN conn'[b].batch = 1..n /\ \A k \in 1..n : conn'[b].batch[k].xid = ring[k].xid
    BY <1>1
  <1>3. /\ conn[b].pc \in Stages /\ ring' = SubSeq(ring, n + 1, Len(ring))
        /\ UNCHANGED <<rows, written>> /\ (txSeq' = txSeq \/ txSeq' = txSeq + 1)
    BY StagePcs, Zenon DEF Drain, tables
  <1>4. Drained("apply")
    BY <1>3, DrainRing, Zenon
  <1> HIDE DEF n
  <1>5. /\ \A k \in DOMAIN ring' : \E j \in DOMAIN ring : ring'[k] = ring[j]
        /\ \A k \in 1..n : k \in DOMAIN ring /\ ring[k].kind = "apply"
    BY <1>4, Zenon DEF Drained, n
  <1>6. ASSUME NEW x, Past(written, txSeq, x)
        PROVE  /\ Past(written', txSeq', x)
               /\ \A r \in written : r.xid = x => r.ctx < txSeq + 1
    <2>1. \A r \in written : r.ctx \in Nat /\ txSeq \in Nat
      BY Zenon DEF Base, Shape
    <2> QED BY <1>3, <1>6, <2>1 DEF Past
  <1>7. \A k \in DOMAIN ring' : ring'[k].kind = "apply" => Past(written', txSeq', ring'[k].xid)
    BY <1>5, <1>6, Zenon DEF Costings
  <1>8. ASSUME NEW k \in 1..n, NEW r \in written, r.xid = ring[k].xid PROVE r.ctx < txSeq + 1
    BY <1>5, <1>6, <1>8, Zenon DEF Costings
  <1>9. ASSUME NEW c \in Backends
        PROVE  /\ conn'[c].xid = conn[c].xid /\ conn'[c].rows = conn[c].rows
               /\ c # b => DOMAIN conn'[c].batch = {}
    <2>1. CASE c = b
      BY <1>1, <2>1, Zenon DEF SameTx
    <2>2. CASE c # b
      <3>1. conn'[c] = conn[c] /\ conn[c].batch = <<>>
        BY <1>1, <1>3, <2>2, OneBatch, Zenon DEF Only
      <3> QED BY <3>1, EmptyDomain, Zenon
    <2> QED BY <2>1, <2>2, Zenon
  <1>10. ASSUME NEW c \in Backends, NEW k \in DOMAIN conn'[c].batch, NEW r \in written',
                r.xid = conn'[c].batch[k].xid
         PROVE  r.ctx < conn'[c].ctx
    <2>1. c = b
      BY <1>9, Zenon
    <2>2. k \in 1..n /\ r \in written /\ r.xid = ring[k].xid
      BY <1>2, <1>3, <1>10, <2>1, Zenon
    <2>3. conn'[c].ctx = txSeq + 1
      BY <1>1, <2>1, Zenon
    <2> QED BY <1>8, <2>2, <2>3, Zenon
  <1> QED BY <1>3, <1>6, <1>7, <1>9, <1>10, Zenon DEF Costings

\* The rows of a batch make costings of their own.
LEMMA NewCostings ==
    ASSUME Base, Costings, NEW b \in Backends, NEW served, NEW new, Inserts(b, served, new),
           NEW q \in written, NEW r \in new
    PROVE  Costing(q) # Costing(r)
  <1>1. PICK k \in DOMAIN conn[b].batch : r.xid = conn[b].batch[k].xid /\ r.ctx = conn[b].ctx
    <2>1. NewRow(b, served, r)
      BY NewFacts, Zenon
    <2> QED BY <2>1, Zenon DEF NewRow
  <1>2. q.xid = r.xid => q.ctx < r.ctx
    BY <1>1, Zenon DEF Costings
  <1>3. q.ctx \in Nat
    BY Zenon DEF Base, Shape
  <1>4. Costing(q) = Costing(r) => q.ctx = r.ctx /\ q.xid = r.xid
    BY DEF Costing
  <1>5. \A c \in Nat : ~(c < c)
    OBVIOUS
  <1> QED BY <1>2, <1>3, <1>4, <1>5, Zenon

LEMMA SplitCostings ==
    ASSUME Base, Costings, NEW b \in Backends, NEW served, NEW new, Inserts(b, served, new)
    PROVE  /\ \A q \in written : OneCosting(written', q) = OneCosting(written, q)
           /\ \A q \in new : OneCosting(written', q) = OneCosting(new, q)
  <1>1. written' = written \cup new
    BY Zenon DEF Inserts
  <1>2. \A q \in written, r \in new : Costing(q) # Costing(r)
    BY NewCostings, Zenon
  <1>3. ASSUME NEW q \in written PROVE OneCosting(written', q) = OneCosting(written, q)
    BY <1>1, <1>2, Zenon DEF OneCosting, OfIssue
  <1>4. ASSUME NEW q \in new PROVE OneCosting(written', q) = OneCosting(new, q)
    BY <1>1, <1>2, Zenon DEF OneCosting, OfIssue
  <1> QED BY <1>3, <1>4, Zenon

LEMMA InsertsCostings ==
    ASSUME Base, Costings, NEW b \in Backends, NEW served, NEW new, Inserts(b, served, new)
    PROVE  Costings'
  <1>1. /\ conn[b].pc = "insert" /\ Only(b) /\ conn'[b].xid = conn[b].xid
        /\ conn'[b].rows = conn[b].rows \cup new /\ conn'[b].batch = <<>>
        /\ written' = written \cup new /\ UNCHANGED <<ring, txSeq, rows>>
    BY Zenon DEF Inserts, shard, tables
  <1>2. \A r \in new : r.ctx <= txSeq
    <2>1. conn[b].ctx \in 0..txSeq /\ txSeq \in Nat
      BY <1>1 DEF Base, Shape, Sessions, Session
    <2>2. conn[b].ctx <= txSeq
      BY <2>1
    <2>3. ASSUME NEW r \in new PROVE r.ctx = conn[b].ctx
      <3>1. NewRow(b, served, r)
        BY NewFacts, Zenon
      <3> QED BY <3>1, Zenon DEF NewRow
    <2> QED BY <2>2, <2>3, Zenon
  <1>3. \A x : Past(written, txSeq, x) => Past(written', txSeq', x)
    BY <1>1, <1>2, Zenon DEF Past
  <1>4. \A k \in DOMAIN ring' : ring'[k].kind = "apply" => Past(written', txSeq', ring'[k].xid)
    BY <1>1, <1>3, Zenon DEF Costings
  <1>5. /\ \A q \in written : OneCosting(written', q) = OneCosting(written, q)
        /\ \A q \in new : OneCosting(written', q) \subseteq new
    <2>1. \A q \in new : OneCosting(new, q) \subseteq new
      BY Zenon DEF OneCosting, OfIssue
    <2>2. /\ \A q \in written : OneCosting(written', q) = OneCosting(written, q)
          /\ \A q \in new : OneCosting(written', q) = OneCosting(new, q)
      BY SplitCostings, Zenon
    <2> QED BY <2>1, <2>2, Zenon
  <1>6. \A q \in rows' : OneCosting(written', q) \subseteq rows'
    BY <1>1, <1>5, Zenon DEF Costings, Base, Shape
  <1>7. ASSUME NEW c \in Backends
        PROVE  /\ conn'[c].xid # 0 => Past(written', txSeq', conn'[c].xid)
               /\ DOMAIN conn'[c].batch = {}
               /\ \A q \in conn'[c].rows : OneCosting(written', q) \subseteq conn'[c].rows
    <2>1. /\ conn[c].rows \subseteq written /\ (conn[c].xid # 0 => Past(written, txSeq, conn[c].xid))
          /\ \A q \in conn[c].rows : OneCosting(written, q) \subseteq conn[c].rows
      BY Zenon DEF Costings, Base, Sessions, Session
    <2>2. CASE c = b
      BY <1>1, <1>3, <1>5, <2>1, <2>2, EmptyDomain, Zenon
    <2>3. CASE c # b
      <3>1. conn[b].pc \in Stages
        BY <1>1, StagePcs, Zenon
      <3>2. conn'[c] = conn[c] /\ conn[c].batch = <<>>
        BY <1>1, <2>3, <3>1, OneBatch, Zenon DEF Only
      <3> QED BY <1>3, <1>5, <2>1, <3>2, EmptyDomain, Zenon
    <2> QED BY <2>2, <2>3, Zenon
  <1> QED BY <1>4, <1>6, <1>7, Zenon DEF Costings

LEMMA CommitCostings ==
    ASSUME Base, Costings, NEW b \in Backends, Commit(b)
    PROVE  Costings'
  <1>1. /\ UNCHANGED <<ring, txSeq, written>> /\ rows' = rows \cup conn[b].rows
    BY Zenon DEF Commit, shard, history
  <1>2. Only(b) /\ conn'[b].rows = {} /\ conn'[b].xid = 0 /\ DOMAIN conn'[b].batch = {}
    BY CommitConn, IdleFacts, EmptyDomain, Zenon DEF Base
  <1>3. \A q \in rows' : OneCosting(written', q) \subseteq rows'
    BY <1>1, Zenon DEF Costings
  <1>4. ASSUME NEW c \in Backends
        PROVE  /\ conn'[c].xid # 0 => Past(written', txSeq', conn'[c].xid)
               /\ \A k \in DOMAIN conn'[c].batch : \A r \in written' :
                     r.xid = conn'[c].batch[k].xid => r.ctx < conn'[c].ctx
               /\ \A q \in conn'[c].rows : OneCosting(written', q) \subseteq conn'[c].rows
    <2>1. CASE c = b
      BY <1>2, <2>1, Zenon
    <2>2. CASE c # b
      <3>1. conn'[c] = conn[c]
        BY <1>2, <2>2, Zenon DEF Only
      <3> QED BY <1>1, <3>1, Zenon DEF Costings
    <2> QED BY <2>1, <2>2, Zenon
  <1> QED BY <1>1, <1>3, <1>4, Zenon DEF Costings

LEMMA CostingsStep ==
    ASSUME QueueAssumption, NatsOrdered, Base, Costings, Base', [Next]_vars
    PROVE  Costings'
  <1>1. txSeq' \in Nat /\ (txSeq' = txSeq \/ txSeq' = txSeq + 1 => txSeq <= txSeq')
    BY DEF Base, Shape
  <1>2. CASE Quiet
    BY <1>1, <1>2, CostingsKept, EmptyDomain, Zenon DEF Quiet
  <1>3. ASSUME NEW b \in Backends, Push(b) PROVE Costings'
    <2>1. /\ Only(b) /\ SameTx(b) /\ SameWork(b) /\ conn'[b].ctx = conn[b].ctx
          /\ UNCHANGED <<txSeq, rows, written>> /\ conn[b].xid # 0
      BY <1>3, PushConn, Zenon DEF Base, Push, tables, history, Sessions, Session
    <2>2. \A k \in DOMAIN ring' :
             ring'[k].xid = conn[b].xid \/ \E j \in DOMAIN ring : ring'[k] = ring[j]
      <3>1. Apply(conn[b].slot, Head(conn[b].todo), conn[b].xid).xid = conn[b].xid
        BY DEF Apply
      <3> QED BY <1>3, <3>1, PushRing, Zenon
    <2> QED BY <1>1, <2>1, <2>2, CostingsKeptBy, Zenon DEF SameTx, SameWork
  <1>4. ASSUME NEW b \in Backends, Gone(b) PROVE Costings'
    <2>1. /\ Only(b) /\ conn'[b].rows = {} /\ conn'[b].xid = 0 /\ DOMAIN conn'[b].batch = {}
          /\ UNCHANGED <<txSeq, rows, written>>
      BY <1>4, GoneConn, IdleFacts, EmptyDomain, Zenon DEF Base, Gone, Only
    <2>2. \A k \in DOMAIN ring' :
             ring'[k].kind # "apply" \/ \E j \in DOMAIN ring : ring'[k] = ring[j]
      BY <1>4, GoneRing, EntryTypes DEF Base
    <2> QED BY <1>1, <2>1, <2>2, CostingsKeptBy, Zenon
  <1>5. ASSUME NEW b \in Backends, Compensate(b) PROVE Costings'
    <2>1. /\ Only(b) /\ SameWork(b) /\ conn'[b].rows = conn[b].rows
          /\ conn'[b].xid = conn[b].xid /\ conn'[b].ctx = conn[b].ctx
          /\ UNCHANGED <<rows, written>> /\ txSeq' = txSeq + 1
          /\ ring' = SubSeq(ring, Prefix("compensate") + 1, Len(ring))
      BY <1>5, CompensateConn, Zenon DEF Base, Compensate, tables
    <2>2. Drained("compensate")
      BY <2>1, DrainRing, Zenon
    <2>3. \A k \in DOMAIN ring' : \E j \in DOMAIN ring : ring'[k] = ring[j]
      BY <2>2, Zenon DEF Drained
    <2> QED BY <1>1, <2>1, <2>3, CostingsKeptBy, Zenon DEF SameWork
  <1>6. CASE Scan
    <2>1. UNCHANGED <<txSeq, rows, written, conn>>
      BY <1>6, Zenon DEF Scan, tables
    <2>2. \A k \in DOMAIN ring' :
             ring'[k].kind # "apply" \/ \E j \in DOMAIN ring : ring'[k] = ring[j]
      BY <1>6, ScanRing DEF Scanned
    <2> QED BY <1>1, <2>1, <2>2, CostingsKept, Zenon
  <1>7. CASE Restart
    <2>1. /\ ring' = <<>> /\ UNCHANGED <<rows, written>>
          /\ \A c \in Backends : conn'[c] = Idle
      BY <1>7, Zenon DEF Restart, tables
    <2> QED BY <2>1, IdleFacts, EmptyDomain, Zenon DEF Costings
  <1> QED BY <1>2, <1>3, <1>4, <1>5, <1>6, <1>7, StepKind, CommitCostings, DrainCostings,
             InsertsCostings, Zenon DEF Kind

--------------------------------------------------------------------------------
(* The rows of a transaction that rolled back are compensated for.         *)

LEMMA BehindKept ==
    ASSUME NEW R, NEW S, \A k \in DOMAIN R : k \in DOMAIN S /\ S[k] = R[k], NEW k, NEW x,
           Behind(R, k, x)
    PROVE  Behind(S, k, x)
  BY Zenon DEF Behind

\* A step that rolls nothing back, reverses nothing and drains nothing.
LEMMA AbortsKept ==
    ASSUME Aborts, UNCHANGED <<aborted, uncomp>>, startup = "done" <=> startup' = "done",
           rows' \cup Uncommitted' \subseteq rows \cup Uncommitted, rows \subseteq rows',
           revs' \cup OpenRevs' = revs \cup OpenRevs,
           \A k \in DOMAIN ring : k \in DOMAIN ring' /\ ring'[k] = ring[k],
           \A k \in DOMAIN ring' : \/ k \in DOMAIN ring \/ ring'[k].xid \notin aborted,
           \A c \in Backends : conn'[c].batch = conn[c].batch \/ DOMAIN conn'[c].batch = {}
    PROVE  Aborts'
  <1>1. \A k, x : Behind(ring, k, x) => Behind(ring', k, x)
    BY BehindKept, Zenon
  <1>2. ASSUME NEW r \in rows' \cup Uncommitted' PROVE Handled(r)'
    <2>1. Handled(r)
      BY Zenon DEF Aborts
    <2> QED BY <1>1, <2>1, Zenon DEF Handled
  <1>3. ASSUME NEW c \in Backends, NEW k \in DOMAIN conn'[c].batch,
               conn'[c].batch[k].xid \in aborted' \ uncomp'
        PROVE  Behind(ring', 0, conn'[c].batch[k].xid)
    <2>1. conn'[c].batch = conn[c].batch
      BY Zenon
    <2> QED BY <1>1, <1>3, <2>1, Zenon DEF Aborts
  <1>4. ASSUME NEW k \in DOMAIN ring', ring'[k].kind = "apply",
               ring'[k].xid \in aborted' \ uncomp'
        PROVE  Behind(ring', k, ring'[k].xid)
    <2>1. k \in DOMAIN ring /\ ring'[k] = ring[k]
      BY <1>4, Zenon
    <2> QED BY <1>1, <1>4, <2>1, Zenon DEF Aborts
  <1> QED BY <1>2, <1>3, <1>4, Zenon DEF Aborts

LEMMA GoneAborts ==
    ASSUME QueueAssumption, Base, Aborts, NEW b \in Backends, Gone(b)
    PROVE  Aborts'
  <1> DEFINE x == conn[b].xid
  <1>1. /\ aborted' = aborted \cup {x} /\ UNCHANGED <<rows, revs, startup>>
        /\ uncomp' = (uncomp \cup {v.row.xid : v \in conn[b].revs})
                        \cup (IF Full THEN {x} ELSE {})
    BY Zenon DEF Gone, RollbackTx
  <1>2. /\ \A k \in DOMAIN ring' : \/ k \in DOMAIN ring /\ ring'[k] = ring[k]
                                   \/ ring'[k] = Compensation(x)
        /\ \A k \in DOMAIN ring : k \in DOMAIN ring' /\ ring'[k] = ring[k]
        /\ \A k \in DOMAIN ring \cup {0} : Full \/ Behind(ring', k, x)
    <2>1. \A k \in DOMAIN ring \cup {0} : k \in 0..Len(ring)
      BY GoneRing DEF Base
    <2> QED BY <2>1, GoneRing, Zenon DEF Base
  <1>3. /\ conn'[b] = Idle /\ \A c \in Backends \ {b} : conn'[c] = conn[c]
    BY GoneConn, Zenon DEF Base
  <1>4. /\ \A v \in OpenRevs : v \in OpenRevs' \/ v.row.xid \in uncomp'
        /\ OpenRevs' \subseteq OpenRevs /\ Uncommitted' \subseteq Uncommitted
    <2>1. conn'[b].revs = {} /\ conn'[b].rows = {}
      BY <1>3, IdleFacts, Zenon
    <2>2. \A v \in conn[b].revs : v.row.xid \in uncomp'
      BY <1>1, Zenon
    <2>3. \A v \in OpenRevs : v \in OpenRevs' \/ v.row.xid \in uncomp'
      BY <1>3, <2>2, Zenon DEF OpenRevs
    <2> QED BY <1>3, <2>1, <2>3, Zenon DEF OpenRevs, Uncommitted
  <1> HIDE DEF x
  <1>5. \A k, y : Behind(ring, k, y) => Behind(ring', k, y)
    BY <1>2, BehindKept, Zenon
  <1>6. \A y \in aborted' \ uncomp' :
           y \in aborted \ uncomp \/ \A k \in DOMAIN ring \cup {0} : Behind(ring', k, y)
    BY <1>1, <1>2, Zenon
  <1>7. ASSUME NEW r \in rows' \cup Uncommitted' PROVE Handled(r)'
    <2>1. Handled(r)
      BY <1>1, <1>4, Zenon DEF Aborts
    <2> QED BY <1>1, <1>4, <1>5, <1>6, <2>1, Zenon DEF Handled
  <1>8. ASSUME NEW c \in Backends, NEW k \in DOMAIN conn'[c].batch,
               conn'[c].batch[k].xid \in aborted' \ uncomp'
        PROVE  Behind(ring', 0, conn'[c].batch[k].xid)
    <2>1. conn'[c] = conn[c]
      BY <1>3, IdleFacts, EmptyDomain, Zenon
    <2> QED BY <1>5, <1>6, <1>8, <2>1, Zenon DEF Aborts
  <1>9. ASSUME NEW k \in DOMAIN ring', ring'[k].kind = "apply",
               ring'[k].xid \in aborted' \ uncomp'
        PROVE  Behind(ring', k, ring'[k].xid)
    <2>1. \A y : Compensation(y).kind # "apply"
      BY DEF Compensation
    <2>2. k \in DOMAIN ring /\ ring'[k] = ring[k]
      BY <1>2, <1>9, <2>1, Zenon
    <2> QED BY <1>5, <1>6, <1>9, <2>2, Zenon DEF Aborts
  <1> QED BY <1>7, <1>8, <1>9, Zenon DEF Aborts

\* A drain leaves every compensation that is not of the kind it takes.
LEMMA BehindDrained ==
    ASSUME NEW kind, Drained(kind), NEW x
    PROVE  /\ \A k \in DOMAIN ring' :
                 Behind(ring, k + Prefix(kind), x) => Behind(ring', k, x)
           /\ Behind(ring, 0, x) => \/ Behind(ring', 0, x)
                                    \/ \E j \in 1..Prefix(kind) : ring[j] = Compensation(x)
           /\ \A k \in 1..Prefix(kind) :
                 Behind(ring, k, x) => Behind(ring, 0, x)
  <1> DEFINE n == Prefix(kind)
  <1>1. /\ n \in Nat /\ DOMAIN ring \subseteq Nat /\ DOMAIN ring' \subseteq Nat \ {0}
        /\ \A k \in DOMAIN ring : k \in 1..n \/ k > n
    BY DEF Drained
  <1>2. \A k \in DOMAIN ring :
              k \in 1..n \/ (k - n \in DOMAIN ring' /\ ring'[k - n] = ring[k])
    BY Zenon DEF Drained
  <1> HIDE DEF n
  <1>3. ASSUME NEW k \in DOMAIN ring', Behind(ring, k + n, x) PROVE Behind(ring', k, x)
    <2>1. PICK j \in DOMAIN ring : j > k + n /\ ring[j] = Compensation(x)
      BY <1>3, Zenon DEF Behind
    <2>2. j \notin 1..n /\ j - n > k
      BY <1>1, <2>1
    <2> QED BY <1>2, <2>1, <2>2, Zenon DEF Behind
  <1>4. ASSUME NEW j \in DOMAIN ring, ring[j] = Compensation(x)
        PROVE  Behind(ring', 0, x) \/ \E i \in 1..n : ring[i] = Compensation(x)
    <2>1. j \in 1..n \/ j - n > 0
      BY <1>1
    <2> QED BY <1>2, <1>4, <2>1, Zenon DEF Behind
  <1>5. ASSUME NEW k \in 1..n, Behind(ring, k, x) PROVE Behind(ring, 0, x)
    <2>1. \A j \in DOMAIN ring : j > k => j > 0
      BY <1>1
    <2> QED BY <1>5, <2>1, Zenon DEF Behind
  <1> QED BY <1>3, <1>4, <1>5, Zenon DEF n, Behind


LEMMA CompensationFacts ==
    ASSUME NEW x
    PROVE  Compensation(x).xid = x /\ Compensation(x).kind = "compensate"
  BY DEF Compensation

LEMMA CompensateAborts ==
    ASSUME QueueAssumption, NatsOrdered, Base, Aborts, NEW b \in Backends, Compensate(b)
    PROVE  Aborts'
  <1> DEFINE n == Prefix("compensate")
             xids == {ring[k].xid : k \in 1..n}
             todo == {r \in Visible(b) : r.xid \in xids} \ Reversed(b)
             New == {[row |-> r, ctx |-> txSeq + 1] : r \in todo}
  <1>1. /\ conn[b].pc = "comp" /\ UNCHANGED <<rows, revs, aborted, startup>>
        /\ ring' = SubSeq(ring, n + 1, Len(ring))
        /\ uncomp' = uncomp \cup {r.xid : r \in {q \in Uncommitted \ conn[b].rows :
                                                    q.xid \in xids}}
    BY Zenon DEF Compensate, tables
  <1>2. /\ Only(b) /\ conn'[b].rows = conn[b].rows /\ conn'[b].batch = conn[b].batch
        /\ conn'[b].revs = conn[b].revs \cup New
    BY CompensateConn, Zenon DEF Base, SameWork
  <1>3. (\A v \in New : v.row \in todo) /\ \A r \in todo : \E v \in New : v.row = r
    <2>1. \A r : [row |-> r, ctx |-> txSeq + 1].row = r
      OBVIOUS
    <2> HIDE DEF todo
    <2> QED BY <2>1, Zenon
  <1>4. \A r \in todo : r.xid \in xids
    BY Zenon
  <1>5. Drained("compensate")
    BY <1>1, DrainRing, Zenon
  <1>6. \A j \in 1..n : ring[j].xid \in xids
    BY Zenon
  <1>7. \A r \in Visible(b) : r.xid \in xids => r \in todo \/ r \in Reversed(b)
    BY Zenon
  <1>8. \A r \in Uncommitted \ conn[b].rows : r.xid \in xids => r.xid \in uncomp'
    BY <1>1, Zenon
  <1> HIDE DEF n, xids, todo, New
  <1>9. Uncommitted' = Uncommitted
    <2>1. \A c \in Backends : conn'[c].rows = conn[c].rows
      BY <1>2, Zenon DEF Only
    <2> QED BY <2>1, SameRows, Zenon
  <1>10. OpenRevs' = OpenRevs \cup New
    <2>1. \A c \in Backends \ {b} : conn'[c].revs = conn[c].revs
      BY <1>2, Zenon DEF Only
    <2> QED BY <1>2, <2>1, Zenon DEF OpenRevs
  <1>11. \A c \in Backends : DOMAIN conn'[c].batch = {}
    <2>1. conn[b].pc \in Stages /\ conn[b].pc \notin {"snap", "insert"}
      BY <1>1, StagePcs
    <2>2. conn'[b].batch = <<>>
      BY <1>2, <2>1, NoBatch, Zenon
    <2> QED BY <1>2, <2>1, <2>2, OneBatch, EmptyDomain, Zenon DEF Only
  <1>12. ASSUME NEW r \in rows \cup Uncommitted, r.xid \in xids
         PROVE  r.xid \in uncomp' \/ \E v \in revs \cup OpenRevs' : v.row = r
    <2>1. CASE r \in Visible(b)
      <3>1. r \in Reversed(b) => \E v \in revs \cup OpenRevs : v.row = r
        BY Zenon DEF Reversed, OpenRevs
      <3> QED BY <1>3, <1>7, <1>10, <1>12, <2>1, <3>1, Zenon
    <2>2. CASE r \notin Visible(b)
      BY <1>8, <1>12, <2>2, Zenon DEF Visible
    <2> QED BY <2>1, <2>2, Zenon
  <1>13. ASSUME NEW r \in rows \cup Uncommitted, r.xid \notin xids PROVE Handled(r)'
    <2>1. Behind(ring, 0, r.xid) => Behind(ring', 0, r.xid)
      <3>1. Behind(ring, 0, r.xid) => \/ Behind(ring', 0, r.xid)
                                      \/ \E j \in 1..n : ring[j] = Compensation(r.xid)
        BY <1>5, BehindDrained, Zenon DEF n
      <3> QED BY <1>6, <1>13, <3>1, CompensationFacts, Zenon
    <2>2. \A v \in New : v.row.xid # r.xid
      BY <1>3, <1>4, <1>13, Zenon
    <2>3. Handled(r) /\ uncomp \subseteq uncomp'
      BY <1>1, Zenon DEF Aborts
    <2> QED BY <1>1, <1>10, <2>1, <2>2, <2>3, Zenon DEF Handled
  <1>14. \A r \in rows' \cup Uncommitted' : Handled(r)'
    BY <1>1, <1>9, <1>12, <1>13, Zenon DEF Handled
  <1>15. ASSUME NEW k \in DOMAIN ring', ring'[k].kind = "apply",
                ring'[k].xid \in aborted' \ uncomp'
         PROVE  Behind(ring', k, ring'[k].xid)
    <2>1. k + n \in DOMAIN ring /\ ring'[k] = ring[k + n]
      BY <1>5, Zenon DEF Drained, n
    <2>2. ring'[k].xid \in aborted \ uncomp
      BY <1>1, <1>15, Zenon
    <2>3. Behind(ring, k + n, ring'[k].xid)
      BY <1>15, <2>1, <2>2, Zenon DEF Aborts
    <2> QED BY <1>5, <2>3, BehindDrained, Zenon DEF n
  <1> QED BY <1>11, <1>14, <1>15, Zenon DEF Aborts

LEMMA DrainAborts ==
    ASSUME QueueAssumption, NatsOrdered, Base, Aborts, NEW b \in Backends, Drain(b)
    PROVE  Aborts'
  <1> DEFINE n == Prefix("apply")
  <1>1. /\ UNCHANGED <<tables, startup, uncomp>> /\ conn[b].pc \in Stages
        /\ ring' = SubSeq(ring, n + 1, Len(ring))
    BY StagePcs, Zenon DEF Drain
  <1>2. Only(b) /\ SameTx(b)
    BY DrainConn, Zenon DEF Base
  <1>3. DOMAIN conn'[b].batch = 1..n /\ \A k \in 1..n : conn'[b].batch[k].xid = ring[k].xid
    <2>1. conn'[b].batch = [k \in 1..n |->
                 [slot |-> ring[k].slot, issue |-> ring[k].issue, xid |-> ring[k].xid,
                  old |-> Prior(b, ring[k].issue)]]
      BY DrainConn, Zenon DEF Base
    <2> HIDE DEF n
    <2> QED BY <2>1
  <1>4. Drained("apply")
    BY <1>1, DrainRing, Zenon
  <1> HIDE DEF n
  <1>5. Uncommitted' = Uncommitted /\ OpenRevs' = OpenRevs
    <2>1. \A c \in Backends : conn'[c].rows = conn[c].rows /\ conn'[c].revs = conn[c].revs
      BY <1>2, Zenon DEF Only, SameTx
    <2> QED BY <2>1, SameRows, SameRevs, Zenon
  <1>6. \A x : Behind(ring, 0, x) => Behind(ring', 0, x)
    <2>1. \A j \in 1..n : ring[j].kind # "compensate"
      BY <1>4, Zenon DEF Drained, n
    <2>2. \A x : Behind(ring, 0, x) => \/ Behind(ring', 0, x)
                                       \/ \E j \in 1..n : ring[j] = Compensation(x)
      BY <1>4, BehindDrained, Zenon DEF n
    <2>3. ASSUME NEW x, NEW j \in 1..n, ring[j] = Compensation(x) PROVE FALSE
      BY <2>1, <2>3, CompensationFacts, Zenon
    <2> QED BY <2>2, <2>3, Zenon
  <1>7. \A r \in rows' \cup Uncommitted' : Handled(r)'
    BY <1>1, <1>5, <1>6, Zenon DEF Aborts, Handled, tables
  <1>8. ASSUME NEW c \in Backends, NEW k \in DOMAIN conn'[c].batch,
               conn'[c].batch[k].xid \in aborted' \ uncomp'
        PROVE  Behind(ring', 0, conn'[c].batch[k].xid)
    <2>1. c = b
      BY <1>1, <1>2, OneBatch, EmptyDomain, Zenon DEF Only
    <2>2. k \in 1..n /\ conn'[c].batch[k].xid = ring[k].xid
      BY <1>3, <2>1, Zenon
    <2>3. k \in DOMAIN ring /\ ring[k].kind = "apply"
      BY <1>4, <2>2, Zenon DEF Drained, n
    <2>4. Behind(ring, k, ring[k].xid)
      BY <1>1, <1>8, <2>2, <2>3, Zenon DEF Aborts, tables
    <2> QED BY <1>4, <1>6, <2>2, <2>4, BehindDrained, Zenon DEF n
  <1>9. ASSUME NEW k \in DOMAIN ring', ring'[k].kind = "apply",
               ring'[k].xid \in aborted' \ uncomp'
        PROVE  Behind(ring', k, ring'[k].xid)
    <2>1. k + n \in DOMAIN ring /\ ring'[k] = ring[k + n]
      BY <1>4, Zenon DEF Drained, n
    <2>2. Behind(ring, k + n, ring'[k].xid)
      BY <1>1, <1>9, <2>1, Zenon DEF Aborts, tables
    <2> QED BY <1>4, <2>2, BehindDrained, Zenon DEF n
  <1> QED BY <1>7, <1>8, <1>9, Zenon DEF Aborts


LEMMA InsertsAborts ==
    ASSUME Base, Aborts, NEW b \in Backends, NEW served, NEW new, Inserts(b, served, new)
    PROVE  Aborts'
  <1>1. /\ UNCHANGED <<ring, revs, aborted, uncomp, startup>>
        /\ rows' = rows /\ Uncommitted' = Uncommitted \cup new
    BY InsertsRows, Zenon DEF Inserts, shard, tables
  <1>2. Only(b) /\ conn'[b].batch = <<>> /\ conn'[b].revs = conn[b].revs
    BY Zenon DEF Inserts
  <1>3. OpenRevs' = OpenRevs
    BY <1>2, SameRevs, Zenon DEF Only
  <1>4. \A r \in new : r.xid \notin aborted \ uncomp \/ Behind(ring, 0, r.xid)
    <2>1. ASSUME NEW r \in new PROVE \E k \in DOMAIN conn[b].batch : r.xid = conn[b].batch[k].xid
      <3>1. NewRow(b, served, r)
        BY NewFacts, Zenon
      <3> QED BY <3>1, Zenon DEF NewRow
    <2> QED BY <2>1, Zenon DEF Aborts
  <1>5. \A r \in rows' \cup Uncommitted' : Handled(r)'
    BY <1>1, <1>3, <1>4, Zenon DEF Aborts, Handled
  <1>6. \A c \in Backends : conn'[c].batch = conn[c].batch \/ DOMAIN conn'[c].batch = {}
    BY <1>2, EmptyDomain, Zenon DEF Only
  <1> QED BY <1>1, <1>5, <1>6, Zenon DEF Aborts

LEMMA RestartAborts ==
    ASSUME Aborts, Restart
    PROVE  Aborts'
  <1>1. /\ UNCHANGED <<rows, revs, aborted>> /\ ring' = <<>>
        /\ uncomp' = uncomp \cup ({v.row.xid : v \in revs}
                                   \cap (Queued \cup {v.row.xid : v \in OpenRevs}))
        /\ \A c \in Backends : conn'[c] = Idle
    BY Zenon DEF Restart, tables
  <1>2. startup' # "done"
    BY DEF Restart
  <1>3. \A c \in Backends : /\ conn'[c].rows = {} /\ conn'[c].revs = {}
                            /\ DOMAIN conn'[c].batch = {}
    BY <1>1, IdleFacts, EmptyDomain, Zenon
  <1>4. Uncommitted' = {} /\ OpenRevs' = {}
    BY <1>3, Zenon DEF Uncommitted, OpenRevs
  <1>5. \A x : Behind(ring, 0, x) => x \in Queued
    BY CompensationFacts, Zenon DEF Behind, Queued
  <1>6. ASSUME NEW r \in rows PROVE Handled(r)'
    <2>1. CASE \A v \in revs : v.row.xid # r.xid
      BY <1>1, <1>2, <1>4, <2>1, Zenon DEF Handled
    <2>2. ASSUME NEW v \in revs, v.row.xid = r.xid PROVE Handled(r)'
      <3>1. r.xid \in Queued \/ (\E w \in OpenRevs : w.row = r) => r.xid \in uncomp'
        BY <1>1, <2>2, Zenon
      <3>2. Handled(r)
        BY Zenon DEF Aborts
      <3> QED BY <1>1, <1>5, <2>2, <3>1, <3>2, Zenon DEF Handled
    <2> QED BY <2>1, <2>2, Zenon
  <1> QED BY <1>1, <1>3, <1>4, <1>6, EmptyDomain, Zenon DEF Aborts

LEMMA ScanAborts ==
    ASSUME QueueAssumption, Base, Aborts, Scan
    PROVE  Aborts'
  <1>1. Scanned /\ UNCHANGED <<conn, rows, revs, aborted>>
    BY ScanRing, Zenon DEF Scan, tables
  <1>2. Uncommitted' = Uncommitted /\ OpenRevs' = OpenRevs
    BY <1>1, SameRows, SameRevs, Zenon
  <1>3. \A k, x : Behind(ring, k, x) => Behind(ring', k, x)
    BY <1>1, BehindKept, Zenon DEF Scanned
  <1>4. \A x \in aborted \ uncomp' : \A k \in DOMAIN ring \cup {0} :
           x \in aborted \ uncomp \/ Behind(ring', k, x)
    BY <1>1, Zenon DEF Scanned
  <1>5. ASSUME NEW r \in rows \cup Uncommitted PROVE Handled(r)'
    <2>1. /\ r \in rows /\ (\A v \in revs \cup OpenRevs : v.row.xid # r.xid)
          /\ r.xid \in aborted \ uncomp'
          => Behind(ring', 0, r.xid)
      BY <1>1, Zenon DEF Scanned, Missed
    <2>2. Handled(r)
      BY Zenon DEF Aborts
    <2> QED BY <1>1, <1>2, <1>3, <1>4, <2>1, <2>2, Zenon DEF Handled
  <1>6. ASSUME NEW k \in DOMAIN ring', ring'[k].kind = "apply",
               ring'[k].xid \in aborted \ uncomp'
        PROVE  Behind(ring', k, ring'[k].xid)
    <2>1. k \in DOMAIN ring /\ ring'[k] = ring[k]
      BY <1>1, <1>6, Zenon DEF Scanned
    <2> QED BY <1>3, <1>4, <1>6, <2>1, Zenon DEF Aborts
  <1> QED BY <1>1, <1>2, <1>3, <1>4, <1>5, <1>6, Zenon DEF Aborts

LEMMA AbortsStep ==
    ASSUME QueueAssumption, NatsOrdered, Base, Aborts, [Next]_vars
    PROVE  Aborts'
  <1>1. CASE Quiet
    <2>1. Uncommitted' = Uncommitted /\ OpenRevs' = OpenRevs
      BY <1>1, SameRows, SameRevs, Zenon DEF Quiet
    <2> QED BY <1>1, <2>1, AbortsKept, Zenon DEF Quiet
  <1>2. ASSUME NEW b \in Backends, Push(b) PROVE Aborts'
    <2>1. /\ Only(b) /\ SameTx(b) /\ conn'[b].batch = conn[b].batch
          /\ UNCHANGED <<rows, revs, aborted, uncomp, startup>> /\ conn[b].pc = "push"
      BY <1>2, PushConn, Zenon DEF Push, Base, SameWork, tables, history
    <2>2. \A c \in Backends : /\ conn'[c].rows = conn[c].rows /\ conn'[c].revs = conn[c].revs
                              /\ conn'[c].batch = conn[c].batch
      BY <2>1, Zenon DEF Only, SameTx
    <2>3. Uncommitted' = Uncommitted /\ OpenRevs' = OpenRevs
      BY <2>2, SameRows, SameRevs, Zenon
    <2>4. conn[b].xid \notin aborted
      <3>1. conn[b].pc # "idle"
        BY <2>1
      <3> QED BY <3>1, Zenon DEF Base, Sessions, Session
    <2>5. /\ \A k \in DOMAIN ring : k \in DOMAIN ring' /\ ring'[k] = ring[k]
          /\ \A k \in DOMAIN ring' : k \in DOMAIN ring \/ ring'[k].xid \notin aborted
      <3>1. Apply(conn[b].slot, Head(conn[b].todo), conn[b].xid).xid \notin aborted
        BY <2>4 DEF Apply
      <3> QED BY <1>2, <3>1, PushRing, Zenon
    <2> QED BY <2>1, <2>2, <2>3, <2>5, AbortsKept, Zenon
  <1>3. ASSUME NEW b \in Backends, Commit(b) PROVE Aborts'
    <2>1. /\ \A c \in Backends \ {b} : conn'[c] = conn[c]
          /\ conn'[b].rows = {} /\ conn'[b].revs = {} /\ DOMAIN conn'[b].batch = {}
      BY <1>3, CommitConn, IdleFacts, EmptyDomain, Zenon DEF Base, Only
    <2>2. /\ rows' = rows \cup conn[b].rows /\ revs' = revs \cup conn[b].revs
          /\ UNCHANGED <<ring, aborted, uncomp, startup>>
      BY <1>3, Zenon DEF Commit, shard, history
    <2>3. rows' \cup Uncommitted' \subseteq rows \cup Uncommitted
      <3>1. \A c \in Backends : conn'[c].rows \subseteq conn[c].rows
        BY <2>1, Zenon
      <3> QED BY <2>2, <3>1, Zenon DEF Uncommitted
    <2>4. revs' \cup OpenRevs' = revs \cup OpenRevs
      BY <2>1, <2>2, Zenon DEF OpenRevs
    <2>5. \A c \in Backends : conn'[c].batch = conn[c].batch \/ DOMAIN conn'[c].batch = {}
      BY <2>1, Zenon
    <2> QED BY <2>2, <2>3, <2>4, <2>5, AbortsKept, Zenon
  <1> QED BY <1>1, <1>2, <1>3, StepKind, GoneAborts, CompensateAborts, DrainAborts,
             InsertsAborts, RestartAborts, ScanAborts, Zenon DEF Kind

--------------------------------------------------------------------------------
(* What a step has to keep for every slot to stay its holder's.            *)

\* A right answer stays right.
Grows == \A i, t : RightTotal(written, raced, i, t) => RightTotal(written', raced', i, t)

\* A slot that something names keeps its issue, or is known to be reused.
NamesKept ==
    /\ reused \subseteq reused'
    /\ \A s \in Slots : Named(s) => s \in reused' \/ slot'[s].issue = slot[s].issue

\* The slots that session c waits for stay its own.
HeldKept(c) ==
    \A s \in Slots : slot[s].waiter = c /\ slot[s].st # "free" =>
        slot'[s].waiter = c /\ slot'[s].st # "free" /\ slot'[s].issue = slot[s].issue

WorkKept(c) ==
    /\ conn'[c].orphans \subseteq conn[c].orphans
    /\ conn'[c].batch = conn[c].batch \/ DOMAIN conn'[c].batch = {}
    /\ \A k \in DOMAIN conn'[c].fills :
          \E j \in DOMAIN conn[c].fills : conn'[c].fills[k] = conn[c].fills[j]

CallKept(c) ==
    /\ conn'[c].pend = conn[c].pend \/ DOMAIN conn'[c].pend = {}
    /\ conn'[c].pc = "push" => /\ conn[c].pc = "push" /\ conn'[c].slot = conn[c].slot
                               /\ conn'[c].pend = conn[c].pend

RingKept ==
    \A k \in DOMAIN ring' :
        ring'[k].kind = "apply" => \E j \in DOMAIN ring : ring'[k] = ring[j]

LEMMA SameGrows ==
    ASSUME written' = written, raced \subseteq raced'
    PROVE  Grows
  BY Zenon DEF Grows, RightTotal

LEMMA WorkStep ==
    ASSUME NEW c \in Backends, Session(c), OwnWork(c), NamesKept, Grows, WorkKept(c)
    PROVE  OwnWork(c)'
  <1>1. ASSUME NEW o \in conn'[c].orphans, o[1] \notin reused'
        PROVE  o[2] # 0 /\ o[2] = slot'[o[1]].issue
    <2>1. o \in conn[c].orphans /\ o[1] \in Slots
      BY Zenon DEF WorkKept, Session
    <2>2. Named(o[1])
      BY <2>1, Zenon DEF Named
    <2> QED BY <1>1, <2>1, <2>2, Zenon DEF OwnWork, OwnOrphan, NamesKept
  <1>2. ASSUME NEW k \in DOMAIN conn'[c].batch
        PROVE  OwnRequest(conn[c].batch[k])' /\ OwnReplay(conn[c].batch[k])'
    <2>1. conn'[c].batch = conn[c].batch /\ conn[c].batch[k].slot \in Slots
      BY Zenon DEF WorkKept, Session
    <2>2. Named(conn[c].batch[k].slot)
      BY <2>1, Zenon DEF Named
    <2>3. OwnRequest(conn[c].batch[k]) /\ OwnReplay(conn[c].batch[k])
      BY <2>1, Zenon DEF OwnWork
    <2>4. OwnRequest(conn[c].batch[k])'
      BY <2>1, <2>2, <2>3, Zenon DEF OwnRequest, NamesKept
    <2>5. OwnReplay(conn[c].batch[k])'
      BY <2>1, <2>3, Zenon DEF OwnReplay, Grows
    <2> QED BY <2>4, <2>5, Zenon
  <1>3. ASSUME NEW k \in DOMAIN conn'[c].fills PROVE OwnFill(conn[c].fills[k])'
    <2>1. PICK j \in DOMAIN conn[c].fills : conn'[c].fills[k] = conn[c].fills[j]
      BY Zenon DEF WorkKept
    <2>2. conn[c].fills[j].slot \in Slots /\ OwnFill(conn[c].fills[j])
      BY Zenon DEF Session, OwnWork
    <2>3. Named(conn[c].fills[j].slot)
      BY Zenon DEF Named
    <2> QED BY <2>1, <2>2, <2>3, Zenon DEF OwnFill, NamesKept, Right, Grows
  <1> QED BY <1>1, <1>2, <1>3, Zenon DEF OwnWork, OwnOrphan

LEMMA HeldStep ==
    ASSUME NEW c \in Backends, Session(c), OwnPush(c), OwnPend(c), HeldKept(c), CallKept(c)
    PROVE  OwnPush(c)' /\ OwnPend(c)'
  <1>1. OwnPend(c)'
    BY Zenon DEF OwnPend, HeldKept, CallKept, Session
  <1>2. OwnPush(c)'
    BY Zenon DEF OwnPush, HeldKept, CallKept
  <1> QED BY <1>1, <1>2, Zenon

LEMMA RequestStep ==
    ASSUME Base, OwnRing, NamesKept, NEW j \in DOMAIN ring, ring[j].kind = "apply",
           NEW k, ring'[k] = ring[j]
    PROVE  OwnRequest(ring[k])'
  <1>1. ring[j].slot \in Slots
    <2>1. ring[j] \in Entries
      BY DEF Base, Shape
    <2> QED BY <2>1, EntryTypes, Zenon
  <1>2. Named(ring[j].slot)
    BY Zenon DEF Named
  <1> QED BY <1>1, <1>2, Zenon DEF OwnRing, OwnRequest, NamesKept

LEMMA RingStep ==
    ASSUME Base, OwnRing, NamesKept, RingKept
    PROVE  OwnRing'
  BY RequestStep, Zenon DEF OwnRing, RingKept

LEMMA AnswersStep ==
    ASSUME OwnAnswers, Grows, answers' = answers
    PROVE  OwnAnswers'
  BY Zenon DEF OwnAnswers, Right, Grows

--------------------------------------------------------------------------------
(* Steps that free no slot and hand none out.                              *)

\* Every slot keeps its holder and its issue; one that is answered now has a
\* right answer.
Kept ==
    /\ SlotShape'
    /\ \A s \in Slots :
          /\ slot'[s].waiter = slot[s].waiter /\ slot'[s].issue = slot[s].issue
          /\ slot'[s].st = "free" <=> slot[s].st = "free"
          /\ slot'[s].st = "filled" =>
                \/ slot[s].st = "filled" /\ slot'[s].res = slot[s].res
                \/ s \in reused
                \/ slot[s].issue # 0 /\ Right(written, raced, slot[s].issue, slot'[s].res)

LEMMA SameKept ==
    ASSUME SlotShape, slot' = slot
    PROVE  Kept
  BY Zenon DEF Kept, SlotShape

LEMMA AbandonKept ==
    ASSUME SlotShape, NEW S, slot' = Abandon(S)
    PROVE  Kept
  <1>1. SlotShape'
    BY Fields DEF SlotShape, Abandon
  <1>2. ASSUME NEW s \in Slots
        PROVE  /\ slot'[s].waiter = slot[s].waiter /\ slot'[s].issue = slot[s].issue
               /\ slot'[s].st = "free" <=> slot[s].st = "free"
               /\ slot'[s].st = "filled" => slot[s].st = "filled"
               /\ slot'[s].res = slot[s].res
    BY Fields DEF SlotShape, Abandon
  <1> QED BY <1>1, <1>2, Zenon DEF Kept

LEMMA FilledKept ==
    ASSUME SlotShape, NEW t \in Slots, NEW res, slot' = Filled(t, res),
           t \in reused \/ (slot[t].issue # 0 /\ Right(written, raced, slot[t].issue, res))
    PROVE  Kept
  <1>1. SlotShape'
    BY Fields DEF SlotShape, Filled
  <1>2. ASSUME NEW s \in Slots
        PROVE  /\ slot'[s].waiter = slot[s].waiter /\ slot'[s].issue = slot[s].issue
               /\ slot'[s].st = "free" <=> slot[s].st = "free"
    BY Fields DEF SlotShape, Filled
  <1>3. slot'[t].res = res /\ \A s \in Slots \ {t} : slot'[s] = slot[s]
    BY Fields DEF SlotShape, Filled
  <1> QED BY <1>1, <1>2, <1>3, Zenon DEF Kept

LEMMA OwnersKept ==
    ASSUME Base, Owners, Kept, Grows, UNCHANGED <<reused, answers>>, RingKept,
           \A c \in Backends : WorkKept(c) /\ CallKept(c)
    PROVE  SlotShape' /\ Owners'
  <1>1. NamesKept /\ \A c \in Backends : HeldKept(c)
    BY Zenon DEF Kept, NamesKept, HeldKept
  <1>2. \A c \in Backends : (OwnPush(c) /\ OwnPend(c) /\ OwnWork(c))'
    BY <1>1, WorkStep, HeldStep, Zenon DEF Owners, Base, Sessions
  <1>3. \A s \in Slots : OwnSlot(s)'
    BY Zenon DEF Owners, OwnSlot, Kept, Right, Grows
  <1>4. OwnRing' /\ OwnAnswers'
    BY <1>1, RingStep, AnswersStep, Zenon DEF Owners
  <1> QED BY <1>2, <1>3, <1>4, Zenon DEF Owners, Kept

LEMMA SessionKept ==
    ASSUME NEW c, conn'[c] = conn[c]
    PROVE  WorkKept(c) /\ CallKept(c)
  BY Zenon DEF WorkKept, CallKept

LEMMA IdleKept ==
    ASSUME NEW c, conn'[c] = Idle
    PROVE  WorkKept(c) /\ CallKept(c)
  <1>1. conn'[c].pc # "push"
    BY IdleFacts
  <1> QED BY <1>1, IdleFacts, EmptyDomain, Zenon DEF WorkKept, CallKept

\* A step that changes no more of its session than its stage.
LEMMA StageOwners ==
    ASSUME Base, SlotShape, Owners, NEW b \in Backends, slot' = slot,
           UNCHANGED <<reused, answers, written, raced>>, RingKept,
           Only(b), SameWork(b), conn'[b].pend = conn[b].pend, conn'[b].pc # "push"
    PROVE  SlotShape' /\ Owners'
  <1>1. WorkKept(b) /\ CallKept(b)
    BY Zenon DEF WorkKept, CallKept, SameWork
  <1>2. \A c \in Backends : WorkKept(c) /\ CallKept(c)
    BY <1>1, SessionKept, Zenon DEF Only
  <1> QED BY <1>2, SameKept, SameGrows, OwnersKept, Zenon

LEMMA SameOwners ==
    ASSUME Base, SlotShape, Owners, UNCHANGED <<slot, conn, reused, answers, written, raced>>,
           RingKept
    PROVE  SlotShape' /\ Owners'
  BY SessionKept, SameKept, SameGrows, OwnersKept, Zenon

LEMMA GoneOwners ==
    ASSUME QueueAssumption, Base, Owners, NEW b \in Backends, Gone(b), Kept
    PROVE  SlotShape' /\ Owners'
  <1>1. UNCHANGED <<reused, answers, written, raced>>
    BY Zenon DEF Gone
  <1>2. \A c \in Backends : WorkKept(c) /\ CallKept(c)
    BY GoneConn, SessionKept, IdleKept, Zenon DEF Base
  <1>3. RingKept
    <2>1. Compensation(conn[b].xid).kind # "apply"
      BY CompensationFacts
    <2> QED BY <2>1, GoneRing, Zenon DEF RingKept, Base
  <1> QED BY <1>1, <1>2, <1>3, SameGrows, OwnersKept, Zenon

\* What a session sees of an issue is one whole costing of it.
LEMMA VisibleRight ==
    ASSUME Base, Once, Costings, NEW b \in Backends, NEW i, OfIssue(Visible(b), i) # {}
    PROVE  RightTotal(written, raced, i, Total(OfIssue(Visible(b), i)))
  <1>1. PICK q \in Visible(b) : q.issue = i
    BY Zenon DEF OfIssue
  <1>2. Visible(b) \subseteq written /\ Visible(b) \subseteq rows \cup Uncommitted
    <2>1. conn[b].rows \subseteq written /\ rows \subseteq written
      BY Zenon DEF Base, Shape, Sessions, Session
    <2> QED BY <2>1, Zenon DEF Visible, Uncommitted
  <1>3. OneCosting(written, q) \subseteq Visible(b)
    BY <1>1, Zenon DEF Costings, Visible
  <1>4. i \notin raced => \A r \in OfIssue(Visible(b), i) : Costing(r) = Costing(q)
    BY <1>1, <1>2, Zenon DEF Once, OncePerIssue, OfIssue
  <1>5. i \notin raced => OfIssue(Visible(b), i) = OneCosting(written, q)
    BY <1>1, <1>2, <1>3, <1>4, Zenon DEF OneCosting, OfIssue
  <1>6. q \in OfIssue(written, i)
    BY <1>1, <1>2, Zenon DEF OfIssue
  <1> QED BY <1>5, <1>6, Zenon DEF RightTotal

--------------------------------------------------------------------------------
(* Slots are handed out, stamped, read and freed.                          *)

LEMMA AcquireOwners ==
    ASSUME QueueAssumption, NatsOrdered, Base, SlotShape, Owners, NEW b \in Backends, Acquire(b), Found # {}
    PROVE  SlotShape' /\ Owners'
  <1> DEFINE p == Probe(Min(Found))
  <1>1. p \in Slots /\ slot[p].st = "free"
    BY ProbeFacts, Zenon DEF Base, Shape
  <1>2. slot' = [slot EXCEPT ![p].st = "allocated", ![p].waiter = b]
    BY Zenon DEF Acquire
  <1>3. /\ Only(b) /\ SameWork(b) /\ conn'[b].slot = p /\ conn'[b].pend = conn[b].pend
        /\ UNCHANGED <<ring, answers, written, reused, raced>>
    BY AcquireConn, Zenon DEF Acquire, Base
  <1> HIDE DEF p
  <1>4. /\ SlotShape' /\ slot'[p].st = "allocated" /\ slot'[p].waiter = b
        /\ slot'[p].issue = slot[p].issue /\ \A s \in Slots \ {p} : slot'[s] = slot[s]
    BY <1>1, <1>2, Fields, Zenon DEF SlotShape
  <1>5. slot'[p].st # "free" /\ slot'[p].st # "filled"
    BY <1>4
  <1>6. NamesKept /\ Grows /\ \A c \in Backends : HeldKept(c)
    BY <1>1, <1>3, <1>4, SameGrows, Zenon DEF NamesKept, HeldKept
  <1>7. \A c \in Backends \ {b} : (OwnPush(c) /\ OwnPend(c) /\ OwnWork(c))'
    BY <1>3, <1>6, SessionKept, WorkStep, HeldStep, Zenon
       DEF Only, Owners, Base, Sessions
  <1>8. OwnWork(b)'
    <2>1. WorkKept(b)
      BY <1>3, Zenon DEF WorkKept, SameWork
    <2> QED BY <1>6, <2>1, WorkStep, Zenon DEF Owners, Base, Sessions
  <1>9. OwnPend(b)'
    <2>1. OwnPend(b) /\ HeldKept(b) /\ DOMAIN conn[b].pend \subseteq Slots
      BY <1>6, Zenon DEF Owners, Base, Sessions, Session
    <2> QED BY <1>3, <2>1, Zenon DEF OwnPend, HeldKept
  <1>10. OwnPush(b)'
    <2>1. p \notin DOMAIN conn[b].pend /\ slot[p].issue = 0
      BY <1>1, Zenon DEF Owners, OwnPend, OwnSlot
    <2> QED BY <1>1, <1>3, <1>4, <1>5, <2>1, Zenon DEF OwnPush
  <1>11. OwnRing' /\ OwnAnswers'
    BY <1>3, <1>6, RingStep, AnswersStep, Zenon DEF Owners, RingKept
  <1>12. \A s \in Slots : OwnSlot(s)'
    BY <1>3, <1>4, <1>5, Zenon DEF Owners, OwnSlot
  <1> QED BY <1>4, <1>7, <1>8, <1>9, <1>10, <1>11, <1>12, Zenon DEF Owners

\* Nothing names the slot that a caller is about to push, unless it is reused.
LEMMA PushUnnamed ==
    ASSUME QueueAssumption, Base, Owners, NEW b \in Backends, conn[b].pc = "push",
           conn[b].slot \notin reused
    PROVE  ~Named(conn[b].slot)
  <1> DEFINE s == conn[b].slot
  <1>1. slot[s].issue = 0 /\ 0 \notin Issues
    BY Zenon DEF Owners, OwnPush, QueueAssumption
  <1> HIDE DEF s
  <1>2. ASSUME NEW k \in DOMAIN ring, ring[k].kind = "apply", ring[k].slot = s PROVE FALSE
    <2>1. ring[k] \in Entries
      BY DEF Base, Shape
    <2>2. ring[k].issue \in Issues
      BY <1>2, <2>1, EntryTypes, Zenon
    <2> QED BY <1>1, <1>2, <2>2, Zenon DEF Owners, OwnRing, OwnRequest, s
  <1>3. ASSUME NEW c \in Backends
        PROVE  /\ \A k \in DOMAIN conn[c].batch : conn[c].batch[k].slot # s
               /\ \A k \in DOMAIN conn[c].fills : conn[c].fills[k].slot # s
               /\ \A o \in conn[c].orphans : o[1] # s
    <2>1. OwnWork(c) /\ \A k \in DOMAIN conn[c].batch : conn[c].batch[k].issue \in Issues
      BY Zenon DEF Owners, Base, Sessions, Session
    <2> QED BY <1>1, <2>1, Zenon DEF OwnWork, OwnRequest, OwnFill, OwnOrphan, s
  <1> QED BY <1>2, <1>3, Zenon DEF Named, s

LEMMA PushOwners ==
    ASSUME QueueAssumption, Base, SlotShape, Owners, NEW b \in Backends, Push(b)
    PROVE  SlotShape' /\ Owners'
  <1> DEFINE s == conn[b].slot
             i == Head(conn[b].todo)
  <1>1. /\ conn[b].pc = "push" /\ slot' = [slot EXCEPT ![s].issue = i]
        /\ UNCHANGED <<answers, written, reused, raced>>
    BY Zenon DEF Push, history
  <1>2. /\ s \in Slots \ DOMAIN conn[b].pend /\ slot[s].waiter = b /\ slot[s].st # "free"
        /\ slot[s].issue = 0
    BY <1>1, Zenon DEF Owners, OwnPush
  <1>3. /\ Only(b) /\ SameWork(b)
        /\ conn'[b].pc = (IF Len(conn[b].todo) = 1 THEN "wait" ELSE "acquire")
        /\ conn'[b].pend = [t \in DOMAIN conn[b].pend \cup {s} |->
                              IF t = s THEN i ELSE conn[b].pend[t]]
    BY PushConn, Zenon DEF Base
  <1>4. ~Named(s) \/ s \in reused
    BY <1>1, PushUnnamed, Zenon
  <1>5. \A k \in DOMAIN ring' : (\E j \in DOMAIN ring : ring'[k] = ring[j])
                                \/ ring'[k] = Apply(s, i, conn[b].xid)
    BY PushRing, Zenon
  <1>6. Apply(s, i, conn[b].xid).slot = s /\ Apply(s, i, conn[b].xid).issue = i
    BY DEF Apply
  <1> HIDE DEF s, i
  <1>7. /\ SlotShape' /\ slot'[s].st = slot[s].st /\ slot'[s].waiter = b
        /\ slot'[s].issue = i /\ \A t \in Slots \ {s} : slot'[t] = slot[t]
    BY <1>1, <1>2, Fields, Zenon DEF SlotShape
  <1>8. NamesKept /\ Grows /\ \A c \in Backends \ {b} : HeldKept(c)
    BY <1>1, <1>2, <1>4, <1>7, SameGrows, Zenon DEF NamesKept, HeldKept
  <1>9. \A c \in Backends \ {b} : (OwnPush(c) /\ OwnPend(c) /\ OwnWork(c))'
    BY <1>3, <1>8, SessionKept, WorkStep, HeldStep, Zenon
       DEF Only, Owners, Base, Sessions
  <1>10. OwnWork(b)'
    <2>1. WorkKept(b)
      BY <1>3, Zenon DEF WorkKept, SameWork
    <2> QED BY <1>8, <2>1, WorkStep, Zenon DEF Owners, Base, Sessions
  <1>11. OwnPush(b)'
    <2>1. conn'[b].pc # "push"
      BY <1>3
    <2> QED BY <2>1, Zenon DEF OwnPush
  <1>12. OwnPend(b)'
    <2>1. /\ DOMAIN conn'[b].pend = DOMAIN conn[b].pend \cup {s} /\ conn'[b].pend[s] = i
          /\ \A t \in DOMAIN conn[b].pend : conn'[b].pend[t] = conn[b].pend[t]
      BY <1>2, <1>3, Zenon
    <2>2. \A t \in DOMAIN conn[b].pend : slot'[t] = slot[t]
      BY <1>2, <1>7, Zenon DEF Base, Sessions, Session
    <2>3. OwnPend(b)
      BY Zenon DEF Owners
    <2>4. ASSUME NEW t \in DOMAIN conn[b].pend
          PROVE  slot'[t].waiter = b /\ slot'[t].st # "free" /\ conn'[b].pend[t] = slot'[t].issue
      BY <2>1, <2>2, <2>3, Zenon DEF OwnPend
    <2> QED BY <1>2, <1>7, <2>1, <2>4, Zenon DEF OwnPend
  <1>13. OwnRing'
    <2>1. ASSUME NEW k \in DOMAIN ring', ring'[k] = Apply(s, i, conn[b].xid)
          PROVE  OwnRequest(ring[k])'
      BY <1>6, <1>7, <2>1, Zenon DEF OwnRequest
    <2> QED BY <1>5, <1>8, <2>1, RequestStep, Zenon DEF OwnRing, Owners
  <1>14. OwnAnswers'
    BY <1>1, <1>8, AnswersStep, Zenon DEF Owners
  <1>15. \A t \in Slots : OwnSlot(t)'
    BY <1>1, <1>2, <1>7, Zenon DEF Owners, OwnSlot
  <1> QED BY <1>7, <1>9, <1>10, <1>11, <1>12, <1>13, <1>14, <1>15, Zenon DEF Owners


LEMMA FreedSlot ==
    ASSUME SlotShape, Owners, NEW s \in Slots, slot' = [slot EXCEPT ![s] = Empty],
           reused' = IF Named(s) THEN reused \cup {s} ELSE reused,
           UNCHANGED <<written, raced>>
    PROVE  /\ SlotShape' /\ NamesKept /\ Grows
           /\ \A t \in Slots : OwnSlot(t)'
           /\ \A t \in Slots \ {s} : slot'[t] = slot[t]
  <1>1. /\ SlotShape' /\ slot'[s] = Empty /\ \A t \in Slots \ {s} : slot'[t] = slot[t]
    BY DEF SlotShape, SlotFields
  <1>2. slot'[s].st = "free" /\ slot'[s].issue = 0 /\ slot'[s].st # "filled"
    BY <1>1 DEF Empty
  <1>3. NamesKept /\ reused \subseteq reused'
    BY <1>1, Zenon DEF NamesKept
  <1>4. ASSUME NEW t \in Slots PROVE OwnSlot(t)'
    <2>1. CASE t = s
      BY <1>2, <2>1, Zenon DEF OwnSlot
    <2>2. CASE t # s
      BY <1>1, <1>3, <2>2, Zenon DEF Owners, OwnSlot
    <2> QED BY <2>1, <2>2, Zenon
  <1> QED BY <1>1, <1>3, <1>4, SameGrows, Zenon

LEMMA HarvestOwners ==
    ASSUME QueueAssumption, Base, SlotShape, Owners, NEW b \in Backends, NEW s \in Slots,
           Harvest(b, s)
    PROVE  SlotShape' /\ Owners'
  <1> DEFINE a == [xid |-> conn[b].xid, issue |-> conn[b].pend[s], clean |-> s \notin reused,
                   res |-> slot[s].res]
  <1>1. /\ s \in DOMAIN conn[b].pend /\ slot[s].st = "filled"
        /\ slot' = [slot EXCEPT ![s] = Empty]
        /\ reused' = IF Named(s) THEN reused \cup {s} ELSE reused
        /\ answers' = answers \cup {a} /\ UNCHANGED <<ring, written, raced>>
    BY Zenon DEF Harvest
  <1>2. /\ Only(b) /\ SameWork(b) /\ conn'[b].pc = Resume(conn[b], DOMAIN conn[b].pend \ {s})
        /\ conn'[b].pend = [t \in DOMAIN conn[b].pend \ {s} |-> conn[b].pend[t]]
    BY HarvestConn, Zenon DEF Base
  <1>3. /\ SlotShape' /\ NamesKept /\ Grows
        /\ \A t \in Slots : OwnSlot(t)'
        /\ \A t \in Slots \ {s} : slot'[t] = slot[t]
    BY <1>1, FreedSlot, Zenon
  <1>4. OwnPend(b) /\ OwnSlot(s) /\ DOMAIN conn[b].pend \subseteq Slots
    BY Zenon DEF Owners, Base, Sessions, Session
  <1>5. a.issue = conn[b].pend[s] /\ a.clean = (s \notin reused) /\ a.res = slot[s].res
    OBVIOUS
  <1> HIDE DEF a
  <1>6. OwnAnswers'
    <2>1. a.clean => Right(written, raced, a.issue, a.res)
      BY <1>1, <1>4, <1>5, Zenon DEF OwnPend, OwnSlot
    <2> QED BY <1>1, <2>1, Zenon DEF OwnAnswers, Owners
  <1>7. \A c \in Backends \ {b} : HeldKept(c)
    BY <1>1, <1>3, <1>4, Zenon DEF HeldKept, OwnPend
  <1>8. \A c \in Backends \ {b} : (OwnPush(c) /\ OwnPend(c) /\ OwnWork(c))'
    BY <1>2, <1>3, <1>7, SessionKept, WorkStep, HeldStep, Zenon
       DEF Only, Owners, Base, Sessions
  <1>9. OwnWork(b)'
    <2>1. WorkKept(b)
      BY <1>2, Zenon DEF WorkKept, SameWork
    <2> QED BY <1>3, <2>1, WorkStep, Zenon DEF Owners, Base, Sessions
  <1>10. OwnPush(b)'
    <2>1. conn'[b].pc # "push"
      BY <1>2 DEF Resume
    <2> QED BY <2>1, Zenon DEF OwnPush
  <1>11. OwnPend(b)'
    <2>1. \A t \in DOMAIN conn'[b].pend : /\ t \in DOMAIN conn[b].pend /\ slot'[t] = slot[t]
                                          /\ conn'[b].pend[t] = conn[b].pend[t]
      BY <1>2, <1>3, <1>4, Zenon
    <2> QED BY <1>4, <2>1, Zenon DEF OwnPend
  <1>12. OwnRing'
    BY <1>1, <1>3, RingStep, Zenon DEF Owners, RingKept
  <1> QED BY <1>3, <1>6, <1>8, <1>9, <1>10, <1>11, <1>12, Zenon DEF Owners

LEMMA AuditOwners ==
    ASSUME QueueAssumption, Base, SlotShape, Owners, NEW s \in Slots, Audit(s)
    PROVE  SlotShape' /\ Owners'
  <1>1. /\ slot[s].waiter \in dead /\ slot' = [slot EXCEPT ![s] = Empty]
        /\ reused' = IF Named(s) THEN reused \cup {s} ELSE reused
        /\ UNCHANGED <<ring, conn, answers, written, raced>>
    BY Zenon DEF Audit
  <1>2. /\ SlotShape' /\ NamesKept /\ Grows
        /\ \A t \in Slots : OwnSlot(t)'
        /\ \A t \in Slots \ {s} : slot'[t] = slot[t]
    BY <1>1, FreedSlot, Zenon
  <1>3. ASSUME NEW c \in Backends PROVE OwnPush(c)' /\ OwnPend(c)'
    <2>1. CASE c \in dead
      <3>1. conn[c].pc = "idle" /\ conn[c].pend = <<>>
        BY <2>1, Zenon DEF Base, Sessions, Session
      <3>2. conn'[c].pc # "push" /\ DOMAIN conn'[c].pend = {}
        BY <1>1, <3>1, EmptyDomain, Zenon
      <3> QED BY <3>2, Zenon DEF OwnPush, OwnPend
    <2>2. CASE c \notin dead
      <3>1. HeldKept(c)
        BY <1>1, <1>2, <2>2, Zenon DEF HeldKept
      <3> QED BY <1>1, <3>1, SessionKept, HeldStep, Zenon DEF Owners, Base, Sessions
    <2> QED BY <2>1, <2>2, Zenon
  <1>4. \A c \in Backends : OwnWork(c)'
    BY <1>1, <1>2, SessionKept, WorkStep, Zenon DEF Owners, Base, Sessions
  <1>5. OwnRing' /\ OwnAnswers'
    BY <1>1, <1>2, RingStep, AnswersStep, Zenon DEF Owners, RingKept
  <1> QED BY <1>2, <1>3, <1>4, <1>5, Zenon DEF Owners

LEMMA RestartOwners ==
    ASSUME Owners, Restart
    PROVE  SlotShape' /\ Owners'
  <1>1. /\ slot' = [s \in Slots |-> Empty] /\ ring' = <<>>
        /\ UNCHANGED <<answers, written, raced>> /\ \A c \in Backends : conn'[c] = Idle
    BY Zenon DEF Restart
  <1>2. SlotShape' /\ \A s \in Slots : slot'[s] = Empty
    BY <1>1, Zenon DEF SlotShape, SlotFields
  <1>3. Empty.issue = 0 /\ Empty.st # "filled"
    BY DEF Empty
  <1>4. \A s \in Slots : OwnSlot(s)'
    BY <1>2, <1>3, Zenon DEF OwnSlot
  <1>5. ASSUME NEW c \in Backends PROVE (OwnPush(c) /\ OwnPend(c) /\ OwnWork(c))'
    <2>1. /\ conn'[c].orphans = {} /\ DOMAIN conn'[c].pend = {}
          /\ DOMAIN conn'[c].batch = {} /\ DOMAIN conn'[c].fills = {}
      BY <1>1, IdleFacts, EmptyDomain, Zenon
    <2>2. conn'[c].pc # "push"
      BY <1>1, IdleFacts, Zenon
    <2> QED BY <2>1, <2>2, Zenon DEF OwnPush, OwnPend, OwnWork
  <1>6. OwnRing' /\ OwnAnswers'
    BY <1>1, EmptyDomain, Zenon DEF OwnRing, OwnAnswers, Owners
  <1> QED BY <1>2, <1>4, <1>5, <1>6, Zenon DEF Owners

================================================================================
