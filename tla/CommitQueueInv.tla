---------------------------- MODULE CommitQueueInv ----------------------------
(***************************************************************************)
(* The inductive invariant of the committer queue, the facts about its     *)
(* operators, and the steps for two of its parts: the shape of the state,  *)
(* and the one costing of an issue.                                        *)
(***************************************************************************)
EXTENDS CommitQueue, TLAPS

--------------------------------------------------------------------------------
(* The inductive invariant, in the parts its proof is split by.            *)

ConnFields == DOMAIN Idle
SlotFields == DOMAIN Empty
Entries == [kind : {"apply"}, slot : Slots, issue : Issues, xid : Nat]
           \cup [kind : {"compensate"}, xid : Nat]
IsSeq(f) == f \in Seq({f[k] : k \in DOMAIN f})

\* The shape of the state: what an update of one field leaves alone.
Shape ==
    /\ DOMAIN conn = Backends /\ \A b \in Backends : DOMAIN conn[b] = ConnFields
    /\ DOMAIN count = {"tx", "calls", "faults", "restarts"} /\ count.tx \in Nat
    /\ ring \in Seq(Entries) /\ Len(ring) <= RingCap
    /\ nextSlot \in Nat /\ txSeq \in Nat
    /\ rows \subseteq written
    /\ \A r \in written : r.ctx \in Nat /\ r.xid \in 0..count.tx
    /\ aborted \subseteq 0..count.tx
    /\ dead \subseteq Backends

SlotShape == DOMAIN slot = Slots /\ \A s \in Slots : DOMAIN slot[s] = SlotFields

\* A session: what its call holds at each stage of it.
Session(b) ==
    LET C == conn[b]
    IN  /\ C.xid \in 0..count.tx /\ C.rows \subseteq written
        /\ C.todo \in Seq(Issues) /\ IsSeq(C.fills) /\ IsSeq(C.batch)
        /\ DOMAIN C.pend \subseteq Slots
        /\ \A o \in C.orphans : o[1] \in Slots
        /\ C.pc # "idle" => C.xid # 0
        /\ C.xid # 0 => C.xid \notin aborted
        /\ C.pc \in {"acquire", "push"} => C.todo # <<>>
        /\ C.pc \in Stages => lease = b
        /\ C.pc \notin {"snap", "insert"} => C.batch = <<>>
        /\ C.pc \in {"snap", "insert"} => C.ctx \in 0..txSeq
        /\ C.pc # "fill" => C.fills = <<>>
        /\ \A k \in DOMAIN C.batch : /\ C.batch[k].slot \in Slots
                                     /\ C.batch[k].issue \in Issues
                                     /\ C.batch[k].xid \in 0..count.tx
        /\ \A k \in DOMAIN C.fills : C.fills[k].slot \in Slots
        /\ C.xid = 0 => C.pend = <<>>
        /\ b \in dead => C.pc = "idle" /\ C.xid = 0

Sessions ==
    /\ \A b \in Backends : Session(b)
    /\ \A b, c \in Backends : conn[b].xid = conn[c].xid /\ conn[b].xid # 0 => b = c
    /\ \A k \in DOMAIN ring : ring[k].xid \in 0..count.tx

\* The compensation of transaction x is in the ring behind place k.
Behind(R, k, x) == \E j \in DOMAIN R : j > k /\ R[j] = Compensation(x)

\* A row whose requester rolled back has its reversal, or the compensation is
\* in the ring, or a startup scan to come will find it.
Handled(r) ==
    \/ r.xid \notin aborted \ uncomp
    \/ \E v \in revs \cup OpenRevs : v.row = r
    \/ Behind(ring, 0, r.xid)
    \/ /\ startup # "done" /\ r \in rows
       /\ \A v \in revs \cup OpenRevs : v.row.xid # r.xid

\* A request of a transaction that rolled back has the compensation behind it.
Aborts ==
    /\ \A r \in rows \cup Uncommitted : Handled(r)
    /\ \A b \in Backends : \A k \in DOMAIN conn[b].batch :
          conn[b].batch[k].xid \in aborted \ uncomp => Behind(ring, 0, conn[b].batch[k].xid)
    /\ \A k \in DOMAIN ring :
          ring[k].kind = "apply" /\ ring[k].xid \in aborted \ uncomp =>
              Behind(ring, k, ring[k].xid)

\* A request to be costed afresh is the only trace of its issue.
Sole(b, k) ==
    LET q == conn[b].batch[k]
    IN  q.old = {} /\ q.issue \notin raced =>
            /\ OfIssue(rows \cup Uncommitted, q.issue) = {}
            /\ \A j \in DOMAIN conn[b].batch \ {k} : conn[b].batch[j].issue # q.issue

Once ==
    /\ OncePerIssue
    /\ \A b \in Backends : \A k \in DOMAIN conn[b].batch : Sole(b, k)

\* The rows of W written for the costing of q's issue that q belongs to.
OneCosting(W, q) == {r \in OfIssue(W, q.issue) : Costing(r) = Costing(q)}

\* Costings are told apart by context and transaction, and stay together: a row
\* of a transaction that may still ask has a context already given out.
Past(W, n, x) == \A r \in W : r.xid = x => r.ctx <= n

Costings ==
    /\ \A k \in DOMAIN ring : ring[k].kind = "apply" => Past(written, txSeq, ring[k].xid)
    /\ \A b \in Backends :
          /\ conn[b].xid # 0 => Past(written, txSeq, conn[b].xid)
          /\ \A k \in DOMAIN conn[b].batch : \A r \in written :
                r.xid = conn[b].batch[k].xid => r.ctx < conn[b].ctx
          /\ \A q \in conn[b].rows : OneCosting(written, q) \subseteq conn[b].rows
    /\ \A q \in rows : OneCosting(written, q) \subseteq rows

\* Some one costing of issue i in W has total t, or the issue is left out by R.
RightTotal(W, R, i, t) ==
    i \in R \/ \E q \in OfIssue(W, i) : Total(OneCosting(W, q)) = t
Right(W, R, i, res) == res.err \/ RightTotal(W, R, i, res.total)

\* The issue stamped on a slot is the issue of whatever names it, unless the
\* slot was freed under a name.
OwnSlot(s) ==
    /\ slot[s].st = "free" => slot[s].issue = 0
    /\ slot[s].st = "filled" /\ s \notin reused =>
          slot[s].issue # 0 /\ Right(written, raced, slot[s].issue, slot[s].res)
OwnRequest(q) == q.slot \notin reused => q.issue = slot[q.slot].issue
OwnReplay(q) == q.old # {} => RightTotal(written, raced, q.issue, Total(q.old))
OwnOrphan(o) == o[1] \notin reused => o[2] # 0 /\ o[2] = slot[o[1]].issue
OwnFill(f) ==
    f.slot \notin reused => /\ slot[f.slot].issue # 0
                            /\ Right(written, raced, slot[f.slot].issue, f.res)
OwnPush(b) ==
    LET s == conn[b].slot
    IN  conn[b].pc = "push" => /\ s \in Slots \ DOMAIN conn[b].pend
                               /\ slot[s].waiter = b /\ slot[s].st # "free"
                               /\ slot[s].issue = 0
OwnPend(b) ==
    \A s \in DOMAIN conn[b].pend : /\ slot[s].waiter = b /\ slot[s].st # "free"
                                   /\ conn[b].pend[s] = slot[s].issue

OwnWork(b) ==
    /\ \A o \in conn[b].orphans : OwnOrphan(o)
    /\ \A k \in DOMAIN conn[b].batch : /\ OwnRequest(conn[b].batch[k])
                                        /\ OwnReplay(conn[b].batch[k])
    /\ \A k \in DOMAIN conn[b].fills : OwnFill(conn[b].fills[k])
OwnRing == \A k \in DOMAIN ring : ring[k].kind = "apply" => OwnRequest(ring[k])
OwnAnswers == \A a \in answers : a.clean => Right(written, raced, a.issue, a.res)

Owners ==
    /\ \A s \in Slots : OwnSlot(s)
    /\ OwnRing /\ OwnAnswers
    /\ \A b \in Backends : OwnPush(b) /\ OwnPend(b) /\ OwnWork(b)

IInv == Shape /\ SlotShape /\ Sessions /\ Aborts /\ Once /\ Costings /\ Owners

--------------------------------------------------------------------------------
(* Facts about the operators of the model.                                 *)

LEMMA Fields ==
    /\ ConnFields = {"pc", "xid", "single", "todo", "slot", "pend", "orphans", "batch",
                     "ctx", "view", "fills", "rows", "revs", "locks", "planning"}
    /\ SlotFields = {"st", "waiter", "issue", "res"}
  BY DEF ConnFields, Idle, SlotFields, Empty

\* Every non-empty set of numbers has a least one.  The library's proof of it is
\* brought in where the theorems are put together, and is a premise until then.
NatsOrdered == \A S \in SUBSET Nat : S # {} => \E m \in S : \A k \in S : m <= k

LEMMA MinIn ==
    ASSUME NatsOrdered, NEW S \in SUBSET Nat, S # {}
    PROVE  Min(S) \in S
  BY Zenon DEF Min, NatsOrdered

LEMMA MaxIn ==
    ASSUME NatsOrdered, NEW n \in Nat, NEW S \in SUBSET (0..n), S # {}
    PROVE  Max(S) \in S /\ \A k \in S : k <= Max(S)
  <1> DEFINE T == {n - k : k \in S}
  <1>1. T \in SUBSET Nat /\ T # {}
    <2>1. \A k \in S : n - k \in Nat
      OBVIOUS
    <2> QED BY <2>1, Zenon
  <1>2. PICK m \in T : \A k \in T : m <= k
    BY <1>1, Zenon DEF NatsOrdered
  <1>3. PICK x \in S : m = n - x
    BY <1>2
  <1>4. \A k \in S : x >= k
    BY <1>2, <1>3
  <1>5. Max(S) \in S /\ \A k \in S : Max(S) >= k
    BY <1>3, <1>4, Zenon DEF Max
  <1> QED BY <1>5

LEMMA NatRefl == \A n \in Nat : n <= n
  OBVIOUS

\* What counts up to a number is a number.
LEMMA RangeNat == \A m \in Nat : 0 \in 0..m /\ 0..m \subseteq Nat
  OBVIOUS

\* The members of a sequence.
LEMMA SeqAt ==
    ASSUME NEW S, NEW s \in Seq(S), NEW k \in DOMAIN s
    PROVE  s[k] \in S
  OBVIOUS

\* The head of the ring that a drain takes is of one kind.
LEMMA PrefixFacts ==
    ASSUME QueueAssumption, NatsOrdered, ring \in Seq(Entries), NEW kind
    PROVE  /\ Prefix(kind) \in 0..Len(ring)
           /\ \A k \in 1..Prefix(kind) : ring[k].kind = kind
  <1> DEFINE S == {n \in 0..Len(ring) :
                     n <= BatchMax /\ \A k \in 1..n : ring[k].kind = kind}
  <1>1. Len(ring) \in Nat /\ S \in SUBSET (0..Len(ring)) /\ 0 \in S
    BY DEF QueueAssumption
  <1>2. Max(S) \in S
    <2> HIDE DEF S
    <2> QED BY <1>1, MaxIn, Zenon
  <1> QED BY <1>2 DEF Prefix

LEMMA ProbeFacts ==
    ASSUME QueueAssumption, NatsOrdered, nextSlot \in Nat
    PROVE  /\ \A k \in Nat : Probe(k) \in Slots
           /\ Found # {} => /\ Probe(Min(Found)) \in Slots
                            /\ slot[Probe(Min(Found))].st = "free"
                            /\ Probe(Min(Found) + 1) \in Nat
           /\ Probe(MaxProbe) \in Nat
  <1>1. \A k \in Nat : Probe(k) \in Slots
    BY DEF QueueAssumption, Probe, Slots
  <1>2. \A s \in Slots : s \in Nat
    BY DEF Slots, QueueAssumption
  <1>3. MaxProbe \in Nat
    BY DEF QueueAssumption
  <1>4. ASSUME Found # {}
        PROVE  Min(Found) \in Nat /\ slot[Probe(Min(Found))].st = "free"
    <2>1. Found \in SUBSET Nat /\ \A k \in Found : slot[Probe(k)].st = "free"
      BY <1>3 DEF Found
    <2> QED BY <1>4, <2>1, MinIn, Zenon
  <1> QED BY <1>1, <1>2, <1>3, <1>4

\* Nothing drawn is nothing covered.
LEMMA EmptySum == MapThenSumSet(LAMBDA r : r.qty, {}) = 0
  <1> DEFINE it == [s \in SUBSET {} |-> 0]
             F(g) == [s \in SUBSET {} |->
                        IF s = {} THEN 0
                        ELSE (CHOOSE x \in s : TRUE).qty + g[s \ {CHOOSE x \in s : TRUE}]]
  <1>1. it = F(it)
    OBVIOUS
  <1>2. (CHOOSE g : g = F(g)) = F(CHOOSE g : g = F(g))
    <2> HIDE DEF it, F
    <2> QED BY <1>1
  <1>3. (CHOOSE g : g = F(g))[{}] = 0
    BY <1>2, Zenon
  <1> QED BY <1>3 DEF MapThenSumSet, MapThenFoldSet

\* What a row of the plan says: the request it is for, and the batch's context.
LEMMA DrawsFacts ==
    ASSUME NEW b, NEW served, NEW k, NEW r \in Draws(b, served, k)
    PROVE  /\ r.issue = conn[b].batch[k].issue /\ r.xid = conn[b].batch[k].xid
           /\ r.ctx = conn[b].ctx /\ r.nth = k
  <1>1. PICK l, t : r = [issue |-> conn[b].batch[k].issue, layer |-> l, qty |-> t,
                         xid |-> conn[b].batch[k].xid, ctx |-> conn[b].ctx, nth |-> k]
    BY Zenon DEF Draws
  <1> QED BY <1>1

\* A request that is served draws something.
LEMMA ServedDraws ==
    ASSUME QueueAssumption, NEW b, NEW served, Serves(b, served),
           NEW k \in Fresh(b), k \in served, conn[b].batch[k].issue \in Issues
    PROVE  Draws(b, served, k) # {}
  <1>1. Qty[conn[b].batch[k].issue] # 0
    BY DEF QueueAssumption
  <1>2. MapThenSumSet(LAMBDA r : r.qty, Draws(b, served, k))
            = Qty[conn[b].batch[k].issue]
    BY Zenon DEF Serves
  <1> QED BY <1>1, <1>2, EmptySum, Zenon

--------------------------------------------------------------------------------
(* Sessions.                                                               *)

\* At most one session is at work on the ring.
LEMMA Alone ==
    ASSUME Sessions, NEW b \in Backends, conn[b].pc \in Stages
    PROVE  lease = b /\ \A c \in Backends \ {b} : conn[c].pc \notin Stages
  BY Zenon DEF Sessions, Session

\* What a session keeps while another one, or the server, takes a step.
LEMMA SessionKeeps ==
    ASSUME Shape, Sessions, Shape', NEW c \in Backends, conn'[c] = conn[c],
           written \subseteq written', count.tx <= count'.tx, txSeq <= txSeq',
           conn[c].pc \in Stages => lease' = c, c \in dead' => c \in dead,
           conn[c].xid # 0 => conn[c].xid \notin aborted'
    PROVE  Session(c)'
  <1>1. count.tx \in Nat /\ count'.tx \in Nat /\ txSeq \in Nat /\ txSeq' \in Nat
    BY Zenon DEF Shape
  <1>2. Session(c)
    BY Zenon DEF Sessions
  <1>3. conn[c].xid \in 0..count'.tx /\ \A k \in DOMAIN conn[c].batch :
            conn[c].batch[k].xid \in 0..count'.tx
    BY <1>1, <1>2 DEF Session
  <1>4. conn[c].pc \in {"snap", "insert"} => conn[c].ctx \in 0..txSeq'
    BY <1>1, <1>2 DEF Session
  <1> QED BY <1>2, <1>3, <1>4, Zenon DEF Session

\* A step of session b leaves the others as they were.
LEMMA SessionsStep ==
    ASSUME Shape, Sessions, Shape', NEW b \in Backends,
           \A c \in Backends \ {b} : conn'[c] = conn[c],
           written \subseteq written', count.tx <= count'.tx, txSeq <= txSeq',
           \A c \in Backends \ {b} : conn[c].pc \in Stages => lease' = c,
           dead' \subseteq dead \cup {b}, aborted' \subseteq aborted \cup {conn[b].xid},
           conn'[b].xid \in {0, conn[b].xid, count.tx + 1}, Session(b)',
           \A k \in DOMAIN ring' : ring'[k].xid \in 0..count'.tx
    PROVE  Sessions'
  <1>1. ASSUME NEW c \in Backends, c # b PROVE Session(c)'
    <2>1. conn[c].xid # 0 => conn[c].xid \notin aborted'
      BY <1>1, Zenon DEF Sessions, Session
    <2> QED BY <1>1, <2>1, SessionKeeps, Zenon
  <1>2. ASSUME NEW c \in Backends, NEW d \in Backends, c # d,
               conn'[c].xid = conn'[d].xid, conn'[c].xid # 0
        PROVE  FALSE
    <2>1. count.tx \in Nat /\ \A e \in Backends : conn[e].xid \in 0..count.tx
      BY Zenon DEF Shape, Sessions, Session
    <2>2. \A e \in Backends : conn[e].xid # count.tx + 1
      BY <2>1
    <2>3. CASE c # b /\ d # b
      BY <1>2, <2>3, Zenon DEF Sessions
    <2>4. CASE c = b
      BY <1>2, <2>2, <2>4, Zenon DEF Sessions
    <2>5. CASE d = b
      BY <1>2, <2>2, <2>5, Zenon DEF Sessions
    <2> QED BY <2>3, <2>4, <2>5, Zenon
  <1> QED BY <1>1, <1>2, Zenon DEF Sessions

LEMMA EntryTypes ==
    /\ \A x \in Nat : Compensation(x) \in Entries
    /\ \A s \in Slots, i \in Issues, x \in Nat : Apply(s, i, x) \in Entries
    /\ \A e \in Entries : e.kind = "apply" => e.slot \in Slots /\ e.issue \in Issues
    /\ \A e \in Entries : e.xid \in Nat
    /\ \A x : Compensation(x).kind = "compensate" /\ Compensation(x).xid = x
    /\ \A s, i, x : /\ Apply(s, i, x).kind = "apply" /\ Apply(s, i, x).slot = s
                    /\ Apply(s, i, x).issue = i /\ Apply(s, i, x).xid = x
  BY DEF Entries, Compensation, Apply

LEMMA RingAppend ==
    ASSUME ring \in Seq(Entries), NEW e \in Entries, Len(ring) < RingCap,
           QueueAssumption
    PROVE  LET r == Append(ring, e)
           IN  /\ r \in Seq(Entries) /\ Len(r) <= RingCap /\ Len(ring) \in Nat
               /\ DOMAIN ring = 1..Len(ring) /\ DOMAIN r = 1..Len(ring) + 1
               /\ \A k \in 1..Len(ring) : r[k] = ring[k]
               /\ r[Len(ring) + 1] = e
  BY DEF QueueAssumption

LEMMA RingDrain ==
    ASSUME ring \in Seq(Entries), NEW n \in 0..Len(ring), Len(ring) <= RingCap,
           QueueAssumption
    PROVE  LET r == SubSeq(ring, n + 1, Len(ring))
           IN  /\ r \in Seq(Entries) /\ Len(r) <= RingCap
               /\ Len(ring) \in Nat /\ Len(r) = Len(ring) - n
               /\ DOMAIN ring = 1..Len(ring) /\ DOMAIN r = 1..Len(ring) - n
               /\ \A k \in 1..Len(ring) - n : r[k] = ring[k + n]
  BY DEF QueueAssumption

--------------------------------------------------------------------------------
(* What each step does to the session that takes it.                       *)

Only(b) ==
    /\ DOMAIN conn' = Backends /\ \A c \in Backends : DOMAIN conn'[c] = ConnFields
    /\ \A c \in Backends \ {b} : conn'[c] = conn[c]
SameTx(b) ==
    conn'[b].xid = conn[b].xid /\ conn'[b].rows = conn[b].rows /\ conn'[b].revs = conn[b].revs
SameWork(b) ==
    /\ conn'[b].batch = conn[b].batch /\ conn'[b].fills = conn[b].fills
    /\ conn'[b].orphans = conn[b].orphans
SameCall(b) ==
    conn'[b].todo = conn[b].todo /\ conn'[b].slot = conn[b].slot /\ conn'[b].pend = conn[b].pend

LEMMA CallConn ==
    ASSUME Shape, NEW b \in Backends, NEW c \in Calls, Call(b, c)
    PROVE  /\ Only(b) /\ SameWork(b) /\ conn'[b].pc = "acquire" /\ conn'[b].todo = c[2]
           /\ conn'[b].xid = (IF conn[b].xid # 0 THEN conn[b].xid ELSE count.tx + 1)
           /\ conn'[b].rows = conn[b].rows /\ conn'[b].revs = conn[b].revs
           /\ conn'[b].slot = conn[b].slot /\ conn'[b].pend = conn[b].pend
           /\ conn'[b].ctx = conn[b].ctx
  BY Fields DEF Shape, Call, Only, SameTx, SameWork, SameCall, Open

LEMMA AcquireConn ==
    ASSUME Shape, NEW b \in Backends, Acquire(b), Found # {}
    PROVE  /\ Only(b) /\ SameTx(b) /\ SameWork(b) /\ conn'[b].pc = "push"
           /\ conn'[b].slot = Probe(Min(Found)) /\ conn'[b].todo = conn[b].todo
           /\ conn'[b].pend = conn[b].pend /\ conn'[b].ctx = conn[b].ctx
  BY Fields DEF Shape, Acquire, Only, SameTx, SameWork, SameCall

LEMMA AcquireNoneConn ==
    ASSUME Shape, NEW b \in Backends, Acquire(b), Found = {}, ~conn[b].single
    PROVE  /\ Only(b) /\ SameTx(b) /\ SameWork(b) /\ SameCall(b) /\ conn'[b].pc = "wait"
           /\ conn'[b].ctx = conn[b].ctx
  BY Fields DEF Shape, Acquire, Only, SameTx, SameWork, SameCall

LEMMA PushConn ==
    ASSUME Shape, NEW b \in Backends, Push(b)
    PROVE  /\ Only(b) /\ SameTx(b) /\ SameWork(b) /\ conn'[b].todo = Tail(conn[b].todo)
           /\ conn'[b].pc = (IF Len(conn[b].todo) = 1 THEN "wait" ELSE "acquire")
           /\ conn'[b].pend = [t \in DOMAIN conn[b].pend \cup {conn[b].slot} |->
                                 IF t = conn[b].slot THEN Head(conn[b].todo)
                                 ELSE conn[b].pend[t]]
           /\ conn'[b].ctx = conn[b].ctx
  <1> DEFINE T == Tail(conn[b].todo)
             pc == IF Len(conn[b].todo) = 1 THEN "wait" ELSE "acquire"
             P == [t \in DOMAIN conn[b].pend \cup {conn[b].slot} |->
                    IF t = conn[b].slot THEN Head(conn[b].todo) ELSE conn[b].pend[t]]
  <1>1. conn' = [conn EXCEPT ![b].todo = T, ![b].slot = -1, ![b].pend = P, ![b].pc = pc]
    BY Zenon DEF Push
  <1> HIDE DEF T, pc, P
  <1>2. Only(b) /\ SameTx(b) /\ SameWork(b) /\ conn'[b].todo = T /\ conn'[b].pc = pc /\ conn'[b].pend = P
        /\ conn'[b].ctx = conn[b].ctx
    BY <1>1, Fields DEF Shape, Only, SameTx, SameWork, SameCall
  <1> QED BY <1>2, Zenon DEF T, pc, P

LEMMA HarvestConn ==
    ASSUME Shape, NEW b \in Backends, NEW s, Harvest(b, s)
    PROVE  /\ Only(b) /\ SameTx(b) /\ SameWork(b) /\ conn'[b].todo = conn[b].todo
           /\ conn'[b].pc = Resume(conn[b], DOMAIN conn[b].pend \ {s})
           /\ conn'[b].pend = [t \in DOMAIN conn[b].pend \ {s} |-> conn[b].pend[t]]
           /\ conn'[b].slot = conn[b].slot /\ conn'[b].ctx = conn[b].ctx
  BY Fields DEF Shape, Harvest, Only, SameTx, SameWork, SameCall

LEMMA ElectConn ==
    ASSUME Shape, NEW b \in Backends, Elect(b)
    PROVE  /\ Only(b) /\ SameTx(b) /\ SameWork(b) /\ SameCall(b)
           /\ conn'[b].pc = (IF lease = Nobody THEN "comp" ELSE "collect")
           /\ conn'[b].ctx = conn[b].ctx
  BY Fields DEF Shape, Elect, Only, SameTx, SameWork, SameCall

LEMMA CollectConn ==
    ASSUME Shape, NEW b \in Backends, Collect(b)
    PROVE  /\ Only(b) /\ SameTx(b) /\ SameCall(b) /\ conn'[b].pc \in {"comp", "recover"}
           /\ conn'[b].batch = conn[b].batch /\ conn'[b].fills = conn[b].fills
           /\ conn'[b].orphans = {<<s, slot[s].issue>> :
                  s \in {t \in Slots : slot[t].st = "allocated" /\ slot[t].issue # 0}}
           /\ conn'[b].ctx = txSeq + 1
  <1> DEFINE O == {<<s, slot[s].issue>> :
                    s \in {t \in Slots : slot[t].st = "allocated" /\ slot[t].issue # 0}}
             pc == IF O = {} THEN "comp" ELSE "recover"
  <1>1. conn' = [conn EXCEPT ![b].orphans = O, ![b].ctx = txSeq + 1, ![b].pc = pc]
    BY Zenon DEF Collect
  <1> HIDE DEF O, pc
  <1>2. Only(b) /\ SameTx(b) /\ SameCall(b) /\ conn'[b].pc = pc /\ conn'[b].batch = conn[b].batch
        /\ conn'[b].fills = conn[b].fills /\ conn'[b].orphans = O /\ conn'[b].ctx = txSeq + 1
    BY <1>1, Fields DEF Shape, Only, SameTx, SameWork, SameCall
  <1> QED BY <1>2, Zenon DEF O, pc

LEMMA ReconcileConn ==
    ASSUME Shape, NEW b \in Backends, NEW o, Reconcile(b, o)
    PROVE  /\ Only(b) /\ SameTx(b) /\ SameCall(b) /\ conn'[b].pc \in {"comp", "recover"}
           /\ conn'[b].batch = conn[b].batch /\ conn'[b].fills = conn[b].fills
           /\ conn'[b].orphans = conn[b].orphans \ {o} /\ conn'[b].ctx = conn[b].ctx
  BY Fields DEF Shape, Reconcile, Only, SameTx, SameWork, SameCall

LEMMA CompensateConn ==
    ASSUME Shape, NEW b \in Backends, Compensate(b)
    PROVE  /\ Only(b) /\ SameWork(b) /\ SameCall(b) /\ conn'[b].pc = "drain"
           /\ conn'[b].xid = conn[b].xid /\ conn'[b].rows = conn[b].rows
           /\ conn'[b].revs = conn[b].revs \cup
                 {[row |-> r, ctx |-> txSeq + 1] :
                    r \in {q \in Visible(b) : q.xid \in {ring[k].xid :
                             k \in 1..Prefix("compensate")}} \ Reversed(b)}
           /\ conn'[b].ctx = conn[b].ctx
  BY Fields DEF Shape, Compensate, Only, SameTx, SameWork, SameCall

LEMMA DrainConn ==
    ASSUME Shape, NEW b \in Backends, Drain(b)
    PROVE  /\ Only(b) /\ SameTx(b) /\ SameCall(b)
           /\ conn'[b].pc = (IF Prefix("apply") = 0 THEN "release" ELSE "snap")
           /\ conn'[b].batch = [k \in 1..Prefix("apply") |->
                 [slot |-> ring[k].slot, issue |-> ring[k].issue, xid |-> ring[k].xid,
                  old |-> Prior(b, ring[k].issue)]]
           /\ conn'[b].fills = conn[b].fills /\ conn'[b].orphans = conn[b].orphans
           /\ conn'[b].ctx = txSeq + 1
  <1> DEFINE B == [k \in 1..Prefix("apply") |->
                    [slot |-> ring[k].slot, issue |-> ring[k].issue, xid |-> ring[k].xid,
                     old |-> Prior(b, ring[k].issue)]]
             pc == IF Prefix("apply") = 0 THEN "release" ELSE "snap"
  <1>1. conn' = [conn EXCEPT ![b].batch = B, ![b].ctx = txSeq + 1, ![b].pc = pc]
    BY Zenon DEF Drain
  <1> HIDE DEF B, pc
  <1>2. Only(b) /\ SameTx(b) /\ SameCall(b) /\ conn'[b].pc = pc /\ conn'[b].batch = B
        /\ conn'[b].fills = conn[b].fills /\ conn'[b].orphans = conn[b].orphans
        /\ conn'[b].ctx = txSeq + 1
    BY <1>1, Fields DEF Shape, Only, SameTx, SameWork, SameCall
  <1> QED BY <1>2, Zenon DEF B, pc

LEMMA SnapshotConn ==
    ASSUME Shape, NEW b \in Backends, Snapshot(b)
    PROVE  /\ Only(b) /\ SameTx(b) /\ SameWork(b) /\ SameCall(b) /\ conn'[b].pc = "insert"
           /\ conn'[b].ctx = conn[b].ctx
  BY Fields DEF Shape, Snapshot, Only, SameTx, SameWork, SameCall

LEMMA FillConn ==
    ASSUME Shape, NEW b \in Backends, Fill(b), slot[Head(conn[b].fills).slot].st \in {"allocated", "abandoned"}
    PROVE  /\ Only(b) /\ SameTx(b) /\ SameCall(b)
           /\ conn'[b].fills = Tail(conn[b].fills) /\ conn'[b].batch = conn[b].batch
           /\ conn'[b].pc = (IF Len(conn[b].fills) = 1 THEN "release" ELSE conn[b].pc)
           /\ conn'[b].orphans = conn[b].orphans /\ conn'[b].ctx = conn[b].ctx
  <1> DEFINE T == Tail(conn[b].fills)
             pc == IF Len(conn[b].fills) = 1 THEN "release" ELSE conn[b].pc
  <1>1. conn' = [conn EXCEPT ![b].fills = T, ![b].pc = pc]
    BY Zenon DEF Fill
  <1> HIDE DEF T, pc
  <1>2. Only(b) /\ SameTx(b) /\ SameCall(b) /\ conn'[b].fills = T /\ conn'[b].batch = conn[b].batch
        /\ conn'[b].pc = pc /\ conn'[b].orphans = conn[b].orphans
        /\ conn'[b].ctx = conn[b].ctx
    BY <1>1, Fields DEF Shape, Only, SameTx, SameWork, SameCall
  <1> QED BY <1>2, Zenon DEF T, pc

LEMMA ReleaseConn ==
    ASSUME Shape, NEW b \in Backends, Release(b)
    PROVE  /\ Only(b) /\ SameTx(b) /\ SameWork(b) /\ SameCall(b)
           /\ conn'[b].pc = (IF conn[b].todo # <<>> THEN "acquire" ELSE "wait")
  BY Fields DEF Shape, Release, Only, SameTx, SameWork, SameCall

LEMMA CommitConn ==
    ASSUME Shape, NEW b \in Backends, Commit(b)
    PROVE  Only(b) /\ conn'[b] = Idle
  BY Fields DEF Shape, Commit, Only, SameTx, SameWork, SameCall, ConnFields

\* The part of Insert that does not raise.
Inserts(b, served, new) ==
    /\ conn[b].pc = "insert" /\ served \subseteq Fresh(b)
    /\ new = UNION {Draws(b, served, k) : k \in served} /\ Serves(b, served)
    /\ Only(b) /\ SameCall(b) /\ conn'[b].pc = "fill"
    /\ conn'[b].xid = conn[b].xid /\ conn'[b].revs = conn[b].revs
    /\ conn'[b].rows = conn[b].rows \cup new /\ conn'[b].ctx = conn[b].ctx
    /\ conn'[b].batch = <<>> /\ conn'[b].fills = Answers(b, served, new)
    /\ conn'[b].orphans = conn[b].orphans
    /\ written' = written \cup new
    /\ UNCHANGED <<shard, dead, tables, startup, count, answers, reused, raced, uncomp>>

--------------------------------------------------------------------------------
(* A transaction that rolls back: what the actions that raise have in      *)
(* common.                                                                 *)

Gone(b) ==
    /\ RollbackTx(b)
    /\ dead' \subseteq dead \cup {b}
    /\ lease' = lease \/ lease = b
    /\ DOMAIN count' = DOMAIN count /\ count'.tx = count.tx
    /\ nextSlot' \in Nat
    /\ UNCHANGED <<txSeq, rows, revs, startup, answers, written, reused, raced>>

LEMMA IdleFacts ==
    /\ DOMAIN Idle = ConnFields /\ Idle.pc = "idle" /\ Idle.xid = 0 /\ Idle.rows = {}
    /\ Idle.revs = {} /\ Idle.batch = <<>> /\ Idle.fills = <<>> /\ Idle.todo = <<>>
    /\ Idle.pend = <<>> /\ Idle.orphans = {}
  BY DEF Idle, ConnFields

LEMMA EmptySeq == \A S : <<>> \in Seq(S)
  OBVIOUS

LEMMA EmptyIsSeq == IsSeq(<<>>)
  BY EmptySeq DEF IsSeq

LEMMA EmptyDomain == DOMAIN <<>> = {}
  OBVIOUS

LEMMA IdleSession ==
    ASSUME NEW b \in Backends, conn'[b] = Idle, Shape'
    PROVE  Session(b)'
  <1>1. conn'[b].xid \in 0..count'.tx
    BY IdleFacts DEF Shape
  <1>2. conn'[b].pc \notin Stages /\ conn'[b].pc \notin {"acquire", "push", "snap", "insert"}
    BY IdleFacts DEF Stages
  <1> QED BY <1>1, <1>2, EmptySeq, EmptyIsSeq, EmptyDomain, IdleFacts, Zenon DEF Session

LEMMA GoneConn ==
    ASSUME Shape, NEW b \in Backends, Gone(b)
    PROVE  /\ conn'[b] = Idle /\ \A c \in Backends \ {b} : conn'[c] = conn[c]
           /\ DOMAIN conn' = Backends /\ \A c \in Backends : DOMAIN conn'[c] = ConnFields
  <1>1. conn' = [conn EXCEPT ![b] = Idle] /\ DOMAIN Idle = ConnFields
    BY IdleFacts, Zenon DEF Gone, RollbackTx
  <1> QED BY <1>1 DEF Shape

LEMMA GoneRing ==
    ASSUME QueueAssumption, Shape, Sessions, NEW b \in Backends, Gone(b)
    PROVE  /\ ring' \in Seq(Entries) /\ Len(ring') <= RingCap
           /\ \A k \in DOMAIN ring' : \/ k \in DOMAIN ring /\ ring'[k] = ring[k]
                                      \/ ring'[k] = Compensation(conn[b].xid)
           /\ \A k \in DOMAIN ring : k \in DOMAIN ring' /\ ring'[k] = ring[k]
           /\ \A k \in 0..Len(ring) : Full \/ Behind(ring', k, conn[b].xid)
           /\ Full => conn[b].xid \in uncomp'
           /\ DOMAIN ring = 1..Len(ring) /\ Len(ring) \in Nat
  <1>1. CASE Full
    BY <1>1 DEF Shape, Gone, RollbackTx
  <1>2. CASE ~Full
    <2>1. conn[b].xid \in Nat /\ Len(ring) < RingCap /\ ring \in Seq(Entries)
      BY <1>2 DEF Shape, Sessions, Session, Full, QueueAssumption
    <2>2. ring' = Append(ring, Compensation(conn[b].xid)) /\ Compensation(conn[b].xid) \in Entries
      BY <1>2, <2>1, EntryTypes, Zenon DEF Gone, RollbackTx
    <2>3. /\ ring' \in Seq(Entries) /\ Len(ring') <= RingCap /\ Len(ring) \in Nat
          /\ DOMAIN ring = 1..Len(ring) /\ DOMAIN ring' = 1..Len(ring) + 1
          /\ \A k \in 1..Len(ring) : ring'[k] = ring[k]
          /\ ring'[Len(ring) + 1] = Compensation(conn[b].xid)
      BY <2>1, <2>2, RingAppend
    <2>4. ASSUME NEW k \in 0..Len(ring) PROVE Behind(ring', k, conn[b].xid)
      <3>1. Len(ring) + 1 \in DOMAIN ring' /\ Len(ring) + 1 > k
        BY <2>3
      <3> QED BY <2>3, <3>1, Zenon DEF Behind
    <2>5. /\ \A k \in DOMAIN ring' : k \in DOMAIN ring \/ k = Len(ring) + 1
          /\ \A k \in DOMAIN ring : k \in DOMAIN ring'
      BY <2>3
    <2> QED BY <1>2, <2>3, <2>4, <2>5
  <1> QED BY <1>1, <1>2

LEMMA GoneBase ==
    ASSUME QueueAssumption, Shape, Sessions, NEW b \in Backends, Gone(b)
    PROVE  Shape' /\ Sessions'
  <1>1. aborted' = aborted \cup {conn[b].xid} /\ conn[b].xid \in 0..count.tx
    BY Zenon DEF Gone, RollbackTx, Sessions, Session
  <1>2. Shape'
    BY <1>1, GoneConn, GoneRing, Zenon DEF Shape, Gone
  <1>3. \A k \in DOMAIN ring' : ring'[k].xid \in 0..count'.tx
    <2>1. Compensation(conn[b].xid).xid = conn[b].xid
      BY EntryTypes, Zenon
    <2> QED BY <1>1, <2>1, GoneRing, Zenon DEF Sessions, Gone
  <1>4. \A c \in Backends \ {b} : conn[c].pc \in Stages => lease' = c
    BY Zenon DEF Gone, Sessions, Session
  <1>5. conn'[b].xid = 0
    BY GoneConn, IdleFacts, Zenon
  <1>6. Session(b)'
    BY <1>2, GoneConn, IdleSession, Zenon
  <1>7. count.tx <= count'.tx /\ txSeq <= txSeq'
    BY DEF Shape, Gone
  <1> QED BY <1>1, <1>2, <1>3, <1>4, <1>5, <1>6, <1>7, GoneConn, SessionsStep, Zenon
             DEF Gone

--------------------------------------------------------------------------------
(* The actions that raise.                                                 *)

LEMMA InsertCases ==
    ASSUME Shape, NEW b \in Backends, Insert(b)
    PROVE  \/ Gone(b) /\ slot' = slot
           \/ \E served, new : Inserts(b, served, new)
  <1> DEFINE layers == IF Fresh(b) = {} THEN {}
                       ELSE {l \in Layers : Left(conn[b].view, l) > 0}
             New(served) == UNION {Draws(b, served, k) : k \in served}
  <1>1. PICK served \in SUBSET Fresh(b) :
          /\ Serves(b, served)
          /\ \/ Raise(b, FALSE) /\ UNCHANGED written
             \/ /\ conn' = [conn EXCEPT ![b].pc = "fill",
                              ![b].fills = Answers(b, served, New(served)),
                              ![b].rows = conn[b].rows \cup New(served),
                              ![b].locks = conn[b].locks \cup layers,
                              ![b].batch = <<>>, ![b].view = {}]
                /\ written' = written \cup New(served)
                /\ UNCHANGED <<ring, aborted, dead, uncomp>>
    BY ZenonT(30) DEF Insert
  <1>2. /\ conn[b].pc = "insert"
        /\ UNCHANGED <<slot, nextSlot, lease, txSeq, rows, revs, startup, count, answers,
                       reused, raced>>
    BY Zenon DEF Insert
  <1>3. CASE Raise(b, FALSE) /\ UNCHANGED written
    BY <1>2, <1>3, Zenon DEF Raise, Gone, Shape
  <1>4. CASE ~(Raise(b, FALSE) /\ UNCHANGED written)
    <2> DEFINE new == New(served)
               fills == Answers(b, served, new)
               locks == conn[b].locks \cup layers
    <2>1. /\ conn' = [conn EXCEPT ![b].pc = "fill", ![b].fills = fills,
                        ![b].rows = conn[b].rows \cup new, ![b].locks = locks,
                        ![b].batch = <<>>, ![b].view = {}]
          /\ written' = written \cup new /\ UNCHANGED <<ring, aborted, dead, uncomp>>
      BY <1>1, <1>4, Zenon
    <2>2. new = UNION {Draws(b, served, k) : k \in served} /\ Serves(b, served)
      BY <1>1, Zenon
    <2>3. fills = Answers(b, served, new)
      BY Zenon
    <2> HIDE DEF new, fills, locks
    <2>4. /\ Only(b) /\ SameCall(b) /\ conn'[b].pc = "fill"
          /\ conn'[b].xid = conn[b].xid /\ conn'[b].revs = conn[b].revs
          /\ conn'[b].rows = conn[b].rows \cup new /\ conn'[b].ctx = conn[b].ctx
          /\ conn'[b].batch = <<>> /\ conn'[b].fills = fills
          /\ conn'[b].orphans = conn[b].orphans
      BY <2>1, Fields DEF Shape, Only, SameCall
    <2>5. Inserts(b, served, new)
      BY <1>1, <1>2, <2>1, <2>2, <2>3, <2>4, Zenon DEF Inserts, shard, tables
    <2> QED BY <2>5, Zenon
  <1> QED BY <1>3, <1>4, Zenon

LEMMA RollbackGone ==
    ASSUME Shape, NEW b \in Backends, Rollback(b)
    PROVE  Gone(b) /\ slot' = slot
  BY Zenon DEF Rollback, Gone, Shape

LEMMA AcquireGone ==
    ASSUME QueueAssumption, NatsOrdered, Shape, NEW b \in Backends, Acquire(b), Found = {}, conn[b].single
    PROVE  Gone(b) /\ slot' = slot
  BY ProbeFacts, Zenon DEF Acquire, Gone, Shape

LEMMA PushTimeoutGone ==
    ASSUME Shape, NEW b \in Backends, PushTimeout(b)
    PROVE  Gone(b) /\ slot' = Abandon(Mine(b))
  BY Zenon DEF PushTimeout, Gone, Shape

LEMMA HarvestAbandonedGone ==
    ASSUME Shape, NEW b \in Backends, HarvestAbandoned(b)
    PROVE  Gone(b) /\ slot' = slot
  BY Zenon DEF HarvestAbandoned, Gone, Shape

LEMMA FillGone ==
    ASSUME Shape, NEW b \in Backends, Fill(b),
           slot[Head(conn[b].fills).slot].st \notin {"allocated", "abandoned"}
    PROVE  Gone(b) /\ slot' = Filled(Head(conn[b].fills).slot, Head(conn[b].fills).res)
  BY Zenon DEF Fill, Raise, Gone, Shape

LEMMA FaultyCount ==
    ASSUME Shape, Faulty
    PROVE  DOMAIN count' = DOMAIN count /\ count'.tx = count.tx
  BY DEF Shape, Faulty

LEMMA CancelGone ==
    ASSUME Shape, NEW b \in Backends, NEW die, Cancel(b, die)
    PROVE  Gone(b) /\ slot' = Abandon(Mine(b))
  BY FaultyCount, Zenon DEF Cancel, Raise, Gone, Shape

LEMMA FailGone ==
    ASSUME Shape, NEW b \in Backends, NEW die, Fail(b, die)
    PROVE  Gone(b) /\ slot' = slot
  BY FaultyCount, Zenon DEF Fail, Raise, Gone, Shape

LEMMA DisconnectGone ==
    ASSUME Shape, NEW b \in Backends, Disconnect(b), Open(b)
    PROVE  Gone(b) /\ slot' = slot
  BY FaultyCount, Zenon DEF Disconnect, Gone, Shape

--------------------------------------------------------------------------------
(* The shape of the state and the sessions, action by action.              *)

Base == Shape /\ Sessions

\* A step that changes only its session, the slots and perhaps the lease.
LEMMA QuietBase ==
    ASSUME Base, NEW b \in Backends, Only(b), nextSlot' \in Nat,
           UNCHANGED <<ring, txSeq, rows, aborted, dead, count, written>>,
           \A c \in Backends \ {b} : conn[c].pc \in Stages => lease' = c,
           conn'[b].xid = conn[b].xid, Shape' => Session(b)'
    PROVE  Base'
  <1>1. Shape'
    BY Zenon DEF Base, Shape, Only
  <1>2. count.tx <= count'.tx /\ txSeq <= txSeq'
    BY DEF Base, Shape
  <1> QED BY <1>1, <1>2, SessionsStep, Zenon DEF Base, Only, Sessions

LEMMA StagePcs ==
    /\ "wait" \notin Stages /\ "acquire" \notin Stages /\ "push" \notin Stages
    /\ "idle" \notin Stages
    /\ {"collect", "recover", "comp", "drain", "snap", "insert", "fill", "release"}
          \subseteq Stages
  BY DEF Stages

LEMMA CallTodo ==
    ASSUME NEW c \in Calls
    PROVE  c[2] \in Seq(Issues) /\ c[2] # <<>>
  <1>1. \/ \E i \in Issues : c = <<TRUE, <<i>>>>
        \/ \E t \in Issues \X Issues : c = <<FALSE, t>>
    BY Zenon DEF Calls
  <1>2. \A i \in Issues : <<i>> \in Seq(Issues) /\ <<i>> # <<>>
    OBVIOUS
  <1>3. \A t \in Issues \X Issues : t \in Seq(Issues) /\ t # <<>>
    <2>1. \A i, j \in Issues : <<i, j>> \in Seq(Issues) /\ <<i, j>> # <<>>
      OBVIOUS
    <2>2. \A t \in Issues \X Issues : \E i, j \in Issues : t = <<i, j>>
      OBVIOUS
    <2> QED BY <2>1, <2>2, Zenon
  <1>4. (\E i \in Issues : c[2] = <<i>>) \/ c[2] \in Issues \X Issues
    <2>1. \A x, y : <<x, y>>[2] = y
      OBVIOUS
    <2>2. ASSUME NEW i \in Issues, c = <<TRUE, <<i>>>> PROVE c[2] = <<i>>
      BY <2>1, <2>2, Zenon
    <2>3. ASSUME NEW t \in Issues \X Issues, c = <<FALSE, t>> PROVE c[2] = t
      BY <2>1, <2>3, Zenon
    <2> QED BY <1>1, <2>2, <2>3, Zenon
  <1> QED BY <1>2, <1>3, <1>4, Zenon

LEMMA CallBase ==
    ASSUME Base, NEW b \in Backends, NEW c \in Calls, Call(b, c)
    PROVE  Base'
  <1>1. /\ UNCHANGED <<shard, dead, tables, startup, history>> /\ b \in Live
        /\ conn[b].pc = "idle"
    BY Zenon DEF Call
  <1>2. /\ DOMAIN count' = DOMAIN count
        /\ count'.tx = (IF conn[b].xid # 0 THEN count.tx ELSE count.tx + 1)
        /\ count.tx \in Nat
    BY DEF Call, Open, Base, Shape
  <1>3. count'.tx \in Nat /\ count.tx <= count'.tx /\ 0..count.tx \subseteq 0..count'.tx
    BY <1>2
  <1>4. Shape'
    BY <1>1, <1>2, <1>3, CallConn, Zenon
       DEF Base, Shape, Only, shard, tables, history
  <1>5. Session(b)'
    <2>1. Session(b) /\ b \notin dead
      BY <1>1, Zenon DEF Base, Sessions, Live
    <2>2. conn'[b].xid \in 0..count'.tx /\ conn'[b].xid # 0
          /\ (conn'[b].xid = conn[b].xid \/ conn'[b].xid = count.tx + 1)
      BY <1>2, <2>1, CallConn DEF Session, Base
    <2>3. conn'[b].xid \notin aborted'
      <3>1. count.tx + 1 \notin aborted
        BY <1>2 DEF Base, Shape
      <3> QED BY <1>1, <2>1, <2>2, <3>1, Zenon DEF Session, tables
    <2>4. /\ conn'[b].pc = "acquire" /\ SameWork(b) /\ conn'[b].rows = conn[b].rows
          /\ conn'[b].todo \in Seq(Issues) /\ conn'[b].todo # <<>>
          /\ conn'[b].pend = conn[b].pend
      BY CallConn, CallTodo, Zenon DEF Base
    <2>5. conn[b].batch = <<>> /\ conn[b].fills = <<>>
      BY <1>1, <2>1 DEF Session
    <2> QED BY <1>1, <2>1, <2>2, <2>3, <2>4, <2>5, StagePcs, EmptyDomain
            DEF Session, SameWork, shard, tables, history
  <1>6. \A d \in Backends \ {b} : conn[d].pc \in Stages => lease' = d
    BY <1>1, Zenon DEF Base, Sessions, Session, shard
  <1>7. \A k \in DOMAIN ring' : ring'[k].xid \in 0..count'.tx
    BY <1>1, <1>3, Zenon DEF Base, Sessions, shard
  <1>8. txSeq <= txSeq' /\ conn'[b].xid \in {0, conn[b].xid, count.tx + 1}
    <2>1. txSeq <= txSeq'
      BY <1>1, NatRefl, Zenon DEF Base, Shape, shard
    <2>2. conn'[b].xid \in {conn[b].xid, count.tx + 1}
      BY CallConn, Zenon DEF Base
    <2> QED BY <2>1, <2>2, Zenon
  <1> QED BY <1>1, <1>3, <1>4, <1>5, <1>6, <1>7, <1>8, CallConn, SessionsStep, Zenon
             DEF Base, Only, shard, tables, history

LEMMA AcquireBase ==
    ASSUME QueueAssumption, NatsOrdered, Base, NEW b \in Backends, Acquire(b)
    PROVE  Base'
  <1>1. CASE Found = {} /\ conn[b].single
    BY <1>1, AcquireGone, GoneBase, Zenon DEF Base
  <1>2. CASE ~(Found = {} /\ conn[b].single)
    <2>1. /\ Only(b) /\ SameTx(b) /\ SameWork(b) /\ conn'[b].todo = conn[b].todo
          /\ conn'[b].pend = conn[b].pend /\ conn'[b].ctx = conn[b].ctx
          /\ \/ Found # {} /\ conn'[b].pc = "push"
             \/ Found = {} /\ conn'[b].pc = "wait"
      BY <1>2, AcquireConn, AcquireNoneConn, Zenon DEF Base, SameCall
    <2>2. /\ conn[b].pc = "acquire" \/ (conn[b].pc = "wait" /\ conn[b].todo # <<>>)
          /\ UNCHANGED <<ring, aborted, uncomp>>
          /\ UNCHANGED <<lease, txSeq, dead, rows, count, written>>
      BY <1>2, Zenon DEF Acquire
    <2>3. nextSlot' \in Nat
      BY <1>2, ProbeFacts, Zenon DEF Acquire, Base, Shape
    <2>4. Session(b)'
      <3>1. Session(b) /\ conn[b].pc \notin {"snap", "insert"} /\ conn[b].pc # "fill"
            /\ conn[b].todo # <<>> /\ conn[b].pc # "idle"
        BY <2>2, Zenon DEF Base, Sessions, Session
      <3>2. conn'[b].pc \notin Stages /\ conn'[b].pc \notin {"snap", "insert"}
            /\ conn'[b].pc # "fill"
        BY <2>1, StagePcs
      <3> QED BY <2>1, <2>2, <3>1, <3>2, Zenon DEF Session, SameTx, SameWork
    <2>5. \A c \in Backends \ {b} : conn[c].pc \in Stages => lease' = c
      BY <2>2, Zenon DEF Base, Sessions, Session
    <2> QED BY <2>1, <2>2, <2>3, <2>4, <2>5, QuietBase, Zenon DEF SameTx
  <1> QED BY <1>1, <1>2, Zenon

LEMMA TodoTail ==
    ASSUME NEW t \in Seq(Issues), t # <<>>
    PROVE  /\ Head(t) \in Issues /\ Tail(t) \in Seq(Issues)
           /\ Len(t) # 1 => Tail(t) # <<>>
  <1>1. Len(t) \in Nat \ {0} /\ Head(t) \in Issues /\ Tail(t) \in Seq(Issues)
    OBVIOUS
  <1>2. ASSUME Tail(t) = <<>> PROVE Len(t) = 1
    <2>1. Len(Tail(t)) = Len(t) - 1
      OBVIOUS
    <2>2. Len(<<>>) = 0
      OBVIOUS
    <2>3. Len(Tail(t)) = 0
      BY <1>2, <2>2, Zenon
    <2>4. \A n \in Nat : n - 1 = 0 => n = 1
      OBVIOUS
    <2> QED BY <1>1, <2>1, <2>3, <2>4, Zenon
  <1> QED BY <1>1, <1>2, Zenon

LEMMA PushBase ==
    ASSUME QueueAssumption, Base, Owners, NEW b \in Backends, Push(b)
    PROVE  Base'
  <1>1. /\ conn[b].pc = "push" /\ ~Full
        /\ ring' = Append(ring, Apply(conn[b].slot, Head(conn[b].todo), conn[b].xid))
        /\ UNCHANGED <<nextSlot, lease, txSeq, dead, tables, startup, count, history>>
    BY Zenon DEF Push
  <1>2. /\ Session(b) /\ conn[b].todo \in Seq(Issues) /\ conn[b].todo # <<>>
        /\ conn[b].xid \in 0..count.tx /\ conn[b].slot \in Slots /\ conn[b].xid # 0
    BY <1>1, Zenon DEF Base, Sessions, Session, Owners, OwnPush
  <1>3. /\ Head(conn[b].todo) \in Issues /\ Tail(conn[b].todo) \in Seq(Issues)
        /\ Len(conn[b].todo) # 1 => Tail(conn[b].todo) # <<>>
    BY <1>2, TodoTail, Zenon
  <1>4. Apply(conn[b].slot, Head(conn[b].todo), conn[b].xid) \in Entries
    <2>1. conn[b].xid \in Nat
      BY <1>2, RangeNat, Zenon DEF Base, Shape
    <2> QED BY <1>2, <1>3, <2>1, EntryTypes, Zenon
  <1>5. ring \in Seq(Entries) /\ Len(ring) < RingCap
    BY <1>1 DEF Full, Base, Shape, QueueAssumption
  <1>6. /\ ring' \in Seq(Entries) /\ Len(ring') <= RingCap
        /\ \A k \in DOMAIN ring' :
              \/ k \in DOMAIN ring /\ ring'[k] = ring[k]
              \/ ring'[k] = Apply(conn[b].slot, Head(conn[b].todo), conn[b].xid)
    BY <1>1, <1>4, <1>5, RingAppend
  <1>7. Shape'
    BY <1>1, <1>6, PushConn, Zenon DEF Base, Shape, Only, tables, history
  <1>8. \A k \in DOMAIN ring' : ring'[k].xid \in 0..count'.tx
    <2>1. Apply(conn[b].slot, Head(conn[b].todo), conn[b].xid).xid = conn[b].xid
      BY DEF Apply
    <2> QED BY <1>1, <1>2, <1>6, <2>1, Zenon DEF Base, Sessions
  <1>9. Session(b)'
    <2>1. /\ SameTx(b) /\ SameWork(b) /\ conn'[b].todo = Tail(conn[b].todo)
          /\ conn'[b].pc = (IF Len(conn[b].todo) = 1 THEN "wait" ELSE "acquire")
          /\ DOMAIN conn'[b].pend = DOMAIN conn[b].pend \cup {conn[b].slot}
      BY PushConn, Zenon DEF Base
    <2>2. /\ conn'[b].pc \notin Stages /\ conn'[b].pc \notin {"snap", "insert"}
          /\ conn'[b].pc # "fill" /\ conn'[b].pc # "push"
          /\ conn'[b].pc = "acquire" => Len(conn[b].todo) # 1
          /\ conn[b].pc \notin {"snap", "insert"} /\ conn[b].pc # "fill"
          /\ conn[b].pc # "idle"
      BY <1>1, <2>1, StagePcs, Zenon
    <2> QED BY <1>1, <1>2, <1>3, <2>1, <2>2, Zenon
            DEF Session, SameTx, SameWork, tables, history
  <1>10. txSeq <= txSeq' /\ count.tx <= count'.tx
    BY <1>1 DEF Base, Shape
  <1>11. \A c \in Backends \ {b} : conn[c].pc \in Stages => lease' = c
    BY <1>1, Zenon DEF Base, Sessions, Session
  <1> QED BY <1>1, <1>7, <1>8, <1>9, <1>10, <1>11, PushConn, SessionsStep, Zenon
             DEF Base, Only, SameTx, tables, history

LEMMA HarvestBase ==
    ASSUME Base, NEW b \in Backends, NEW s, Harvest(b, s)
    PROVE  Base'
  <1>1. /\ conn[b].pc = "wait"
        /\ UNCHANGED <<nextSlot, ring, lease, txSeq, dead, tables, startup, count, written>>
    BY Zenon DEF Harvest
  <1>2. /\ Only(b) /\ SameTx(b) /\ SameWork(b) /\ conn'[b].todo = conn[b].todo
        /\ conn'[b].pc = Resume(conn[b], DOMAIN conn[b].pend \ {s})
        /\ DOMAIN conn'[b].pend = DOMAIN conn[b].pend \ {s}
    BY HarvestConn, Zenon DEF Base
  <1>3. /\ conn'[b].pc \in {"acquire", "idle", "wait"}
        /\ conn'[b].pc = "acquire" => conn[b].todo # <<>>
    BY <1>2, Zenon DEF Resume
  <1>4. Session(b)'
    <2>1. Session(b) /\ conn[b].pc \notin {"snap", "insert"} /\ conn[b].pc # "fill"
          /\ conn[b].pc # "idle"
      BY <1>1 DEF Base, Sessions
    <2>2. /\ conn'[b].pc \notin Stages /\ conn'[b].pc \notin {"snap", "insert"}
          /\ conn'[b].pc # "fill" /\ conn'[b].pc # "push"
      BY <1>3, StagePcs
    <2> QED BY <1>1, <1>2, <1>3, <2>1, <2>2, Zenon DEF Session, SameTx, SameWork, tables
  <1>5. \A c \in Backends \ {b} : conn[c].pc \in Stages => lease' = c
    BY <1>1, Zenon DEF Base, Sessions, Session
  <1> QED BY <1>1, <1>2, <1>4, <1>5, QuietBase, Zenon DEF SameTx, tables, Base, Shape

LEMMA ElectBase ==
    ASSUME QueueAssumption, Base, NEW b \in Backends, Elect(b)
    PROVE  Base'
  <1>1. /\ conn[b].pc = "wait" /\ lease' = b /\ (lease = Nobody \/ lease \in dead)
        /\ UNCHANGED <<nextSlot, ring, txSeq, dead, tables, startup, count, history>>
    BY Zenon DEF Elect
  <1>2. /\ Only(b) /\ SameTx(b) /\ SameWork(b) /\ SameCall(b)
        /\ conn'[b].pc \in {"comp", "collect"}
    BY ElectConn, Zenon DEF Base
  <1>3. Session(b)'
    <2>1. Session(b) /\ conn[b].pc \notin {"snap", "insert"} /\ conn[b].pc # "fill"
          /\ conn[b].pc # "idle"
      BY <1>1 DEF Base, Sessions
    <2>2. /\ conn'[b].pc \notin {"snap", "insert"} /\ conn'[b].pc \notin {"acquire", "push"}
          /\ conn'[b].pc # "fill"
      BY <1>2
    <2> QED BY <1>1, <1>2, <2>1, <2>2, Zenon
            DEF Session, SameTx, SameWork, SameCall, tables, history
  <1>4. \A c \in Backends \ {b} : conn[c].pc \in Stages => lease' = c
    <2>1. ASSUME NEW c \in Backends, conn[c].pc \in Stages PROVE FALSE
      <3>1. lease = c /\ c # Nobody
        BY <2>1, Zenon DEF Base, Sessions, Session, QueueAssumption
      <3>2. conn[c].pc = "idle"
        BY <1>1, <3>1, Zenon DEF Base, Sessions, Session
      <3> QED BY <2>1, <3>2, StagePcs, Zenon
    <2> QED BY <2>1, Zenon
  <1> QED BY <1>1, <1>2, <1>3, <1>4, QuietBase, Zenon
             DEF SameTx, tables, history, Base, Shape

\* A step from one stage of the committer's work to another.
LEMMA StageSession ==
    ASSUME NEW b \in Backends, Session(b), conn[b].pc \in Stages, conn'[b].pc \in Stages,
           SameCall(b), conn'[b].xid = conn[b].xid, conn'[b].rows \subseteq written',
           UNCHANGED <<lease, aborted, dead, count>>,
           IsSeq(conn'[b].fills), IsSeq(conn'[b].batch),
           \A o \in conn'[b].orphans : o[1] \in Slots,
           conn'[b].pc \notin {"snap", "insert"} => conn'[b].batch = <<>>,
           conn'[b].pc \in {"snap", "insert"} => conn'[b].ctx \in 0..txSeq',
           conn'[b].pc # "fill" => conn'[b].fills = <<>>,
           \A k \in DOMAIN conn'[b].batch : /\ conn'[b].batch[k].slot \in Slots
                                            /\ conn'[b].batch[k].issue \in Issues
                                            /\ conn'[b].batch[k].xid \in 0..count.tx,
           \A k \in DOMAIN conn'[b].fills : conn'[b].fills[k].slot \in Slots
    PROVE  Session(b)'
  <1>1. conn[b].pc # "idle" /\ conn'[b].pc \notin {"acquire", "push"}
    BY StagePcs
  <1> QED BY <1>1, Zenon DEF Session, SameCall

\* Such a step leaves the transactions as they are.
LEMMA StageBase ==
    ASSUME Base, NEW b \in Backends, Only(b), conn'[b].xid = conn[b].xid,
           UNCHANGED <<nextSlot, rows, aborted, dead, count>>,
           written \subseteq written',
           \A r \in written' : r.ctx \in Nat /\ r.xid \in 0..count.tx,
           ring' \in Seq(Entries), Len(ring') <= RingCap,
           \A k \in DOMAIN ring' : ring'[k].xid \in 0..count.tx,
           txSeq' \in Nat, txSeq <= txSeq',
           \A c \in Backends \ {b} : conn[c].pc \in Stages => lease' = c, Session(b)'
    PROVE  Base'
  <1>1. Shape'
    BY Zenon DEF Base, Shape, Only
  <1>2. count.tx <= count'.tx
    BY DEF Base, Shape
  <1> QED BY <1>1, <1>2, SessionsStep, Zenon DEF Base, Only, Sessions

\* What a stage has by its invariant.
LEMMA StageFacts ==
    ASSUME Base, NEW b \in Backends, conn[b].pc \in Stages
    PROVE  /\ Session(b) /\ lease = b /\ conn[b].rows \subseteq written
           /\ IsSeq(conn[b].fills) /\ IsSeq(conn[b].batch)
           /\ \A o \in conn[b].orphans : o[1] \in Slots
           /\ conn[b].xid # 0 /\ conn[b].xid \in 0..count.tx /\ conn[b].xid \notin aborted
           /\ \A c \in Backends \ {b} : conn[c].pc \notin Stages
  <1>1. conn[b].pc # "idle"
    BY StagePcs, Zenon
  <1> QED BY <1>1, Alone, Zenon DEF Base, Sessions, Session

LEMMA CollectBase ==
    ASSUME QueueAssumption, Base, NEW b \in Backends, Collect(b)
    PROVE  Base'
  <1>1. /\ conn[b].pc = "collect"
        /\ UNCHANGED <<slot, nextSlot, ring, lease, dead, tables, startup, count, history>>
    BY Zenon DEF Collect
  <1>2. txSeq' \in Nat /\ txSeq <= txSeq'
    <2>1. txSeq' = txSeq \/ txSeq' = txSeq + 1
      BY Zenon DEF Collect
    <2> QED BY <2>1 DEF Base, Shape
  <1>3. /\ Only(b) /\ SameTx(b) /\ SameCall(b) /\ conn'[b].pc \in {"comp", "recover"}
        /\ conn'[b].batch = conn[b].batch /\ conn'[b].fills = conn[b].fills
        /\ \A o \in conn'[b].orphans : o[1] \in Slots
    <2>1. \A x, y : <<x, y>>[1] = x
      OBVIOUS
    <2>2. conn'[b].orphans = {<<s, slot[s].issue>> :
             s \in {t \in Slots : slot[t].st = "allocated" /\ slot[t].issue # 0}}
      BY CollectConn, Zenon DEF Base
    <2>3. \A o \in conn'[b].orphans : o[1] \in Slots
      BY <2>1, <2>2
    <2> QED BY <2>3, CollectConn, Zenon DEF Base
  <1>4. /\ conn[b].pc \in Stages /\ conn'[b].pc \in Stages
        /\ conn[b].pc \notin {"snap", "insert"} /\ conn[b].pc # "fill"
        /\ conn'[b].pc \notin {"snap", "insert"}
    BY <1>1, <1>3, StagePcs
  <1>5. conn[b].batch = <<>> /\ conn[b].fills = <<>>
    BY <1>4, StageFacts, Zenon DEF Session
  <1>6. Session(b)'
    BY <1>1, <1>3, <1>4, <1>5, StageFacts, StageSession, EmptyDomain, Zenon
       DEF SameTx, tables, history
  <1> QED BY <1>1, <1>2, <1>3, <1>4, <1>6, StageFacts, StageBase, Zenon
             DEF SameTx, tables, history, Base, Shape, Sessions

LEMMA ReconcileBase ==
    ASSUME QueueAssumption, Base, NEW b \in Backends, NEW o, Reconcile(b, o)
    PROVE  Base'
  <1>1. /\ conn[b].pc = "recover"
        /\ UNCHANGED <<nextSlot, ring, lease, txSeq, dead, tables, startup, count, history>>
    BY Zenon DEF Reconcile
  <1>2. txSeq' \in Nat /\ txSeq <= txSeq'
    BY <1>1 DEF Base, Shape
  <1>3. /\ Only(b) /\ SameTx(b) /\ SameCall(b) /\ conn'[b].pc \in {"comp", "recover"}
        /\ conn'[b].batch = conn[b].batch /\ conn'[b].fills = conn[b].fills
        /\ conn'[b].orphans \subseteq conn[b].orphans
    BY ReconcileConn, Zenon DEF Base
  <1>4. /\ conn[b].pc \in Stages /\ conn'[b].pc \in Stages
        /\ conn[b].pc \notin {"snap", "insert"} /\ conn[b].pc # "fill"
        /\ conn'[b].pc \notin {"snap", "insert"}
    BY <1>1, <1>3, StagePcs
  <1>5. conn[b].batch = <<>> /\ conn[b].fills = <<>>
    BY <1>4, StageFacts, Zenon DEF Session
  <1>6. Session(b)'
    BY <1>1, <1>3, <1>4, <1>5, StageFacts, StageSession, EmptyDomain, Zenon
       DEF SameTx, tables, history
  <1> QED BY <1>1, <1>2, <1>3, <1>4, <1>6, StageFacts, StageBase, Zenon
             DEF SameTx, tables, history, Base, Shape, Sessions

\* The entries of one kind at the head leave the ring, the others move up.
Drained(kind) ==
    LET n == Prefix(kind)
    IN  /\ ring' \in Seq(Entries) /\ Len(ring') <= RingCap
        /\ n \in 0..Len(ring) /\ Len(ring) \in Nat
        /\ DOMAIN ring = 1..Len(ring) /\ DOMAIN ring' = 1..Len(ring) - n
        /\ \A k \in DOMAIN ring' : k + n \in DOMAIN ring /\ ring'[k] = ring[k + n]
        /\ \A k \in 1..n : k \in DOMAIN ring /\ ring[k].kind = kind
        /\ \A k \in DOMAIN ring :
              k \in 1..n \/ (k - n \in DOMAIN ring' /\ ring'[k - n] = ring[k])

LEMMA DrainRing ==
    ASSUME QueueAssumption, NatsOrdered, Base, NEW kind,
           ring' = SubSeq(ring, Prefix(kind) + 1, Len(ring))
    PROVE  Drained(kind)
  <1>1. /\ Prefix(kind) \in 0..Len(ring) /\ ring \in Seq(Entries) /\ Len(ring) <= RingCap
        /\ \A k \in 1..Prefix(kind) : ring[k].kind = kind
    BY PrefixFacts, Zenon DEF Base, Shape
  <1>2. /\ ring' \in Seq(Entries) /\ Len(ring') <= RingCap
        /\ Len(ring) \in Nat /\ DOMAIN ring = 1..Len(ring)
        /\ DOMAIN ring' = 1..Len(ring) - Prefix(kind)
        /\ \A k \in 1..Len(ring) - Prefix(kind) : ring'[k] = ring[k + Prefix(kind)]
    BY <1>1, RingDrain, Zenon
  <1> DEFINE n == Prefix(kind)
             L == Len(ring)
  <1> HIDE DEF n, L
  <1>3. n \in 0..L /\ L \in Nat
    BY <1>1, <1>2, Zenon DEF n, L
  <1>4. /\ \A k \in 1..L - n : k + n \in 1..L
        /\ \A k \in 1..L : k \in 1..n \/ (k - n \in 1..L - n /\ k - n + n = k)
    BY <1>3
  <1>5. \A k \in 1..n : k \in 1..L
    BY <1>3
  <1> QED BY <1>1, <1>2, <1>3, <1>4, <1>5, Zenon DEF n, L, Drained

LEMMA CompensateBase ==
    ASSUME QueueAssumption, NatsOrdered, Base, NEW b \in Backends, Compensate(b)
    PROVE  Base'
  <1>1. /\ conn[b].pc = "comp" /\ txSeq' = txSeq + 1
        /\ ring' = SubSeq(ring, Prefix("compensate") + 1, Len(ring))
        /\ UNCHANGED <<slot, nextSlot, lease, dead, tables, startup, count, written>>
    BY Zenon DEF Compensate
  <1>2. txSeq' \in Nat /\ txSeq <= txSeq'
    BY <1>1 DEF Base, Shape
  <1>3. /\ Only(b) /\ SameWork(b) /\ SameCall(b) /\ conn'[b].pc = "drain"
        /\ conn'[b].xid = conn[b].xid /\ conn'[b].rows = conn[b].rows
    BY CompensateConn, Zenon DEF Base
  <1>4. /\ conn[b].pc \in Stages /\ conn'[b].pc \in Stages
        /\ conn[b].pc \notin {"snap", "insert"} /\ conn[b].pc # "fill"
        /\ conn'[b].pc \notin {"snap", "insert"}
    BY <1>1, <1>3, StagePcs
  <1>5. conn[b].batch = <<>> /\ conn[b].fills = <<>>
    BY <1>4, StageFacts, Zenon DEF Session
  <1>6. Session(b)'
    BY <1>1, <1>3, <1>4, <1>5, StageFacts, StageSession, EmptyDomain, Zenon
       DEF SameWork, tables, history
  <1>7. /\ ring' \in Seq(Entries) /\ Len(ring') <= RingCap
        /\ \A k \in DOMAIN ring' : \E j \in DOMAIN ring : ring'[k] = ring[j]
    <2>1. Drained("compensate")
      BY <1>1, DrainRing, Zenon
    <2> QED BY <2>1, Zenon DEF Drained
  <1>8. \A k \in DOMAIN ring' : ring'[k].xid \in 0..count.tx
    BY <1>7, Zenon DEF Base, Sessions
  <1>9. \A r \in written' : r.ctx \in Nat /\ r.xid \in 0..count.tx
    BY <1>1, Zenon DEF Base, Shape
  <1> QED BY <1>1, <1>2, <1>3, <1>4, <1>6, <1>7, <1>8, <1>9, StageFacts, StageBase, Zenon
             DEF tables

LEMMA DrainBase ==
    ASSUME QueueAssumption, NatsOrdered, Base, NEW b \in Backends, Drain(b)
    PROVE  Base'
  <1>1. /\ conn[b].pc \in {"drain", "comp"} /\ txSeq' = (IF Prefix("apply") = 0 THEN txSeq ELSE txSeq + 1)
        /\ ring' = SubSeq(ring, Prefix("apply") + 1, Len(ring))
        /\ UNCHANGED <<slot, nextSlot, lease, dead, tables, startup, count, written>>
    BY Zenon DEF Drain
  <1>2. txSeq' \in Nat /\ txSeq <= txSeq' /\ (Prefix("apply") # 0 => txSeq + 1 \in 0..txSeq')
    BY <1>1 DEF Base, Shape
  <1>3. /\ Only(b) /\ SameTx(b) /\ SameCall(b)
        /\ conn'[b].pc = (IF Prefix("apply") = 0 THEN "release" ELSE "snap")
        /\ conn'[b].fills = conn[b].fills /\ conn'[b].orphans = conn[b].orphans
        /\ conn'[b].ctx = txSeq + 1
    BY DrainConn, Zenon DEF Base
  <1>4. /\ conn[b].pc \in Stages /\ conn'[b].pc \in Stages
        /\ conn[b].pc # "fill" /\ conn'[b].pc # "fill"
        /\ Prefix("apply") = 0 <=> conn'[b].pc \notin {"snap", "insert"}
    BY <1>1, <1>3, StagePcs
  <1>5. conn[b].fills = <<>>
    BY <1>4, StageFacts, Zenon DEF Session
  <1>6. /\ ring' \in Seq(Entries) /\ Len(ring') <= RingCap
        /\ Prefix("apply") \in 0..Len(ring) /\ Len(ring) \in Nat
        /\ \A k \in DOMAIN ring' : \E j \in DOMAIN ring : ring'[k] = ring[j]
        /\ \A k \in 1..Prefix("apply") : k \in DOMAIN ring /\ ring[k].kind = "apply"
    <2>1. Drained("apply")
      BY <1>1, DrainRing, Zenon
    <2> QED BY <2>1, Zenon DEF Drained
  <1>7. \A k \in DOMAIN ring' : ring'[k].xid \in 0..count.tx
    BY <1>6, Zenon DEF Base, Sessions
  <1>8. \A r \in written' : r.ctx \in Nat /\ r.xid \in 0..count.tx
    BY <1>1, Zenon DEF Base, Shape
  <1> DEFINE n == Prefix("apply")
             B == [k \in 1..n |-> [slot |-> ring[k].slot, issue |-> ring[k].issue,
                                   xid |-> ring[k].xid, old |-> Prior(b, ring[k].issue)]]
  <1>9. conn'[b].batch = B
    BY DrainConn, Zenon DEF Base
  <1>10. \A k \in DOMAIN conn'[b].batch : /\ conn'[b].batch[k].slot \in Slots
                                          /\ conn'[b].batch[k].issue \in Issues
                                          /\ conn'[b].batch[k].xid \in 0..count.tx
    <2>1. ASSUME NEW k \in 1..n
          PROVE  ring[k].slot \in Slots /\ ring[k].issue \in Issues /\ ring[k].xid \in 0..count.tx
      <3>1. k \in DOMAIN ring /\ ring[k].kind = "apply" /\ ring \in Seq(Entries)
        BY <1>6, Zenon DEF Base, Shape
      <3>2. ring[k] \in Entries
        BY <3>1, SeqAt, Zenon
      <3> QED BY <3>1, <3>2, EntryTypes, Zenon DEF Base, Sessions
    <2>2. \A k \in 1..n : B[k].slot = ring[k].slot /\ B[k].issue = ring[k].issue /\ B[k].xid = ring[k].xid
      OBVIOUS
    <2>3. DOMAIN B = 1..n
      OBVIOUS
    <2> HIDE DEF B, n
    <2> QED BY <1>9, <2>1, <2>2, <2>3, Zenon
  <1>11. IsSeq(conn'[b].batch) /\ (n = 0 => conn'[b].batch = <<>>)
    <2>1. DOMAIN B = 1..n /\ n \in Nat
      BY <1>6
    <2>2. B = [k \in 1..n |-> B[k]]
      OBVIOUS
    <2> HIDE DEF B, n
    <2>3. B \in Seq({B[k] : k \in DOMAIN B})
      BY <2>1, <2>2
    <2>4. ASSUME n = 0 PROVE B = <<>>
      BY <2>1, <2>2, <2>4
    <2> QED BY <1>9, <2>3, <2>4, Zenon DEF IsSeq
  <1> HIDE DEF B
  <1>12. Session(b)'
    BY <1>1, <1>2, <1>3, <1>4, <1>5, <1>10, <1>11, StageFacts, StageSession, EmptyDomain, EmptyIsSeq, Zenon
       DEF SameTx, tables
  <1> QED BY <1>1, <1>2, <1>3, <1>4, <1>6, <1>7, <1>8, <1>12, StageFacts, StageBase, Zenon
             DEF tables, SameTx

LEMMA SnapshotBase ==
    ASSUME Base, NEW b \in Backends, Snapshot(b)
    PROVE  Base'
  <1>1. /\ conn[b].pc = "snap"
        /\ UNCHANGED <<shard, dead, tables, startup, count, history>>
    BY Zenon DEF Snapshot
  <1>2. Only(b) /\ SameTx(b) /\ SameWork(b) /\ SameCall(b) /\ conn'[b].pc = "insert"
        /\ conn'[b].ctx = conn[b].ctx
    BY SnapshotConn, Zenon DEF Base
  <1>3. conn[b].pc \in Stages /\ conn'[b].pc \in Stages /\ conn[b].pc # "fill"
        /\ conn'[b].pc # "fill" /\ conn[b].pc \in {"snap", "insert"}
        /\ conn'[b].pc \in {"snap", "insert"}
    BY <1>1, <1>2, StagePcs
  <1>4. Session(b)'
    BY <1>1, <1>2, <1>3, StageFacts, StageSession, Zenon
       DEF SameTx, SameWork, tables, history, shard, Session
  <1>5. \A c \in Backends \ {b} : conn[c].pc \in Stages => lease' = c
    BY <1>1, Zenon DEF Base, Sessions, Session, shard
  <1> QED BY <1>1, <1>2, <1>4, <1>5, QuietBase, Zenon
             DEF SameTx, tables, history, shard, Base, Shape

LEMMA ReleaseBase ==
    ASSUME Base, NEW b \in Backends, Release(b)
    PROVE  Base'
  <1>1. /\ conn[b].pc = "release"
        /\ UNCHANGED <<slot, nextSlot, ring, txSeq, dead, tables, startup, count, history>>
    BY Zenon DEF Release
  <1>2. /\ Only(b) /\ SameTx(b) /\ SameWork(b) /\ SameCall(b)
        /\ conn'[b].pc = (IF conn[b].todo # <<>> THEN "acquire" ELSE "wait")
    BY ReleaseConn, Zenon DEF Base
  <1>3. /\ conn[b].pc \in Stages /\ conn[b].pc # "fill" /\ conn[b].pc \notin {"snap", "insert"}
        /\ conn[b].pc # "idle"
        /\ conn'[b].pc \notin Stages /\ conn'[b].pc # "fill" /\ conn'[b].pc \notin {"snap", "insert"}
        /\ conn'[b].pc # "push" /\ (conn'[b].pc = "acquire" => conn[b].todo # <<>>)
    BY <1>1, <1>2, StagePcs
  <1>4. Session(b)'
    BY <1>1, <1>2, <1>3, StageFacts, Zenon
       DEF SameTx, SameWork, SameCall, tables, history, Session
  <1>5. \A c \in Backends \ {b} : conn[c].pc \in Stages => lease' = c
    BY <1>3, StageFacts, Zenon
  <1> QED BY <1>1, <1>2, <1>4, <1>5, QuietBase, Zenon
             DEF SameTx, tables, history, Base, Shape

LEMMA IsSeqFacts ==
    ASSUME NEW f, IsSeq(f)
    PROVE  Len(f) \in Nat /\ DOMAIN f = 1..Len(f)
  BY DEF IsSeq

LEMMA SeqTail ==
    ASSUME NEW f, IsSeq(f), f # <<>>
    PROVE  /\ 1 \in DOMAIN f /\ Head(f) = f[1] /\ IsSeq(Tail(f))
           /\ Len(f) = 1 => Tail(f) = <<>>
           /\ \A k \in DOMAIN Tail(f) : k + 1 \in DOMAIN f /\ Tail(f)[k] = f[k + 1]
  <1> DEFINE S == {f[k] : k \in DOMAIN f}
             T == {Tail(f)[k] : k \in DOMAIN Tail(f)}
  <1>1. f \in Seq(S)
    BY Zenon DEF IsSeq
  <1> HIDE DEF S
  <1>2. /\ Len(f) \in Nat \ {0} /\ DOMAIN f = 1..Len(f) /\ Head(f) = f[1]
    BY <1>1
  <1>3. /\ Tail(f) \in Seq(S) /\ Len(Tail(f)) = Len(f) - 1
        /\ DOMAIN Tail(f) = 1..Len(f) - 1
        /\ \A k \in 1..Len(f) - 1 : Tail(f)[k] = f[k + 1]
    BY <1>1
  <1>4. Tail(f) = [k \in 1..Len(f) - 1 |-> Tail(f)[k]]
    <2>1. \A t \in Seq(S) : t = [k \in DOMAIN t |-> t[k]]
      OBVIOUS
    <2> QED BY <1>3, <2>1, Zenon
  <1> DEFINE t == Tail(f)
  <1>5. t = [k \in 1..Len(f) - 1 |-> t[k]]
    BY <1>4, Zenon
  <1>6. DOMAIN t = 1..Len(f) - 1
    BY <1>3, Zenon
  <1>7. Len(f) - 1 \in Nat
    BY <1>2
  <1> HIDE DEF t
  <1>8. t \in Seq({t[k] : k \in DOMAIN t})
    BY <1>5, <1>6, <1>7
  <1>9. ASSUME Len(f) = 1 PROVE t = <<>>
    BY <1>5, <1>9
  <1>10. 1 \in DOMAIN f /\ \A k \in 1..Len(f) - 1 : k + 1 \in DOMAIN f
    BY <1>2
  <1> QED BY <1>2, <1>3, <1>8, <1>9, <1>10, Zenon DEF t, IsSeq

LEMMA AnswersFacts ==
    ASSUME NEW b, NEW served, NEW new, IsSeq(conn[b].batch)
    PROVE  /\ IsSeq(Answers(b, served, new))
           /\ DOMAIN Answers(b, served, new) = DOMAIN conn[b].batch
           /\ \A k \in DOMAIN conn[b].batch :
                 Answers(b, served, new)[k].slot = conn[b].batch[k].slot
  <1> DEFINE A == Answers(b, served, new)
             D == DOMAIN conn[b].batch
  <1>1. \E res : A = [k \in D |-> [slot |-> conn[b].batch[k].slot, res |-> res[k]]]
    <2> DEFINE hits(k) == {j \in D : /\ conn[b].batch[j].slot = conn[b].batch[k].slot
                                     /\ conn[b].batch[j].old # {}}
               R == [k \in D |->
                     IF hits(k) # {}
                     THEN [total |-> Total(conn[b].batch[Max(hits(k))].old),
                           ctx |-> conn[b].ctx, err |-> FALSE]
                     ELSE [total |-> Total({r \in new : r.nth = k}), ctx |-> conn[b].ctx,
                           err |-> k \notin served]]
    <2>1. \A k \in D : R[k] = IF hits(k) # {}
                     THEN [total |-> Total(conn[b].batch[Max(hits(k))].old),
                           ctx |-> conn[b].ctx, err |-> FALSE]
                     ELSE [total |-> Total({r \in new : r.nth = k}), ctx |-> conn[b].ctx,
                           err |-> k \notin served]
      BY Zenon
    <2> HIDE DEF R
    <2>2. A = [k \in D |-> [slot |-> conn[b].batch[k].slot, res |-> R[k]]]
      BY <2>1, Zenon DEF Answers
    <2> QED BY <2>2, Zenon
  <1>2. PICK res : A = [k \in D |-> [slot |-> conn[b].batch[k].slot, res |-> res[k]]]
    BY <1>1, Zenon
  <1>3. DOMAIN A = D /\ \A k \in D : A[k].slot = conn[b].batch[k].slot
    <2> HIDE DEF A, D
    <2> QED BY <1>2
  <1>4. D = 1..Len(conn[b].batch) /\ Len(conn[b].batch) \in Nat
    BY IsSeqFacts, Zenon
  <1>5. A = [k \in D |-> A[k]]
    <2> HIDE DEF A, D
    <2> QED BY <1>2
  <1> HIDE DEF A, D
  <1>6. A \in Seq({A[k] : k \in DOMAIN A})
    BY <1>3, <1>4, <1>5
  <1> QED BY <1>3, <1>6, Zenon DEF A, D, IsSeq

\* A row that the plan adds is for a request of the batch that is costed afresh.
NewRow(b, served, r) ==
    \E k \in served : /\ k \in DOMAIN conn[b].batch /\ conn[b].batch[k].old = {}
                      /\ r.issue = conn[b].batch[k].issue
                      /\ r.xid = conn[b].batch[k].xid
                      /\ r.ctx = conn[b].ctx /\ r.nth = k

LEMMA NewFacts ==
    ASSUME NEW b, NEW served, NEW new, Inserts(b, served, new), NEW r \in new
    PROVE  NewRow(b, served, r)
  <1>1. PICK k \in served : r \in Draws(b, served, k)
    BY Zenon DEF Inserts
  <1>2. k \in DOMAIN conn[b].batch /\ conn[b].batch[k].old = {}
    BY Zenon DEF Fresh, Inserts
  <1>3. /\ r.issue = conn[b].batch[k].issue /\ r.xid = conn[b].batch[k].xid
        /\ r.ctx = conn[b].ctx /\ r.nth = k
    BY <1>1, DrawsFacts
  <1> QED BY <1>2, <1>3, Zenon DEF NewRow

LEMMA InsertsBase ==
    ASSUME QueueAssumption, Base, NEW b \in Backends, NEW served, NEW new,
           Inserts(b, served, new)
    PROVE  Base'
  <1>1. /\ conn[b].pc = "insert" /\ Only(b) /\ SameCall(b) /\ conn'[b].pc = "fill"
        /\ conn'[b].xid = conn[b].xid /\ conn'[b].rows = conn[b].rows \cup new
        /\ conn'[b].batch = <<>> /\ conn'[b].fills = Answers(b, served, new)
        /\ conn'[b].orphans = conn[b].orphans /\ written' = written \cup new
        /\ UNCHANGED <<shard, dead, tables, startup, count>>
    BY Zenon DEF Inserts
  <1>2. /\ conn[b].pc \in Stages /\ conn'[b].pc \in Stages /\ conn[b].pc \in {"snap", "insert"}
        /\ conn'[b].pc \notin {"snap", "insert"}
    BY <1>1, StagePcs, Zenon
  <1>3. conn[b].ctx \in Nat
    <2>1. Session(b) /\ txSeq \in Nat
      BY <1>2, StageFacts, Zenon DEF Base, Shape
    <2>2. conn[b].ctx \in 0..txSeq
      BY <1>2, <2>1, Zenon DEF Session
    <2> QED BY <2>1, <2>2, RangeNat, Zenon
  <1>4. \A r \in new : r.ctx \in Nat /\ r.xid \in 0..count.tx
    <2>1. Session(b)
      BY <1>2, StageFacts, Zenon
    <2>2. ASSUME NEW r \in new PROVE r.ctx \in Nat /\ r.xid \in 0..count.tx
      <3>1. NewRow(b, served, r)
        BY NewFacts, Zenon
      <3>2. PICK k \in DOMAIN conn[b].batch : r.ctx = conn[b].ctx /\ r.xid = conn[b].batch[k].xid
        BY <3>1, Zenon DEF NewRow
      <3> QED BY <1>3, <2>1, <3>2, Zenon DEF Session
    <2> QED BY <2>2, Zenon
  <1>5. \A r \in written' : r.ctx \in Nat /\ r.xid \in 0..count.tx
    BY <1>1, <1>4, Zenon DEF Base, Shape
  <1>6. /\ IsSeq(conn'[b].fills)
        /\ \A k \in DOMAIN conn'[b].fills : conn'[b].fills[k].slot \in Slots
    <2>1. Session(b) /\ IsSeq(conn[b].batch)
      BY <1>2, StageFacts, Zenon
    <2>2. /\ IsSeq(conn'[b].fills) /\ DOMAIN conn'[b].fills = DOMAIN conn[b].batch
          /\ \A k \in DOMAIN conn[b].batch : conn'[b].fills[k].slot = conn[b].batch[k].slot
      <3> DEFINE A == Answers(b, served, new)
      <3>1. conn'[b].fills = A
        BY <1>1, Zenon
      <3>2. /\ IsSeq(A) /\ DOMAIN A = DOMAIN conn[b].batch
            /\ \A k \in DOMAIN conn[b].batch : A[k].slot = conn[b].batch[k].slot
        BY <2>1, AnswersFacts
      <3> HIDE DEF A
      <3> QED BY <3>1, <3>2, Zenon
    <2> QED BY <2>1, <2>2, Zenon DEF Session
  <1>7. Session(b)'
    BY <1>1, <1>2, <1>6, StageFacts, StageSession, EmptyDomain, EmptyIsSeq, Zenon
       DEF tables, shard
  <1>8. txSeq' \in Nat /\ txSeq <= txSeq'
    BY <1>1, NatRefl, Zenon DEF Base, Shape, shard
  <1>9. /\ ring' \in Seq(Entries) /\ Len(ring') <= RingCap
        /\ \A k \in DOMAIN ring' : ring'[k].xid \in 0..count.tx
    BY <1>1, Zenon DEF Base, Shape, Sessions, shard
  <1> QED BY <1>1, <1>2, <1>5, <1>7, <1>8, <1>9, StageFacts, StageBase, Zenon
             DEF tables, shard

LEMMA FillBase ==
    ASSUME QueueAssumption, Base, NEW b \in Backends, Fill(b)
    PROVE  Base'
  <1>1. CASE slot[Head(conn[b].fills).slot].st \notin {"allocated", "abandoned"}
    BY <1>1, FillGone, GoneBase, Zenon DEF Base
  <1>2. CASE slot[Head(conn[b].fills).slot].st \in {"allocated", "abandoned"}
    <2>1. /\ conn[b].pc = "fill" /\ conn[b].fills # <<>>
          /\ UNCHANGED <<ring, aborted, dead, uncomp>>
          /\ UNCHANGED <<nextSlot, lease, txSeq, rows, revs, startup, count, written>>
      BY <1>2, Zenon DEF Fill
    <2>2. /\ Only(b) /\ SameTx(b) /\ SameCall(b) /\ conn'[b].orphans = conn[b].orphans
          /\ conn'[b].fills = Tail(conn[b].fills) /\ conn'[b].batch = conn[b].batch
          /\ conn'[b].pc = (IF Len(conn[b].fills) = 1 THEN "release" ELSE conn[b].pc)
      BY <1>2, FillConn, Zenon DEF Base
    <2>3. /\ conn[b].pc \in Stages /\ conn[b].pc \notin {"snap", "insert"}
          /\ conn'[b].pc \in Stages /\ conn'[b].pc \notin {"snap", "insert"}
          /\ conn'[b].pc # "fill" => Len(conn[b].fills) = 1
      BY <2>1, <2>2, StagePcs, Zenon
    <2>4. /\ IsSeq(conn'[b].fills)
          /\ \A k \in DOMAIN conn'[b].fills : conn'[b].fills[k].slot \in Slots
          /\ Len(conn[b].fills) = 1 => conn'[b].fills = <<>>
      <3>1. Session(b) /\ IsSeq(conn[b].fills)
        BY <2>3, StageFacts, Zenon
      <3>2. /\ IsSeq(conn'[b].fills) /\ (Len(conn[b].fills) = 1 => conn'[b].fills = <<>>)
            /\ \A k \in DOMAIN conn'[b].fills :
                  k + 1 \in DOMAIN conn[b].fills /\ conn'[b].fills[k] = conn[b].fills[k + 1]
        <4>1. conn[b].fills # <<>> /\ conn'[b].fills = Tail(conn[b].fills)
          BY <2>1, <2>2, Zenon
        <4> QED BY <3>1, <4>1, SeqTail
      <3> QED BY <3>1, <3>2, Zenon DEF Session
    <2>5. conn[b].batch = <<>>
      BY <2>3, StageFacts, Zenon DEF Session
    <2>6. Session(b)'
      BY <2>1, <2>2, <2>3, <2>4, <2>5, StageFacts, StageSession, EmptyDomain, EmptyIsSeq, Zenon
         DEF SameTx
    <2>7. \A c \in Backends \ {b} : conn[c].pc \in Stages => lease' = c
      BY <2>3, StageFacts, Zenon
    <2> QED BY <2>1, <2>2, <2>6, <2>7, QuietBase, Zenon DEF SameTx, Base, Shape
  <1> QED BY <1>1, <1>2, Zenon

LEMMA CommitBase ==
    ASSUME QueueAssumption, Base, NEW b \in Backends, Commit(b)
    PROVE  Base'
  <1>1. /\ rows' = rows \cup conn[b].rows
        /\ UNCHANGED <<shard, dead, aborted, startup, count, history>>
    BY Zenon DEF Commit
  <1>2. Only(b) /\ conn'[b] = Idle
    BY CommitConn, Zenon DEF Base
  <1>3. Shape'
    BY <1>1, <1>2, Zenon DEF Base, Shape, Only, Sessions, Session, shard, history
  <1>4. Session(b)'
    BY <1>2, <1>3, IdleSession, Zenon
  <1>5. \A c \in Backends \ {b} : conn[c].pc \in Stages => lease' = c
    BY <1>1, Zenon DEF Base, Sessions, Session, shard
  <1>6. count.tx <= count'.tx /\ txSeq <= txSeq'
    BY <1>1, NatRefl, Zenon DEF Base, Shape, shard
  <1>7. conn'[b].xid = 0
    BY <1>2, IdleFacts, Zenon
  <1> QED BY <1>1, <1>2, <1>3, <1>4, <1>5, <1>6, <1>7, SessionsStep, Zenon
             DEF Base, Only, Sessions, shard, history

\* A session that ends with no transaction open.
LEMMA DisconnectIdle ==
    ASSUME Shape, NEW b \in Backends, Disconnect(b), ~Open(b)
    PROVE  /\ conn[b].pc = "idle" /\ conn[b].xid = 0 /\ dead' = dead \cup {b}
           /\ DOMAIN count' = DOMAIN count /\ count'.tx = count.tx
           /\ UNCHANGED <<conn, shard, tables, startup, history>>
  <1>1. DOMAIN count' = DOMAIN count /\ count'.tx = count.tx
    BY FaultyCount, Zenon DEF Disconnect
  <1> QED BY <1>1, Zenon DEF Disconnect, Open, shard, tables, history

LEMMA DisconnectBase ==
    ASSUME QueueAssumption, Base, NEW b \in Backends, Disconnect(b)
    PROVE  Base'
  <1>1. CASE Open(b)
    BY <1>1, DisconnectGone, GoneBase, Zenon DEF Base
  <1>2. CASE ~Open(b)
    <2>1. /\ conn[b].pc = "idle" /\ conn[b].xid = 0 /\ dead' = dead \cup {b}
          /\ DOMAIN count' = DOMAIN count /\ count'.tx = count.tx
          /\ UNCHANGED <<conn, shard, tables, startup, history>>
      BY <1>2, DisconnectIdle, Zenon DEF Base
    <2>2. Shape'
      BY <2>1, Zenon DEF Base, Shape, shard, tables, history
    <2>3. Session(b)'
      BY <2>1, Zenon DEF Base, Sessions, Session, shard, tables, history
    <2>4. count.tx <= count'.tx /\ txSeq <= txSeq'
      BY <2>1, NatRefl, Zenon DEF Base, Shape, shard
    <2> QED BY <2>1, <2>2, <2>3, <2>4, SessionsStep, Zenon
            DEF Base, Sessions, Session, shard, tables, history
  <1> QED BY <1>1, <1>2, Zenon

\* A step that changes no session.
LEMMA ServerBase ==
    ASSUME Base, conn' = conn, UNCHANGED <<nextSlot, lease, dead, tables, count, written>>,
           ring' \in Seq(Entries), Len(ring') <= RingCap,
           \A k \in DOMAIN ring' : ring'[k].xid \in 0..count.tx,
           txSeq' \in Nat, txSeq <= txSeq'
    PROVE  Base'
  <1>1. Shape'
    BY Zenon DEF Base, Shape, tables
  <1>2. count.tx <= count'.tx
    BY DEF Base, Shape
  <1>3. ASSUME NEW c \in Backends PROVE Session(c)'
    <2>1. Session(c)
      BY Zenon DEF Base, Sessions
    <2> QED BY <1>1, <1>2, <2>1, SessionKeeps, Zenon DEF Base, Session, tables
  <1> QED BY <1>1, <1>3, Zenon DEF Base, Sessions

LEMMA AuditBase ==
    ASSUME Base, NEW s \in Slots, Audit(s)
    PROVE  Base'
  <1>1. txSeq' \in Nat /\ txSeq <= txSeq'
    BY DEF Base, Shape, Audit
  <1> QED BY <1>1, ServerBase, Zenon DEF Audit, Base, Shape, Sessions

LEMMA SeedBase ==
    ASSUME Base, Seed
    PROVE  Base'
  <1>1. txSeq' \in Nat /\ txSeq <= txSeq'
    BY DEF Base, Shape, Seed
  <1> QED BY <1>1, ServerBase, Zenon DEF Seed, Base, Shape, Sessions, history

LEMMA MinTwo ==
    ASSUME NEW m \in Nat, NEW n \in Nat
    PROVE  Min({m, n}) \in Nat /\ Min({m, n}) <= m /\ Min({m, n}) <= n
  <1>1. \E x \in {m, n} : \A y \in {m, n} : x <= y
    <2>1. m <= n \/ n <= m
      OBVIOUS
    <2>2. m <= m /\ n <= n
      OBVIOUS
    <2> QED BY <2>1, <2>2, Zenon
  <1>2. Min({m, n}) \in {m, n} /\ \A y \in {m, n} : Min({m, n}) <= y
    BY <1>1, Zenon DEF Min
  <1> QED BY <1>2, Zenon

\* The transactions that the startup scan looks for.
Missed == {x \in aborted : /\ \E r \in rows : r.xid = x
                           /\ \A v \in revs : v.row.xid # x}

\* What the scan does to the ring: compensations are added, of every missed
\* transaction that it does not give up.
Scanned ==
    /\ ring' \in Seq(Entries) /\ Len(ring') <= RingCap
    /\ \A k \in DOMAIN ring : k \in DOMAIN ring' /\ ring'[k] = ring[k]
    /\ \A k \in DOMAIN ring' :
          \/ k \in DOMAIN ring
          \/ ring'[k].kind = "compensate" /\ ring'[k].xid \in aborted
    /\ \A x \in uncomp \ uncomp' : \A k \in DOMAIN ring \cup {0} : Behind(ring', k, x)
    /\ \A x \in Missed : x \in uncomp' \/ Behind(ring', 0, x)

LEMMA ScanRing ==
    ASSUME QueueAssumption, Base, Scan
    PROVE  Scanned
  <1>1. PICK some \in Orders(Missed) :
          LET room == Min({Len(some), RingCap - Len(ring)})
          IN  /\ ring' = ring \o [k \in 1..room |-> Compensation(some[k])]
              /\ uncomp' = (uncomp \ {some[k] : k \in 1..room})
                           \cup {some[k] : k \in room + 1..Len(some)}
    BY Zenon DEF Scan, Missed
  <1> DEFINE room == Min({Len(some), RingCap - Len(ring)})
             L == Len(ring)
             N == Len(some)
             added == [k \in 1..room |-> Compensation(some[k])]
  <1>2. PICK n \in 0..count.tx : some \in [1..n -> Missed]
    <2>1. some \in UNION {[1..n -> Missed] : n \in 0..count.tx}
      BY Zenon DEF Orders
    <2> QED BY <2>1
  <1>3. N = n /\ N \in Nat
    BY <1>2 DEF Base, Shape
  <1>4. /\ L \in Nat /\ L <= RingCap /\ RingCap - L \in Nat /\ RingCap \in Nat
        /\ DOMAIN ring = 1..L /\ ring \in Seq(Entries)
    BY DEF Base, Shape, QueueAssumption
  <1>5. room \in Nat /\ room <= N /\ room <= RingCap - L
    BY <1>3, <1>4, MinTwo, Zenon
  <1>6. ring' = ring \o added /\ uncomp' = (uncomp \ {some[k] : k \in 1..room})
                                    \cup {some[k] : k \in room + 1..N}
    BY <1>1, Zenon
  <1>7. \A x \in Missed : \E k \in 1..N : some[k] = x
    BY <1>2, <1>3, Zenon DEF Orders
  <1>8. \A k \in 1..N : some[k] \in Missed
    BY <1>2, <1>3, Zenon
  <1>9. Missed \subseteq Nat /\ Missed \subseteq aborted
    BY DEF Missed, Base, Shape
  <1> HIDE DEF room, L, N
  <1>10. \A k \in 1..room : some[k] \in Nat /\ some[k] \in aborted
    <2>1. \A k \in 1..room : k \in 1..N
      BY <1>3, <1>5
    <2> QED BY <1>8, <1>9, <2>1, Zenon
  <1>11. /\ \A k \in 1..room : added[k] = Compensation(some[k])
         /\ DOMAIN added = 1..room
    BY Zenon
  <1>12. added \in Seq(Entries) /\ Len(added) = room
    <2>1. \A k \in 1..room : added[k] \in Entries
      BY <1>10, <1>11, EntryTypes, Zenon
    <2> QED BY <1>5, <2>1
  <1> HIDE DEF added
  <1>13. /\ ring' \in Seq(Entries) /\ DOMAIN ring' = 1..L + room /\ Len(ring') = L + room
         /\ \A k \in 1..L : ring'[k] = ring[k]
         /\ \A k \in 1..room : ring'[L + k] = added[k]
    <2>1. ring \in Seq(Entries) /\ added \in Seq(Entries)
      BY <1>4, <1>12, Zenon
    <2>2. /\ ring \o added \in Seq(Entries) /\ Len(ring \o added) = Len(ring) + Len(added)
          /\ DOMAIN (ring \o added) = 1..Len(ring) + Len(added)
          /\ \A k \in 1..Len(ring) : (ring \o added)[k] = ring[k]
          /\ \A k \in 1..Len(added) : (ring \o added)[Len(ring) + k] = added[k]
      BY <2>1
    <2> QED BY <1>6, <1>12, <2>2, Zenon DEF L
  <1>14. \A k \in DOMAIN ring : k \in DOMAIN ring' /\ ring'[k] = ring[k]
    <2>1. 1..L \subseteq 1..L + room
      BY <1>4, <1>5
    <2> QED BY <1>4, <1>13, <2>1, Zenon
  <1>15. \A k \in 1..room : \A j \in DOMAIN ring \cup {0} : L + k \in DOMAIN ring' /\ L + k > j
    BY <1>4, <1>5, <1>13
  <1>16. ASSUME NEW k \in 1..room, NEW x, x = some[k], NEW j \in DOMAIN ring \cup {0}
         PROVE  Behind(ring', j, x)
    <2>1. ring'[L + k] = Compensation(x) /\ L + k \in DOMAIN ring' /\ L + k > j
      BY <1>11, <1>13, <1>15, <1>16, Zenon
    <2> QED BY <2>1, Zenon DEF Behind
  <1>17. \A k \in DOMAIN ring' : k \in DOMAIN ring \/ \E j \in 1..room : k = L + j
    <2>1. \A k \in 1..L + room : k \in 1..L \/ (k - L \in 1..room /\ k = L + (k - L))
      BY <1>4, <1>5
    <2> QED BY <1>4, <1>13, <2>1, Zenon
  <1>18. \A x \in Missed : x \in uncomp' \/ Behind(ring', 0, x)
    <2>1. ASSUME NEW k \in 1..N PROVE k \in 1..room \/ k \in room + 1..N
      BY <1>3, <1>5
    <2> QED BY <1>6, <1>7, <1>16, <2>1, Zenon
  <1>19. \A x \in uncomp \ uncomp' : \E k \in 1..room : x = some[k]
    BY <1>6, Zenon
  <1>20. Len(ring') <= RingCap
    BY <1>4, <1>5, <1>13
  <1>21. \A k \in DOMAIN ring' :
          \/ k \in DOMAIN ring
          \/ ring'[k].kind = "compensate" /\ ring'[k].xid \in aborted
    <2>1. ASSUME NEW j \in 1..room
          PROVE  ring'[L + j].kind = "compensate" /\ ring'[L + j].xid \in aborted
      <3>1. ring'[L + j] = Compensation(some[j])
        BY <1>11, <1>13, Zenon
      <3>2. \A x : Compensation(x).kind = "compensate" /\ Compensation(x).xid = x
        BY EntryTypes, Zenon
      <3> QED BY <1>10, <3>1, <3>2, Zenon
    <2> QED BY <1>17, <2>1, Zenon
  <1>22. \A x \in uncomp \ uncomp' : \A k \in DOMAIN ring \cup {0} : Behind(ring', k, x)
    BY <1>16, <1>19, Zenon
  <1> QED BY <1>13, <1>14, <1>18, <1>20, <1>21, <1>22, Zenon DEF Scanned

LEMMA ScanBase ==
    ASSUME QueueAssumption, Base, Scan
    PROVE  Base'
  <1>1. txSeq' \in Nat /\ txSeq <= txSeq'
    BY DEF Base, Shape, Scan
  <1>2. Scanned
    BY ScanRing, Zenon
  <1>3. \A k \in DOMAIN ring' : ring'[k].xid \in 0..count.tx
    BY <1>2, Zenon DEF Scanned, Base, Shape, Sessions
  <1>4. UNCHANGED <<slot, nextSlot, lease, txSeq, conn, dead, tables, count, written>>
    BY Zenon DEF Scan
  <1> QED BY <1>1, <1>2, <1>3, <1>4, ServerBase, Zenon DEF Scanned

LEMMA RestartBase ==
    ASSUME QueueAssumption, Base, Restart
    PROVE  Base'
  <1>1. /\ conn' = [b \in Backends |-> Idle] /\ dead' = {} /\ ring' = <<>>
        /\ nextSlot' = 0 /\ txSeq' = 0 /\ UNCHANGED <<tables, answers, written, raced>>
    BY Zenon DEF Restart
  <1>2. DOMAIN count' = DOMAIN count /\ count'.tx = count.tx
    BY DEF Restart, Base, Shape
  <1>3. DOMAIN conn' = Backends /\ \A b \in Backends : conn'[b] = Idle
    BY <1>1, Zenon
  <1>4. ring' \in Seq(Entries) /\ Len(ring') <= RingCap /\ DOMAIN ring' = {}
        /\ nextSlot' \in Nat /\ txSeq' \in Nat
    BY <1>1 DEF QueueAssumption
  <1>5. Shape'
    BY <1>1, <1>2, <1>3, <1>4, IdleFacts, Zenon DEF Base, Shape, tables
  <1> QED BY <1>3, <1>4, <1>5, IdleSession, IdleFacts, Zenon DEF Base, Sessions

LEMMA BaseStep ==
    ASSUME QueueAssumption, NatsOrdered, Base, Owners, [Next]_vars
    PROVE  Base'
  <1>1. CASE UNCHANGED vars
    <2>1. UNCHANGED <<conn, nextSlot, lease, dead, tables, count, written, ring, txSeq>>
      BY <1>1, Zenon DEF vars, shard, history
    <2>2. txSeq' \in Nat /\ txSeq <= txSeq'
      BY <2>1 DEF Base, Shape
    <2> QED BY <2>1, <2>2, ServerBase, Zenon DEF Base, Shape, Sessions
  <1>2. ASSUME NEW b \in Backends,
               (\E c \in Calls : Call(b, c)) \/ Caller(b) PROVE Base'
    <2>1. CASE \E c \in Calls : Call(b, c)
      BY <2>1, CallBase, Zenon
    <2>2. CASE Acquire(b)
      BY <2>2, AcquireBase, Zenon
    <2>3. CASE Push(b)
      BY <2>3, PushBase, Zenon
    <2>4. CASE PushTimeout(b) \/ HarvestAbandoned(b)
      BY <2>4, PushTimeoutGone, HarvestAbandonedGone, GoneBase, Zenon DEF Base
    <2>5. CASE \E s \in Slots : Harvest(b, s)
      BY <2>5, HarvestBase, Zenon
    <2> QED BY <1>2, <2>1, <2>2, <2>3, <2>4, <2>5, Zenon DEF Caller
  <1>3. ASSUME NEW b \in Backends, Committer(b) PROVE Base'
    <2>1. CASE Elect(b) \/ Collect(b)
      BY <2>1, ElectBase, CollectBase, Zenon
    <2>2. CASE \E o \in conn[b].orphans : Reconcile(b, o)
      BY <2>2, ReconcileBase, Zenon
    <2>3. CASE Compensate(b) \/ Drain(b)
      BY <2>3, CompensateBase, DrainBase, Zenon
    <2>4. CASE Snapshot(b) \/ Fill(b) \/ Release(b)
      BY <2>4, SnapshotBase, FillBase, ReleaseBase, Zenon
    <2>5. CASE Insert(b)
      BY <2>5, InsertCases, InsertsBase, GoneBase, Zenon DEF Base
    <2> QED BY <1>3, <2>1, <2>2, <2>3, <2>4, <2>5, Zenon DEF Committer
  <1>4. ASSUME NEW b \in Backends, Commit(b) \/ Rollback(b) \/ Disconnect(b) PROVE Base'
    BY <1>4, CommitBase, RollbackGone, GoneBase, DisconnectBase, Zenon DEF Base
  <1>5. ASSUME NEW b \in Backends, NEW die \in BOOLEAN, Cancel(b, die) \/ Fail(b, die)
        PROVE  Base'
    BY <1>5, CancelGone, FailGone, GoneBase, Zenon DEF Base
  <1>6. CASE (\E s \in Slots : Audit(s)) \/ Restart \/ Seed \/ Scan
    BY <1>6, AuditBase, RestartBase, SeedBase, ScanBase, Zenon
  <1> QED BY <1>1, <1>2, <1>3, <1>4, <1>5, <1>6, Zenon DEF Next

--------------------------------------------------------------------------------
(* Steps that leave alone what the transactions wrote and what is queued.  *)

Quiet ==
    /\ UNCHANGED <<ring, rows, revs, aborted, written, raced, uncomp>>
    /\ startup = "done" <=> startup' = "done"
    /\ txSeq <= txSeq'
    /\ \A c \in Backends : /\ conn'[c].rows = conn[c].rows /\ conn'[c].revs = conn[c].revs
                           /\ conn'[c].batch = conn[c].batch
                           /\ conn'[c].ctx = conn[c].ctx \/ conn[c].batch = <<>>
                           /\ \/ conn'[c].xid = conn[c].xid
                              \/ \A r \in written : r.xid # conn'[c].xid

LEMMA StepQuiet ==
    ASSUME Base, NEW b \in Backends,
           UNCHANGED <<ring, tables, startup, written, raced, uncomp>>, txSeq <= txSeq',
           Only(b), SameTx(b), conn'[b].batch = conn[b].batch,
           conn'[b].ctx = conn[b].ctx \/ conn[b].batch = <<>>
    PROVE  Quiet
  BY Zenon DEF Quiet, Only, SameTx, tables

LEMMA SameQuiet ==
    ASSUME Base, conn' = conn, UNCHANGED <<ring, txSeq, tables, startup, written, raced, uncomp>>
    PROVE  Quiet
  <1>1. txSeq <= txSeq'
    BY DEF Base, Shape
  <1> QED BY <1>1, Zenon DEF Quiet, tables

\* A session between the stages of a batch holds none.
LEMMA NoBatch ==
    ASSUME Base, NEW b \in Backends, conn[b].pc \notin {"snap", "insert"}
    PROVE  conn[b].batch = <<>>
  BY Zenon DEF Base, Sessions, Session

\* While one session holds a batch, no other does.
LEMMA OneBatch ==
    ASSUME Base, NEW b \in Backends, conn[b].pc \in Stages
    PROVE  \A c \in Backends \ {b} : conn[c].batch = <<>>
  <1>1. \A c \in Backends \ {b} : conn[c].pc \notin {"snap", "insert"}
    BY StageFacts, StagePcs, Zenon
  <1> QED BY <1>1, NoBatch, Zenon

LEMMA CallerQuiet ==
    ASSUME Base, NEW b \in Backends,
           \/ Acquire(b) /\ ~(Found = {} /\ conn[b].single)
           \/ \E s \in Slots : Harvest(b, s)
    PROVE  Quiet
  <1>1. txSeq' = txSeq => txSeq <= txSeq'
    BY DEF Base, Shape
  <1>2. CASE Acquire(b) /\ ~(Found = {} /\ conn[b].single)
    <2>1. /\ Only(b) /\ SameTx(b) /\ conn'[b].batch = conn[b].batch
          /\ conn'[b].ctx = conn[b].ctx
      BY <1>2, AcquireConn, AcquireNoneConn, Zenon DEF Base, SameWork
    <2>2. UNCHANGED <<ring, txSeq, tables, startup, written, raced, uncomp>>
      BY <1>2, Zenon DEF Acquire, tables
    <2> QED BY <1>1, <2>1, <2>2, StepQuiet, Zenon
  <1>3. ASSUME NEW s \in Slots, Harvest(b, s) PROVE Quiet
    <2>1. /\ Only(b) /\ SameTx(b) /\ conn'[b].batch = conn[b].batch
          /\ conn'[b].ctx = conn[b].ctx
      BY <1>3, HarvestConn, Zenon DEF Base, SameWork
    <2>2. UNCHANGED <<ring, txSeq, tables, startup, written, raced, uncomp>>
      BY <1>3, Zenon DEF Harvest
    <2> QED BY <1>1, <2>1, <2>2, StepQuiet, Zenon
  <1> QED BY <1>2, <1>3, Zenon

LEMMA CommitterQuiet ==
    ASSUME Base, NEW b \in Backends,
           \/ Elect(b) \/ Collect(b) \/ \E o \in conn[b].orphans : Reconcile(b, o)
           \/ Snapshot(b) \/ Release(b)
           \/ Fill(b) /\ slot[Head(conn[b].fills).slot].st \in {"allocated", "abandoned"}
    PROVE  Quiet
  <1>1. txSeq' = txSeq \/ txSeq' = txSeq + 1 => txSeq <= txSeq'
    BY DEF Base, Shape
  <1>2. CASE Elect(b)
    <2>1. UNCHANGED <<ring, txSeq, tables, startup, written, raced, uncomp>>
      BY <1>2, Zenon DEF Elect, history
    <2> QED BY <1>1, <1>2, <2>1, ElectConn, StepQuiet, Zenon DEF Base, SameWork
  <1>3. CASE Collect(b)
    <2>1. /\ UNCHANGED <<ring, tables, startup, written, raced, uncomp>>
          /\ txSeq' = txSeq \/ txSeq' = txSeq + 1
      BY <1>3, Zenon DEF Collect, history
    <2>2. conn[b].pc \notin {"snap", "insert"}
      BY <1>3, Zenon DEF Collect
    <2> QED BY <1>1, <1>3, <2>1, <2>2, CollectConn, NoBatch, StepQuiet, Zenon DEF Base
  <1>4. ASSUME NEW o, Reconcile(b, o) PROVE Quiet
    <2>1. UNCHANGED <<ring, txSeq, tables, startup, written, raced, uncomp>>
      BY <1>4, Zenon DEF Reconcile, history
    <2> QED BY <1>1, <1>4, <2>1, ReconcileConn, StepQuiet, Zenon DEF Base
  <1>5. CASE Snapshot(b)
    <2>1. UNCHANGED <<ring, txSeq, tables, startup, written, raced, uncomp>>
      BY <1>5, Zenon DEF Snapshot, history, shard
    <2> QED BY <1>1, <1>5, <2>1, SnapshotConn, StepQuiet, Zenon DEF Base, SameWork
  <1>6. CASE Release(b)
    <2>1. UNCHANGED <<ring, txSeq, tables, startup, written, raced, uncomp>>
      BY <1>6, Zenon DEF Release, history
    <2>2. conn[b].pc \notin {"snap", "insert"}
      BY <1>6 DEF Release
    <2> QED BY <1>1, <1>6, <2>1, <2>2, ReleaseConn, NoBatch, StepQuiet, Zenon
            DEF Base, SameWork
  <1>7. CASE Fill(b) /\ slot[Head(conn[b].fills).slot].st \in {"allocated", "abandoned"}
    <2>1. UNCHANGED <<ring, txSeq, tables, startup, written, raced, uncomp>>
      BY <1>7, Zenon DEF Fill, tables
    <2> QED BY <1>1, <1>7, <2>1, FillConn, StepQuiet, Zenon DEF Base
  <1> QED BY <1>2, <1>3, <1>4, <1>5, <1>6, <1>7, Zenon

LEMMA CallQuiet ==
    ASSUME Base, NEW b \in Backends, NEW c \in Calls, Call(b, c)
    PROVE  Quiet
  <1>1. UNCHANGED <<ring, txSeq, rows, revs, aborted, startup, written, raced, uncomp>>
    BY Zenon DEF Call, shard, tables, history
  <1>2. /\ Only(b) /\ conn'[b].rows = conn[b].rows /\ conn'[b].revs = conn[b].revs
        /\ conn'[b].batch = conn[b].batch /\ conn'[b].ctx = conn[b].ctx
        /\ conn'[b].xid = conn[b].xid \/ conn'[b].xid = count.tx + 1
    BY CallConn, Zenon DEF Base, SameWork
  <1>3. txSeq <= txSeq' /\ \A r \in written : r.xid # count.tx + 1
    BY <1>1 DEF Base, Shape
  <1> QED BY <1>1, <1>2, <1>3, Zenon DEF Quiet, Only

LEMMA SeedQuiet ==
    ASSUME Base, Seed
    PROVE  Quiet
  <1>1. txSeq <= txSeq' /\ startup # "done" /\ startup' # "done"
    BY DEF Seed, Base, Shape
  <1> QED BY <1>1, Zenon DEF Quiet, Seed, tables, history

\* The kinds of steps there are, for what the transactions wrote and for what
\* is queued.
Kind ==
    \/ Quiet
    \/ \E b \in Backends : \/ Push(b) \/ Gone(b) \/ Commit(b) \/ Compensate(b) \/ Drain(b)
                           \/ \E served, new : Inserts(b, served, new)
    \/ Restart \/ Scan

LEMMA StepKind ==
    ASSUME QueueAssumption, NatsOrdered, Base, [Next]_vars
    PROVE  Kind
  <1>1. CASE UNCHANGED vars
    BY <1>1, SameQuiet, Zenon DEF vars, shard, tables, history, Kind
  <1>2. ASSUME NEW b \in Backends, (\E c \in Calls : Call(b, c)) \/ Caller(b) PROVE Kind
    <2>1. (\E c \in Calls : Call(b, c)) \/ Push(b) \/ (\E s \in Slots : Harvest(b, s)) => Kind
      BY CallQuiet, CallerQuiet, Zenon DEF Kind
    <2>2. Acquire(b) \/ PushTimeout(b) \/ HarvestAbandoned(b) => Kind
      BY CallerQuiet, AcquireGone, PushTimeoutGone, HarvestAbandonedGone, Zenon
         DEF Kind, Base
    <2> QED BY <1>2, <2>1, <2>2, Zenon DEF Caller
  <1>3. ASSUME NEW b \in Backends, Committer(b) PROVE Kind
    <2>1. Compensate(b) \/ Drain(b) \/ Insert(b) => Kind
      BY InsertCases, Zenon DEF Kind, Base
    <2>2. Fill(b) => Kind
      BY FillGone, CommitterQuiet, Zenon DEF Kind, Base
    <2> QED BY <1>3, <2>1, <2>2, CommitterQuiet, Zenon DEF Kind, Committer
  <1>4. ASSUME NEW b \in Backends, Commit(b) \/ Rollback(b) \/ Disconnect(b) PROVE Kind
    <2>1. Disconnect(b) => Kind
      BY DisconnectGone, DisconnectIdle, SameQuiet, Zenon
         DEF Kind, Base, shard, tables, history
    <2> QED BY <1>4, <2>1, RollbackGone, Zenon DEF Kind, Base
  <1>5. ASSUME NEW b \in Backends, NEW die \in BOOLEAN, Cancel(b, die) \/ Fail(b, die)
        PROVE  Kind
    BY <1>5, CancelGone, FailGone, Zenon DEF Kind, Base
  <1>6. ASSUME NEW s \in Slots, Audit(s) PROVE Kind
    BY <1>6, SameQuiet, Zenon DEF Kind, Audit
  <1> QED BY <1>1, <1>2, <1>3, <1>4, <1>5, <1>6, SeedQuiet, Zenon DEF Next, Kind

\* What a push adds to the ring.
LEMMA PushRing ==
    ASSUME QueueAssumption, Base, NEW b \in Backends, Push(b)
    PROVE  /\ \A k \in DOMAIN ring' :
                 \/ k \in DOMAIN ring /\ ring'[k] = ring[k]
                 \/ ring'[k] = Apply(conn[b].slot, Head(conn[b].todo), conn[b].xid)
           /\ \A k \in DOMAIN ring : k \in DOMAIN ring' /\ ring'[k] = ring[k]
  <1>1. ring \in Seq(Entries)
    BY Zenon DEF Base, Shape
  <1> DEFINE e == Apply(conn[b].slot, Head(conn[b].todo), conn[b].xid)
  <1>2. ring' = Append(ring, e)
    BY Zenon DEF Push
  <1> HIDE DEF e
  <1>3. /\ \A k \in DOMAIN ring' : (k \in DOMAIN ring /\ ring'[k] = ring[k]) \/ ring'[k] = e
        /\ \A k \in DOMAIN ring : k \in DOMAIN ring' /\ ring'[k] = ring[k]
    BY <1>1, <1>2
  <1> QED BY <1>3, Zenon DEF e

LEMMA SameRows ==
    ASSUME \A c \in Backends : conn'[c].rows = conn[c].rows
    PROVE  Uncommitted' = Uncommitted
  BY DEF Uncommitted

LEMMA SameRevs ==
    ASSUME \A c \in Backends : conn'[c].revs = conn[c].revs
    PROVE  OpenRevs' = OpenRevs
  BY DEF OpenRevs

--------------------------------------------------------------------------------
(* An issue is costed once.                                                *)

\* A step that adds no row and no batch.
LEMMA OnceKept ==
    ASSUME Once, rows' \subseteq rows \cup Uncommitted,
           \A c \in Backends : conn'[c].rows \subseteq rows \cup Uncommitted,
           raced' = raced,
           \A c \in Backends : conn'[c].batch = conn[c].batch \/ DOMAIN conn'[c].batch = {}
    PROVE  Once'
  <1>1. rows' \cup Uncommitted' \subseteq rows \cup Uncommitted
    BY Zenon DEF Uncommitted
  <1>2. OncePerIssue'
    BY <1>1, Zenon DEF Once, OncePerIssue
  <1>3. ASSUME NEW c \in Backends, NEW k \in DOMAIN conn'[c].batch PROVE Sole(c, k)'
    <2>1. conn'[c].batch = conn[c].batch /\ Sole(c, k)
      BY Zenon DEF Once
    <2> QED BY <1>1, <2>1, Zenon DEF Sole, OfIssue
  <1> QED BY <1>2, <1>3, Zenon DEF Once

LEMMA DrainOnce ==
    ASSUME QueueAssumption, Base, Once, NEW b \in Backends, Drain(b)
    PROVE  Once'
  <1> DEFINE n == Prefix("apply")
             q(k) == [slot |-> ring[k].slot, issue |-> ring[k].issue, xid |-> ring[k].xid,
                      old |-> Prior(b, ring[k].issue)]
             batch == [k \in 1..n |-> q(k)]
  <1>1. /\ Only(b) /\ SameTx(b) /\ conn'[b].batch = batch /\ rows' = rows
        /\ conn[b].pc \in Stages
    BY DrainConn, StagePcs, Zenon DEF Base, Drain, tables
  <1>2. raced' = raced \cup
            {batch[k].issue : k \in {k \in 1..n : batch[k].old = {} /\
                (\/ OfIssue(Uncommitted, batch[k].issue) # {}
                 \/ \E j \in 1..n \ {k} : batch[j].issue = batch[k].issue)}}
    BY Zenon DEF Drain
  <1>3. \A k \in 1..n : batch[k].issue = ring[k].issue /\ batch[k].old = Prior(b, ring[k].issue)
    OBVIOUS
  <1>4. DOMAIN batch = 1..n
    OBVIOUS
  <1> HIDE DEF n, q, batch
  <1>5. Uncommitted' = Uncommitted
    <2>1. \A c \in Backends : conn'[c].rows = conn[c].rows
      BY <1>1, Zenon DEF Only, SameTx
    <2> QED BY <2>1, SameRows, Zenon
  <1>6. OncePerIssue'
    BY <1>1, <1>2, <1>5, Zenon DEF Once, OncePerIssue
  <1>7. ASSUME NEW k \in 1..n, batch[k].old = {}, batch[k].issue \notin raced'
        PROVE  /\ OfIssue(rows \cup Uncommitted, batch[k].issue) = {}
               /\ \A j \in 1..n \ {k} : batch[j].issue # batch[k].issue
    <2>1. /\ OfIssue(Uncommitted, batch[k].issue) = {}
          /\ \A j \in 1..n \ {k} : batch[j].issue # batch[k].issue
      BY <1>2, <1>7, Zenon
    <2>2. OfIssue(rows, batch[k].issue) = {}
      BY <1>3, <1>7, Zenon DEF Prior, Visible, OfIssue
    <2> QED BY <2>1, <2>2, Zenon DEF OfIssue
  <1>8. ASSUME NEW c \in Backends, NEW k \in DOMAIN conn'[c].batch PROVE Sole(c, k)'
    <2>1. c = b
      BY <1>1, OneBatch, EmptyDomain, Zenon DEF Only
    <2> QED BY <1>1, <1>4, <1>5, <1>7, <2>1, Zenon DEF Sole
  <1> QED BY <1>6, <1>8, Zenon DEF Once

\* What Inserts adds to the rows of the open transactions.
LEMMA InsertsRows ==
    ASSUME NEW b \in Backends, NEW served, NEW new, Inserts(b, served, new)
    PROVE  rows' = rows /\ Uncommitted' = Uncommitted \cup new
  <1>1. /\ \A c \in Backends \ {b} : conn'[c].rows = conn[c].rows
        /\ conn'[b].rows = conn[b].rows \cup new /\ rows' = rows
    BY Zenon DEF Inserts, Only, tables
  <1> QED BY <1>1, Zenon DEF Uncommitted

LEMMA InsertsOnce ==
    ASSUME Base, Once, NEW b \in Backends, NEW served, NEW new, Inserts(b, served, new)
    PROVE  Once'
  <1>1. rows' = rows /\ Uncommitted' = Uncommitted \cup new /\ raced' = raced
    BY InsertsRows, Zenon DEF Inserts
  <1>2. ASSUME NEW r \in new, NEW q \in rows \cup Uncommitted, r.issue \notin raced
        PROVE  r.issue # q.issue
    <2>1. NewRow(b, served, r)
      BY NewFacts, Zenon
    <2>2. PICK k \in DOMAIN conn[b].batch : conn[b].batch[k].old = {}
                                            /\ r.issue = conn[b].batch[k].issue
      BY <2>1, Zenon DEF NewRow
    <2> QED BY <1>2, <2>2, Zenon DEF Once, Sole, OfIssue
  <1>3. ASSUME NEW r \in new, NEW q \in new, r.issue = q.issue, r.issue \notin raced
        PROVE  Costing(r) = Costing(q)
    <2>1. NewRow(b, served, r) /\ NewRow(b, served, q)
      BY NewFacts, Zenon
    <2>2. PICK k \in DOMAIN conn[b].batch : conn[b].batch[k].old = {}
                                            /\ r.issue = conn[b].batch[k].issue
                                            /\ r.xid = conn[b].batch[k].xid
                                            /\ r.ctx = conn[b].ctx
      BY <2>1, Zenon DEF NewRow
    <2>3. PICK j \in DOMAIN conn[b].batch : q.issue = conn[b].batch[j].issue
                                            /\ q.xid = conn[b].batch[j].xid
                                            /\ q.ctx = conn[b].ctx
      BY <2>1, Zenon DEF NewRow
    <2>4. Sole(b, k)
      BY Zenon DEF Once
    <2>5. j = k
      BY <1>3, <2>2, <2>3, <2>4, Zenon DEF Sole
    <2> QED BY <2>2, <2>3, <2>5, Zenon DEF Costing
  <1>4. OncePerIssue'
    <2>1. ASSUME NEW r \in (rows \cup Uncommitted) \cup new,
                 NEW q \in (rows \cup Uncommitted) \cup new,
                 r.issue = q.issue, r.issue \notin raced
          PROVE  Costing(r) = Costing(q)
      <3>1. CASE r \in new
        BY <1>2, <1>3, <2>1, <3>1, Zenon
      <3>2. CASE q \in new /\ r \notin new
        BY <1>2, <2>1, <3>2, Zenon
      <3>3. CASE q \notin new /\ r \notin new
        BY <2>1, <3>3, Zenon DEF Once, OncePerIssue
      <3> QED BY <3>1, <3>2, <3>3, Zenon
    <2> QED BY <1>1, <2>1, Zenon DEF OncePerIssue
  <1>5. \A c \in Backends : DOMAIN conn'[c].batch = {}
    <2>1. conn[b].pc \in Stages /\ Only(b) /\ conn'[b].batch = <<>>
      BY StagePcs, Zenon DEF Inserts
    <2> QED BY <2>1, OneBatch, EmptyDomain, Zenon DEF Only
  <1> QED BY <1>4, <1>5, Zenon DEF Once

LEMMA OnceStep ==
    ASSUME QueueAssumption, NatsOrdered, Base, Once, [Next]_vars
    PROVE  Once'
  <1>1. CASE Quiet
    <2>1. Uncommitted' = Uncommitted
      BY <1>1, SameRows, Zenon DEF Quiet
    <2> QED BY <1>1, <2>1, OnceKept, Zenon DEF Quiet, Uncommitted
  <1>2. ASSUME NEW b \in Backends, Push(b) \/ Compensate(b) PROVE Once'
    <2>1. /\ Only(b) /\ conn'[b].rows = conn[b].rows /\ conn'[b].batch = conn[b].batch
          /\ rows' = rows /\ raced' = raced
      BY <1>2, PushConn, CompensateConn, Zenon
         DEF Push, Compensate, Base, SameTx, SameWork, tables, history
    <2> QED BY <2>1, OnceKept, Zenon DEF Only, Uncommitted
  <1>3. ASSUME NEW b \in Backends, Gone(b) \/ Commit(b) PROVE Once'
    <2>1. /\ Only(b) /\ conn'[b] = Idle /\ rows' \subseteq rows \cup conn[b].rows
          /\ raced' = raced
      BY <1>3, GoneConn, CommitConn, Zenon DEF Gone, Commit, Base, Only, history
    <2>2. /\ conn'[b].rows = {} /\ DOMAIN conn'[b].batch = {}
          /\ rows' \subseteq rows \cup Uncommitted
      BY <2>1, IdleFacts, EmptyDomain, Zenon DEF Uncommitted
    <2>3. ASSUME NEW c \in Backends
          PROVE  /\ conn'[c].rows \subseteq rows \cup Uncommitted
                 /\ conn'[c].batch = conn[c].batch \/ DOMAIN conn'[c].batch = {}
      <3>1. CASE c = b
        BY <2>2, <3>1, Zenon
      <3>2. CASE c # b
        BY <2>1, <3>2, Zenon DEF Only, Uncommitted
      <3> QED BY <3>1, <3>2, Zenon
    <2> QED BY <2>1, <2>2, <2>3, OnceKept, Zenon
  <1>4. CASE Restart
    <2>1. rows' = rows /\ raced' = raced /\ \A c \in Backends : conn'[c] = Idle
      BY <1>4, Zenon DEF Restart, tables
    <2> QED BY <2>1, OnceKept, IdleFacts, EmptyDomain, Zenon
  <1>5. CASE Scan
    <2>1. UNCHANGED <<rows, raced, conn>>
      BY <1>5, Zenon DEF Scan, tables
    <2> QED BY <2>1, OnceKept, Zenon DEF Uncommitted
  <1> QED BY <1>1, <1>2, <1>3, <1>4, <1>5, StepKind, DrainOnce, InsertsOnce, Zenon DEF Kind

================================================================================
