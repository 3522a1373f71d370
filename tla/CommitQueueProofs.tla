--------------------------- MODULE CommitQueueProofs ---------------------------
(***************************************************************************)
(* What the committer queue promises, proved for any number of sessions,   *)
(* slots, issues and layers, any ring and batch size, and any bounds: an   *)
(* issue is costed once, a rolled-back request is compensated for, and a   *)
(* caller is handed the cost of its own issue.                             *)
(***************************************************************************)
EXTENDS CommitQueueSteps, WellFoundedInduction

--------------------------------------------------------------------------------
(* The committer's stages.                                                 *)

LEMMA FillOwners ==
    ASSUME QueueAssumption, Base, SlotShape, Owners, NEW b \in Backends, Fill(b)
    PROVE  SlotShape' /\ Owners'
  <1> DEFINE f == Head(conn[b].fills)
  <1>1. /\ conn[b].fills # <<>> /\ slot' = Filled(f.slot, f.res)
        /\ UNCHANGED <<answers, written, reused, raced>> /\ conn[b].pc = "fill"
    BY Zenon DEF Fill
  <1>2. IsSeq(conn[b].fills) /\ \A k \in DOMAIN conn[b].fills : conn[b].fills[k].slot \in Slots
    BY Zenon DEF Base, Sessions, Session
  <1>3. /\ 1 \in DOMAIN conn[b].fills /\ f = conn[b].fills[1]
        /\ \A k \in DOMAIN Tail(conn[b].fills) :
              k + 1 \in DOMAIN conn[b].fills /\ Tail(conn[b].fills)[k] = conn[b].fills[k + 1]
    BY <1>1, <1>2, SeqTail, Zenon
  <1> HIDE DEF f
  <1>4. Kept
    <2>1. f.slot \in Slots /\ OwnFill(f)
      BY <1>2, <1>3, Zenon DEF Owners, OwnWork
    <2> QED BY <1>1, <2>1, FilledKept, Zenon DEF OwnFill
  <1>5. CASE slot[f.slot].st \notin {"allocated", "abandoned"}
    <2>1. Gone(b)
      BY <1>5, FillGone, Zenon DEF Base, f
    <2> QED BY <1>4, <2>1, GoneOwners, Zenon
  <1>6. CASE slot[f.slot].st \in {"allocated", "abandoned"}
    <2>1. /\ Only(b) /\ SameCall(b) /\ conn'[b].fills = Tail(conn[b].fills)
          /\ conn'[b].batch = conn[b].batch /\ conn'[b].orphans = conn[b].orphans
          /\ conn'[b].pc = (IF Len(conn[b].fills) = 1 THEN "release" ELSE conn[b].pc)
      BY <1>6, FillConn, Zenon DEF Base, f
    <2>2. conn'[b].pc # "push"
      BY <1>1, <2>1, Zenon
    <2>3. WorkKept(b) /\ CallKept(b)
      BY <1>3, <2>1, <2>2, Zenon DEF WorkKept, CallKept, SameCall
    <2>4. \A c \in Backends : WorkKept(c) /\ CallKept(c)
      BY <2>1, <2>3, SessionKept, Zenon DEF Only
    <2>5. RingKept
      BY <1>6, Zenon DEF Fill, RingKept, f
    <2> QED BY <1>1, <1>4, <2>4, <2>5, SameGrows, OwnersKept, Zenon
  <1> QED BY <1>5, <1>6, Zenon

LEMMA ReconcileOwners ==
    ASSUME Base, SlotShape, Once, Costings, Owners, NEW b \in Backends, NEW o, Reconcile(b, o)
    PROVE  SlotShape' /\ Owners'
  <1> DEFINE found == OfIssue(Visible(b), o[2])
             res == [total |-> Total(found), ctx |-> conn[b].ctx, err |-> FALSE]
  <1>1. /\ o \in conn[b].orphans
        /\ slot' = IF found # {} THEN Filled(o[1], res) ELSE Abandon({o[1]})
        /\ UNCHANGED <<ring, answers, written, reused, raced>>
    BY Zenon DEF Reconcile, history
  <1>2. /\ Only(b) /\ SameCall(b) /\ conn'[b].pc \in {"comp", "recover"}
        /\ conn'[b].batch = conn[b].batch /\ conn'[b].fills = conn[b].fills
        /\ conn'[b].orphans = conn[b].orphans \ {o}
    BY ReconcileConn, Zenon DEF Base
  <1>3. conn'[b].pc # "push"
    BY <1>2
  <1>4. WorkKept(b) /\ CallKept(b)
    BY <1>2, <1>3, Zenon DEF WorkKept, CallKept, SameCall
  <1>5. \A c \in Backends : WorkKept(c) /\ CallKept(c)
    BY <1>2, <1>4, SessionKept, Zenon DEF Only
  <1>6. o[1] \in Slots /\ OwnOrphan(o)
    BY <1>1, Zenon DEF Owners, OwnWork, Base, Sessions, Session
  <1>7. found # {} => Right(written, raced, o[2], res)
    <2>1. res.total = Total(found)
      OBVIOUS
    <2> QED BY <2>1, VisibleRight, Zenon DEF Right
  <1> HIDE DEF found, res
  <1>8. Kept
    <2>1. CASE found # {}
      BY <1>1, <1>6, <1>7, <2>1, FilledKept, Zenon DEF OwnOrphan
    <2>2. CASE found = {}
      BY <1>1, <2>2, AbandonKept, Zenon
    <2> QED BY <2>1, <2>2, Zenon
  <1>9. RingKept
    BY <1>1, Zenon DEF RingKept
  <1> QED BY <1>1, <1>5, <1>8, <1>9, SameGrows, OwnersKept, Zenon

\* The steps below leave the slots alone, and change the work of one session.
LEMMA WorkOwners ==
    ASSUME Base, SlotShape, Owners, NEW b \in Backends, UNCHANGED <<slot, reused, answers>>,
           Grows, RingKept, Only(b), conn'[b].pend = conn[b].pend, conn'[b].pc # "push",
           OwnWork(b)'
    PROVE  SlotShape' /\ Owners'
  <1>1. NamesKept /\ \A c \in Backends : HeldKept(c)
    BY Zenon DEF NamesKept, HeldKept
  <1>2. \A c \in Backends \ {b} : (OwnPush(c) /\ OwnPend(c) /\ OwnWork(c))'
    BY <1>1, SessionKept, WorkStep, HeldStep, Zenon DEF Only, Owners, Base, Sessions
  <1>3. OwnPush(b)' /\ OwnPend(b)'
    <2>1. OwnPend(b)
      BY Zenon DEF Owners
    <2> QED BY <2>1, Zenon DEF OwnPush, OwnPend
  <1>4. \A s \in Slots : OwnSlot(s)'
    BY Zenon DEF Owners, OwnSlot, Right, Grows
  <1>5. OwnRing' /\ OwnAnswers'
    BY <1>1, RingStep, AnswersStep, Zenon DEF Owners
  <1>6. SlotShape'
    BY Zenon DEF SlotShape
  <1> QED BY <1>2, <1>3, <1>4, <1>5, <1>6, Zenon DEF Owners

LEMMA CollectOwners ==
    ASSUME Base, SlotShape, Owners, NEW b \in Backends, Collect(b)
    PROVE  SlotShape' /\ Owners'
  <1>1. UNCHANGED <<slot, ring, reused, answers, written, raced>> /\ conn[b].pc = "collect"
    BY Zenon DEF Collect, history
  <1>2. /\ Only(b) /\ SameCall(b) /\ conn'[b].pc \in {"comp", "recover"}
        /\ conn'[b].batch = conn[b].batch /\ conn'[b].fills = conn[b].fills
        /\ conn'[b].orphans = {<<s, slot[s].issue>> :
                  s \in {t \in Slots : slot[t].st = "allocated" /\ slot[t].issue # 0}}
    BY CollectConn, Zenon DEF Base
  <1>3. conn'[b].pc # "push" /\ conn[b].pc \notin {"snap", "insert"} /\ conn[b].pc # "fill"
    BY <1>1, <1>2, Zenon
  <1>4. DOMAIN conn'[b].batch = {} /\ DOMAIN conn'[b].fills = {}
    BY <1>2, <1>3, EmptyDomain, Zenon DEF Base, Sessions, Session
  <1>5. \A o \in conn'[b].orphans : o[2] # 0 /\ o[2] = slot[o[1]].issue
    <2>1. \A x, y : <<x, y>>[1] = x /\ <<x, y>>[2] = y
      OBVIOUS
    <2>2. ASSUME NEW o \in conn'[b].orphans
          PROVE  \E s \in Slots : slot[s].issue # 0 /\ o = <<s, slot[s].issue>>
      BY <1>2, Zenon
    <2>3. ASSUME NEW o \in conn'[b].orphans PROVE o[2] # 0 /\ o[2] = slot[o[1]].issue
      <3>1. PICK s \in Slots : slot[s].issue # 0 /\ o = <<s, slot[s].issue>>
        BY <2>2, Zenon
      <3> QED BY <2>1, <3>1, Zenon
    <2> QED BY <2>3, Zenon
  <1>6. OwnWork(b)'
    BY <1>1, <1>4, <1>5, Zenon DEF OwnWork, OwnOrphan
  <1>7. RingKept /\ Grows
    BY <1>1, SameGrows, Zenon DEF RingKept
  <1> QED BY <1>1, <1>2, <1>3, <1>6, <1>7, WorkOwners, Zenon DEF SameCall

LEMMA DrainOwners ==
    ASSUME QueueAssumption, NatsOrdered, Base, SlotShape, Once, Costings, Owners, NEW b \in Backends, Drain(b)
    PROVE  SlotShape' /\ Owners'
  <1> DEFINE n == Prefix("apply")
  <1>1. /\ UNCHANGED <<slot, reused, answers, written>> /\ raced \subseteq raced'
        /\ ring' = SubSeq(ring, n + 1, Len(ring))
    BY Zenon DEF Drain
  <1>2. /\ Only(b) /\ SameCall(b) /\ conn'[b].pc = (IF n = 0 THEN "release" ELSE "snap")
        /\ conn'[b].batch = [k \in 1..n |->
              [slot |-> ring[k].slot, issue |-> ring[k].issue, xid |-> ring[k].xid,
               old |-> Prior(b, ring[k].issue)]]
        /\ conn'[b].fills = conn[b].fills /\ conn'[b].orphans = conn[b].orphans
    BY DrainConn, Zenon DEF Base
  <1>3. Drained("apply")
    BY <1>1, DrainRing, Zenon
  <1>4. \A k \in 1..n : k \in DOMAIN ring /\ ring[k].kind = "apply"
    BY <1>3, Zenon DEF Drained
  <1> HIDE DEF n
  <1>5. conn'[b].pc # "push"
    BY <1>2
  <1>6. RingKept /\ Grows
    BY <1>1, <1>3, SameGrows, Zenon DEF RingKept, Drained
  <1>7. ASSUME NEW k \in DOMAIN conn'[b].batch
        PROVE  OwnRequest(conn[b].batch[k])' /\ OwnReplay(conn[b].batch[k])'
    <2>1. k \in 1..n /\ conn'[b].batch[k].slot = ring[k].slot
          /\ conn'[b].batch[k].issue = ring[k].issue
          /\ conn'[b].batch[k].old = Prior(b, ring[k].issue)
      BY <1>2
    <2>2. OwnRequest(ring[k])
      BY <1>4, <2>1, Zenon DEF Owners, OwnRing
    <2>3. Prior(b, ring[k].issue) # {} =>
             RightTotal(written, raced, ring[k].issue, Total(Prior(b, ring[k].issue)))
      BY VisibleRight, Zenon DEF Prior
    <2>4. OwnRequest(conn[b].batch[k])'
      BY <1>1, <2>1, <2>2, Zenon DEF OwnRequest
    <2>5. OwnReplay(conn[b].batch[k])'
      BY <1>6, <2>1, <2>3, Zenon DEF OwnReplay, Grows
    <2> QED BY <2>4, <2>5, Zenon
  <1>8. OwnWork(b)'
    <2>1. OwnWork(b)
      BY Zenon DEF Owners
    <2>2. ASSUME NEW k \in DOMAIN conn'[b].fills PROVE OwnFill(conn[b].fills[k])'
      BY <1>1, <1>2, <1>6, <2>1, Zenon DEF OwnWork, OwnFill, Right, Grows
    <2>3. ASSUME NEW o \in conn'[b].orphans PROVE o[1] \notin reused => o[2] # 0 /\ o[2] = slot[o[1]].issue
      BY <1>2, <2>1, Zenon DEF OwnWork, OwnOrphan
    <2> QED BY <1>1, <1>7, <2>2, <2>3, Zenon DEF OwnWork, OwnOrphan
  <1> QED BY <1>1, <1>2, <1>5, <1>6, <1>8, WorkOwners, Zenon DEF SameCall


\* The replays of a batch that answer for the slot of its request k.
Hits(b, k) ==
    {j \in DOMAIN conn[b].batch : /\ conn[b].batch[j].slot = conn[b].batch[k].slot
                                  /\ conn[b].batch[j].old # {}}

Drawn(new, k) == {r \in new : r.nth = k}

LEMMA AnswersRes ==
    ASSUME NEW b, NEW served, NEW new, NEW k \in DOMAIN conn[b].batch
    PROVE  LET res == Answers(b, served, new)[k].res
           IN  /\ Hits(b, k) # {} => res.total = Total(conn[b].batch[Max(Hits(b, k))].old)
               /\ Hits(b, k) = {} => /\ res.err = (k \notin served)
                                     /\ res.total = Total(Drawn(new, k))
  <1> DEFINE hit == [total |-> Total(conn[b].batch[Max(Hits(b, k))].old), ctx |-> conn[b].ctx,
                     err |-> FALSE]
             fresh == [total |-> Total(Drawn(new, k)), ctx |-> conn[b].ctx,
                       err |-> k \notin served]
             R == IF Hits(b, k) # {} THEN hit ELSE fresh
  <1>1. Answers(b, served, new)[k] = [slot |-> conn[b].batch[k].slot, res |-> R]
    BY Zenon DEF Answers, Hits, Drawn
  <1>2. /\ hit.total = Total(conn[b].batch[Max(Hits(b, k))].old)
        /\ fresh.err = (k \notin served) /\ fresh.total = Total(Drawn(new, k))
    OBVIOUS
  <1> HIDE DEF hit, fresh
  <1>3. (Hits(b, k) # {} => R = hit) /\ (Hits(b, k) = {} => R = fresh)
    BY Zenon
  <1> HIDE DEF R
  <1>4. Answers(b, served, new)[k].res = R
    BY <1>1
  <1> QED BY <1>2, <1>3, <1>4, Zenon

LEMMA InsertsGrows ==
    ASSUME Base, Costings, NEW b \in Backends, NEW served, NEW new, Inserts(b, served, new)
    PROVE  Grows
  <1>1. \A q \in written : OneCosting(written', q) = OneCosting(written, q)
    BY SplitCostings, Zenon
  <1>2. \A i : OfIssue(written, i) \subseteq OfIssue(written', i)
    BY Zenon DEF OfIssue, Inserts
  <1>3. \A i : OfIssue(written, i) \subseteq written
    BY Zenon DEF OfIssue
  <1>4. raced' = raced
    BY Zenon DEF Inserts
  <1>5. ASSUME NEW i, NEW t, NEW q \in OfIssue(written, i), Total(OneCosting(written, q)) = t
        PROVE  \E r \in OfIssue(written', i) : Total(OneCosting(written', r)) = t
    <2>1. Total(OneCosting(written', q)) = t /\ q \in OfIssue(written', i)
      BY <1>1, <1>2, <1>3, <1>5, Zenon
    <2> QED BY <2>1, Zenon
  <1> QED BY <1>4, <1>5, Zenon DEF Grows, RightTotal

\* What is inserted for a request that is served is one whole costing.
LEMMA ServedRight ==
    ASSUME QueueAssumption, Base, Once, Costings, NEW b \in Backends, NEW served, NEW new,
           Inserts(b, served, new), NEW k \in served
    PROVE  RightTotal(written', raced', conn[b].batch[k].issue, Total(Drawn(new, k)))
  <1> DEFINE i == conn[b].batch[k].issue
             mine == Drawn(new, k)
  <1>1. /\ served \subseteq Fresh(b) /\ Serves(b, served) /\ written' = written \cup new
        /\ raced' = raced /\ new = UNION {Draws(b, served, j) : j \in served}
    BY Zenon DEF Inserts
  <1>2. k \in DOMAIN conn[b].batch /\ conn[b].batch[k].old = {} /\ k \in Fresh(b)
    <2>1. k \in Fresh(b)
      BY <1>1, Zenon
    <2> QED BY <2>1, Zenon DEF Fresh
  <1>3. i \in Issues /\ Sole(b, k)
    <2>1. \A j \in DOMAIN conn[b].batch : conn[b].batch[j].issue \in Issues
      BY Zenon DEF Base, Sessions, Session
    <2> QED BY <1>2, <2>1, Zenon DEF Once
  <1>4. PICK q \in new : q \in Draws(b, served, k)
    <2>1. Draws(b, served, k) # {}
      BY <1>1, <1>2, <1>3, ServedDraws, Zenon
    <2>2. Draws(b, served, k) \subseteq new
      BY <1>1, Zenon
    <2> QED BY <2>1, <2>2, Zenon
  <1>5. q.issue = i /\ q.xid = conn[b].batch[k].xid /\ q.ctx = conn[b].ctx
    BY <1>4, DrawsFacts
  <1>6. ASSUME i \notin raced PROVE OneCosting(new, q) = mine
    <2>1. ASSUME NEW r \in new, r.issue = i PROVE r.nth = k
      <3>1. NewRow(b, served, r)
        BY NewFacts, Zenon
      <3>2. PICK j \in DOMAIN conn[b].batch : r.issue = conn[b].batch[j].issue /\ r.nth = j
        BY <3>1, Zenon DEF NewRow
      <3> QED BY <1>2, <1>3, <1>6, <2>1, <3>2, Zenon DEF Sole
    <2>2. ASSUME NEW r \in new, r.nth = k PROVE r.issue = i /\ Costing(r) = Costing(q)
      <3>1. NewRow(b, served, r)
        BY NewFacts, Zenon
      <3>2. r.issue = i /\ r.xid = conn[b].batch[k].xid /\ r.ctx = conn[b].ctx
        BY <2>2, <3>1, Zenon DEF NewRow
      <3> QED BY <1>5, <3>2, Zenon DEF Costing
    <2> QED BY <1>5, <2>1, <2>2, Zenon DEF OneCosting, OfIssue, Drawn
  <1>7. OneCosting(written', q) = OneCosting(new, q)
    BY SplitCostings, Zenon
  <1>8. q \in OfIssue(written', i)
    BY <1>1, <1>5, Zenon DEF OfIssue
  <1> HIDE DEF i, mine
  <1>9. RightTotal(written', raced', i, Total(mine))
    BY <1>1, <1>6, <1>7, <1>8, Zenon DEF RightTotal
  <1> QED BY <1>9, Zenon DEF i, mine

LEMMA InsertsOwners ==
    ASSUME QueueAssumption, NatsOrdered, Base, SlotShape, Once, Costings, Owners, NEW b \in Backends,
           NEW served, NEW new, Inserts(b, served, new)
    PROVE  SlotShape' /\ Owners'
  <1>1. /\ UNCHANGED <<slot, ring, reused, answers>> /\ Only(b) /\ SameCall(b)
        /\ conn'[b].pc = "fill" /\ conn'[b].batch = <<>>
        /\ conn'[b].fills = Answers(b, served, new) /\ conn'[b].orphans = conn[b].orphans
    BY Zenon DEF Inserts, shard
  <1>2. Grows /\ RingKept
    BY <1>1, InsertsGrows, Zenon DEF RingKept
  <1>3. OwnWork(b) /\ IsSeq(conn[b].batch)
        /\ \A k \in DOMAIN conn[b].batch : conn[b].batch[k].issue \in Issues
    BY Zenon DEF Owners, Base, Sessions, Session
  <1>4. /\ DOMAIN Answers(b, served, new) = DOMAIN conn[b].batch
        /\ \A k \in DOMAIN conn[b].batch :
              Answers(b, served, new)[k].slot = conn[b].batch[k].slot
    BY <1>3, AnswersFacts
  <1>5. ASSUME NEW k \in DOMAIN conn[b].batch
        PROVE  LET f == Answers(b, served, new)[k]
               IN  f.slot \notin reused => /\ slot[f.slot].issue # 0
                                           /\ Right(written', raced', slot[f.slot].issue, f.res)
    <2> DEFINE f == Answers(b, served, new)[k]
    <2> SUFFICES f.slot \notin reused => /\ slot[f.slot].issue # 0
                                         /\ Right(written', raced', slot[f.slot].issue, f.res)
      BY Zenon
    <2>1. /\ f.slot = conn[b].batch[k].slot
          /\ Hits(b, k) # {} => f.res.total = Total(conn[b].batch[Max(Hits(b, k))].old)
          /\ Hits(b, k) = {} => /\ f.res.err = (k \notin served)
                                /\ f.res.total = Total(Drawn(new, k))
      <3>1. f.slot = conn[b].batch[k].slot
        BY <1>4, Zenon
      <3> QED BY <3>1, AnswersRes
    <2> HIDE DEF f
    <2>2. conn[b].batch[k].issue # 0 /\ OwnRequest(conn[b].batch[k])
      BY <1>3, Zenon DEF QueueAssumption, OwnWork
    <2>3. ASSUME Hits(b, k) # {}, f.slot \notin reused
          PROVE  RightTotal(written', raced', slot[f.slot].issue, f.res.total)
      <3> DEFINE m == Max(Hits(b, k))
      <3>1. m \in Hits(b, k)
        <4>1. Len(conn[b].batch) \in Nat /\ Hits(b, k) \in SUBSET (0..Len(conn[b].batch))
          <5>1. Len(conn[b].batch) \in Nat /\ DOMAIN conn[b].batch = 1..Len(conn[b].batch)
            BY <1>3, IsSeqFacts, Zenon
          <5> QED BY <5>1 DEF Hits
        <4> QED BY <2>3, <4>1, MaxIn, Zenon
      <3> HIDE DEF m
      <3>2. /\ m \in DOMAIN conn[b].batch /\ conn[b].batch[m].slot = f.slot
            /\ conn[b].batch[m].old # {}
        BY <2>1, <3>1, Zenon DEF Hits
      <3>3. OwnRequest(conn[b].batch[m]) /\ OwnReplay(conn[b].batch[m])
        BY <1>3, <3>2, Zenon DEF OwnWork
      <3>4. RightTotal(written, raced, slot[f.slot].issue, f.res.total)
        BY <2>1, <2>3, <3>2, <3>3, Zenon DEF OwnRequest, OwnReplay, m
      <3> QED BY <1>2, <3>4, Zenon DEF Grows
    <2>4. ASSUME Hits(b, k) = {}, f.slot \notin reused, ~f.res.err
          PROVE  RightTotal(written', raced', slot[f.slot].issue, f.res.total)
      <3>1. k \in served
        BY <2>1, <2>4, Zenon
      <3>2. RightTotal(written', raced', conn[b].batch[k].issue, f.res.total)
        <4>1. RightTotal(written', raced', conn[b].batch[k].issue,
                         Total(Drawn(new, k)))
          BY <3>1, ServedRight, Zenon
        <4> QED BY <2>1, <2>4, <4>1, Zenon
      <3>3. slot[f.slot].issue = conn[b].batch[k].issue
        BY <2>1, <2>2, <2>4, Zenon DEF OwnRequest
      <3> QED BY <3>2, <3>3, Zenon
    <2> QED BY <2>1, <2>2, <2>3, <2>4, Zenon DEF OwnRequest, Right
  <1>6. OwnWork(b)'
    <2>1. \A o \in conn'[b].orphans : OwnOrphan(o)'
      BY <1>1, <1>3, Zenon DEF OwnWork, OwnOrphan
    <2>2. \A k \in DOMAIN conn'[b].fills : OwnFill(conn[b].fills[k])'
      BY <1>1, <1>4, <1>5, Zenon DEF OwnFill
    <2> QED BY <1>1, <2>1, <2>2, EmptyDomain, Zenon DEF OwnWork
  <1>7. conn'[b].pc # "push"
    BY <1>1, Zenon
  <1> QED BY <1>1, <1>2, <1>6, <1>7, WorkOwners, Zenon DEF SameCall

--------------------------------------------------------------------------------
(* All steps, and what follows.                                            *)

LEMMA CallerOwners ==
    ASSUME QueueAssumption, NatsOrdered, Base, SlotShape, Owners, NEW b \in Backends,
           (\E c \in Calls : Call(b, c)) \/ Caller(b)
    PROVE  SlotShape' /\ Owners'
  <1>1. ASSUME NEW c \in Calls, Call(b, c) PROVE SlotShape' /\ Owners'
    <2>1. /\ Only(b) /\ SameWork(b) /\ conn'[b].pend = conn[b].pend /\ conn'[b].pc = "acquire"
          /\ UNCHANGED <<slot, ring, reused, answers, written, raced>>
      BY <1>1, CallConn, Zenon DEF Base, Call, shard, history
    <2>2. conn'[b].pc # "push"
      BY <2>1
    <2> QED BY <2>1, <2>2, StageOwners, Zenon DEF RingKept
  <1>2. CASE Acquire(b)
    <2>1. CASE Found = {} /\ conn[b].single
      BY <1>2, <2>1, AcquireGone, SameKept, GoneOwners, Zenon DEF Base
    <2>2. CASE Found = {} /\ ~conn[b].single
      <3>1. /\ Only(b) /\ SameWork(b) /\ conn'[b].pend = conn[b].pend /\ conn'[b].pc = "wait"
            /\ UNCHANGED <<slot, ring, reused, answers, written, raced>>
        BY <1>2, <2>2, AcquireNoneConn, Zenon DEF Base, Acquire, SameCall
      <3>2. conn'[b].pc # "push"
        BY <3>1
      <3> QED BY <3>1, <3>2, StageOwners, Zenon DEF RingKept
    <2> QED BY <1>2, <2>1, <2>2, AcquireOwners, Zenon
  <1>3. CASE PushTimeout(b)
    BY <1>3, PushTimeoutGone, AbandonKept, GoneOwners, Zenon DEF Base
  <1>4. CASE HarvestAbandoned(b)
    BY <1>4, HarvestAbandonedGone, SameKept, GoneOwners, Zenon DEF Base
  <1> QED BY <1>1, <1>2, <1>3, <1>4, PushOwners, HarvestOwners, Zenon DEF Caller

LEMMA CommitterOwners ==
    ASSUME QueueAssumption, NatsOrdered, Base, SlotShape, Once, Costings, Owners, NEW b \in Backends,
           Committer(b)
    PROVE  SlotShape' /\ Owners'
  <1>1. CASE Elect(b) \/ Snapshot(b) \/ Release(b)
    <2>1. /\ Only(b) /\ SameWork(b) /\ conn'[b].pend = conn[b].pend
          /\ UNCHANGED <<slot, ring, reused, answers, written, raced>>
      BY <1>1, ElectConn, SnapshotConn, ReleaseConn, Zenon
         DEF Base, SameCall, Elect, Snapshot, Release, shard, history
    <2>2. conn'[b].pc # "push"
      BY <1>1, ElectConn, SnapshotConn, ReleaseConn DEF Base
    <2> QED BY <2>1, <2>2, StageOwners, Zenon DEF RingKept
  <1>2. CASE Compensate(b)
    <2>1. /\ Only(b) /\ SameWork(b) /\ conn'[b].pend = conn[b].pend /\ conn'[b].pc = "drain"
          /\ ring' = SubSeq(ring, Prefix("compensate") + 1, Len(ring))
          /\ UNCHANGED <<slot, reused, answers, written, raced>>
      BY <1>2, CompensateConn, Zenon DEF Base, SameCall, Compensate
    <2>2. conn'[b].pc # "push"
      BY <2>1
    <2>3. Drained("compensate")
      BY <2>1, DrainRing, Zenon
    <2> QED BY <2>1, <2>2, <2>3, StageOwners, Zenon DEF RingKept, Drained
  <1>3. CASE Insert(b)
    BY <1>3, InsertCases, SameKept, GoneOwners, InsertsOwners, Zenon DEF Base
  <1> QED BY <1>1, <1>2, <1>3, CollectOwners, ReconcileOwners, DrainOwners, FillOwners, Zenon
             DEF Committer

LEMMA ServerOwners ==
    ASSUME QueueAssumption, Base, SlotShape, Owners, Seed \/ Scan \/ UNCHANGED vars
    PROVE  SlotShape' /\ Owners'
  <1>1. UNCHANGED <<slot, conn, reused, answers, written, raced>>
    BY Zenon DEF Seed, Scan, vars, shard, history
  <1>2. RingKept
    <2>1. CASE Scan
      <3>1. Scanned
        BY <2>1, ScanRing, Zenon
      <3>2. \A e : e.kind = "compensate" => e.kind # "apply"
        OBVIOUS
      <3> QED BY <3>1, <3>2, Zenon DEF Scanned, RingKept
    <2>2. CASE ring' = ring
      BY <2>2, Zenon DEF RingKept
    <2> QED BY <2>1, <2>2, Zenon DEF Seed, vars, shard
  <1> QED BY <1>1, <1>2, SameOwners, Zenon

LEMMA OwnersStep ==
    ASSUME QueueAssumption, NatsOrdered, Base, SlotShape, Once, Costings, Owners, [Next]_vars
    PROVE  SlotShape' /\ Owners'
  <1>1. ASSUME NEW b \in Backends, Commit(b) PROVE SlotShape' /\ Owners'
    <2>1. UNCHANGED <<slot, ring, reused, answers, written, raced>>
      BY <1>1, Zenon DEF Commit, shard, history
    <2>2. \A c \in Backends : WorkKept(c) /\ CallKept(c)
      BY <1>1, CommitConn, SessionKept, IdleKept, Zenon DEF Base, Only
    <2> QED BY <2>1, <2>2, SameKept, SameGrows, OwnersKept, Zenon DEF RingKept
  <1>2. ASSUME NEW b \in Backends, Rollback(b) \/ Disconnect(b) PROVE SlotShape' /\ Owners'
    <2>1. CASE Disconnect(b) /\ ~Open(b)
      BY <2>1, SameOwners, Zenon DEF Disconnect, RingKept
    <2>2. CASE Rollback(b) \/ (Disconnect(b) /\ Open(b))
      BY <2>2, RollbackGone, DisconnectGone, SameKept, GoneOwners, Zenon DEF Base
    <2> QED BY <1>2, <2>1, <2>2, Zenon
  <1>3. ASSUME NEW b \in Backends, NEW die \in BOOLEAN, Cancel(b, die) \/ Fail(b, die)
        PROVE  SlotShape' /\ Owners'
    BY <1>3, CancelGone, FailGone, AbandonKept, SameKept, GoneOwners, Zenon DEF Base
  <1> QED BY <1>1, <1>2, <1>3, CallerOwners, CommitterOwners, ServerOwners, AuditOwners,
             RestartOwners, Zenon DEF Next


LEMMA InitInv ==
    ASSUME QueueAssumption, Init
    PROVE  IInv
  <1>1. /\ ring = <<>> /\ rows = {} /\ revs = {} /\ aborted = {} /\ dead = {} /\ written = {}
        /\ answers = {} /\ DOMAIN conn = Backends /\ \A b \in Backends : conn[b] = Idle
        /\ slot = [s \in Slots |-> Empty] /\ DOMAIN slot = Slots
    BY Zenon DEF Init
  <1>2. \A b \in Backends : /\ conn[b].rows = {} /\ conn[b].revs = {} /\ conn[b].orphans = {}
                            /\ DOMAIN conn[b].batch = {} /\ DOMAIN conn[b].fills = {}
                            /\ DOMAIN conn[b].pend = {} /\ conn[b].xid = 0
    BY <1>1, IdleFacts, EmptyDomain, Zenon
  <1>3. Uncommitted = {} /\ OpenRevs = {}
    <2>1. \A b \in Backends : conn[b].rows = {} /\ conn[b].revs = {}
      BY <1>2, Zenon
    <2> QED BY <2>1 DEF Uncommitted, OpenRevs
  <1>4. Shape
    <2>1. /\ DOMAIN count = {"tx", "calls", "faults", "restarts"} /\ count.tx \in Nat
          /\ nextSlot \in Nat /\ txSeq \in Nat
      BY DEF Init
    <2>2. ring \in Seq(Entries) /\ Len(ring) <= RingCap
      BY <1>1 DEF QueueAssumption
    <2> QED BY <1>1, <2>1, <2>2, IdleFacts, Zenon DEF Shape
  <1>5. ASSUME NEW b \in Backends PROVE Session(b)
    <2>1. conn[b].xid \in 0..count.tx
      BY <1>2, <1>4, RangeNat, Zenon DEF Shape
    <2>2. /\ conn[b].pc = "idle" /\ conn[b].pc \notin Stages
          /\ conn[b].pc \notin {"acquire", "push", "snap", "insert"}
      BY <1>1, IdleFacts, Zenon DEF Stages
    <2>3. /\ conn[b].todo = <<>> /\ conn[b].fills = <<>> /\ conn[b].batch = <<>>
          /\ conn[b].pend = <<>> /\ conn[b].rows = {} /\ conn[b].orphans = {}
          /\ conn[b].xid = 0
      BY <1>1, IdleFacts, Zenon
    <2> QED BY <2>1, <2>2, <2>3, EmptySeq, EmptyIsSeq, EmptyDomain, Zenon DEF Session
  <1>6. Sessions
    BY <1>1, <1>2, <1>5, EmptyDomain, Zenon DEF Sessions
  <1>7. Aborts /\ Once /\ Costings
    BY <1>1, <1>2, <1>3, EmptyDomain, Zenon DEF Aborts, Once, OncePerIssue, Costings
  <1>8. \A s \in Slots : DOMAIN slot[s] = SlotFields /\ OwnSlot(s)
    <2>1. Empty.issue = 0 /\ Empty.st # "filled"
      BY DEF Empty
    <2> QED BY <1>1, <2>1, Zenon DEF OwnSlot, SlotFields
  <1>9. \A b \in Backends : OwnPush(b) /\ OwnPend(b) /\ OwnWork(b)
    <2>1. \A b \in Backends : conn[b].pc # "push"
      BY <1>1, IdleFacts, Zenon
    <2> QED BY <1>2, <2>1, Zenon DEF OwnPush, OwnPend, OwnWork
  <1>10. OwnRing /\ OwnAnswers
    BY <1>1, EmptyDomain, Zenon DEF OwnRing, OwnAnswers
  <1> QED BY <1>1, <1>4, <1>6, <1>7, <1>8, <1>9, <1>10, Zenon DEF IInv, SlotShape, Owners

\* The natural numbers are well-founded, so what the lemmas presume holds.
LEMMA LeastExists == NatsOrdered
  <1> SUFFICES ASSUME NEW S \in SUBSET Nat, S # {}
               PROVE  \E m \in S : \A k \in S : m <= k
    BY Zenon DEF NatsOrdered
  <1> DEFINE R == OpToRel(<, Nat)
  <1>1. IsWellFoundedOn(R, Nat)
    BY NatLessThanWellFounded, Zenon
  <1>2. \A x, y \in Nat : x < y => <<x, y>> \in R
    BY Zenon DEF OpToRel
  <1> HIDE DEF R
  <1>3. PICK m \in S : \A k \in S : ~(<<k, m>> \in R)
    BY <1>1, WFMin, Zenon
  <1>4. ASSUME NEW k \in S PROVE m <= k
    <2>1. k \in Nat /\ m \in Nat /\ ~(k < m)
      BY <1>2, <1>3, Zenon
    <2> QED BY <2>1
  <1> QED BY <1>4, Zenon

\* The parts of the invariant hold in every reachable state of the queue.
THEOREM QueueInvariant == Spec => []IInv
  <1>1. Init => IInv
    BY QueueAssumption, InitInv, Zenon
  <1>2. ASSUME IInv, [Next]_vars PROVE IInv'
    <2>1. Base /\ SlotShape /\ Aborts /\ Once /\ Costings /\ Owners
      BY <1>2, Zenon DEF IInv, Base
    <2>2. Base'
      BY <1>2, <2>1, QueueAssumption, LeastExists, BaseStep, Zenon
    <2>3. Aborts' /\ Once'
      BY <1>2, <2>1, QueueAssumption, LeastExists, AbortsStep, OnceStep, Zenon
    <2>4. Costings'
      BY <1>2, <2>1, <2>2, QueueAssumption, LeastExists, CostingsStep, Zenon
    <2>5. SlotShape' /\ Owners'
      BY <1>2, <2>1, QueueAssumption, LeastExists, OwnersStep, Zenon
    <2> QED BY <2>2, <2>3, <2>4, <2>5, Zenon DEF IInv, Base
  <1> QED BY <1>1, <1>2, PTL DEF Spec

\* However many sessions retry it, an issue is costed once, unless a retry was
\* drained while the first costing was uncommitted or beside it in one batch
\* (dedup_lookup).
THEOREM QueueCostsOnce == Spec => []OncePerIssue
  <1>1. IInv => OncePerIssue
    BY Zenon DEF IInv, Once
  <1> QED BY <1>1, QueueInvariant, PTL

\* A committed depletion whose requester rolled back is reversed, or its
\* reversal is queued, open or left to the startup scan, except where the
\* compensation was lost (poc_ledger_xact_callback, drain_and_compensate).
THEOREM QueueReversesAborts == Spec => []AbortsReversed
  <1>1. ASSUME IInv, NEW r \in rows, r.xid \in aborted \ uncomp, startup = "done"
        PROVE  \/ \E v \in revs \cup OpenRevs : v.row = r
               \/ \E k \in DOMAIN ring : ring[k] = Compensation(r.xid)
    <2>1. Handled(r)
      BY <1>1, Zenon DEF IInv, Aborts
    <2> QED BY <1>1, <2>1, Zenon DEF Handled, Behind
  <1>2. IInv => AbortsReversed
    BY <1>1, Zenon DEF AbortsReversed
  <1> QED BY <1>2, QueueInvariant, PTL

\* A caller is handed the total of one whole costing of its own issue, though
\* slots are filled and read by number alone, unless its slot was freed under a
\* name or the issue was costed twice (fill_slot_result, read_slot_result,
\* reconcile_orphan_slot).
THEOREM QueueAnswersOwn == Spec => []OwnResult
  <1>1. ASSUME IInv, NEW a \in answers, a.clean, ~a.res.err, a.issue \notin raced
        PROVE  \E q \in OfIssue(written, a.issue) :
                  Total({r \in OfIssue(written, a.issue) : Costing(r) = Costing(q)})
                      = a.res.total
    <2>1. Right(written, raced, a.issue, a.res)
      BY <1>1, Zenon DEF IInv, Owners, OwnAnswers
    <2>2. PICK q \in OfIssue(written, a.issue) : Total(OneCosting(written, q)) = a.res.total
      BY <1>1, <2>1, Zenon DEF Right, RightTotal
    <2>3. OneCosting(written, q)
            = {r \in OfIssue(written, a.issue) : Costing(r) = Costing(q)}
      BY Zenon DEF OneCosting, OfIssue
    <2> QED BY <2>2, <2>3, Zenon
  <1>2. IInv => OwnResult
    BY <1>1, Zenon DEF OwnResult
  <1> QED BY <1>2, QueueInvariant, PTL

================================================================================
