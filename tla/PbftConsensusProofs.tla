------------------------ MODULE PbftConsensusProofs ------------------------
(***************************************************************************)
(* What slots, votes and commits of module Pbft rest on, for every value   *)
(* of its constants: that Pbft implements Consensus, the quorums behind a  *)
(* commit, and the order in which a node commits.                          *)
(***************************************************************************)
EXTENDS PbftProofs

-----------------------------------------------------------------------------
(***************************************************************************)
(* Slots.  HasSlot(j, v, s): node j has taken sequence number s of view v  *)
(* on and still keeps it.  A node is never ahead of itself with a slot, an *)
(* undecided slot is one of its current view, and every slot was numbered  *)
(* by its primary.                                                         *)
(***************************************************************************)
HasSlot(j, v, s) == slots[j][s].phase # "Idle" /\ slots[j][s].view = v

SlotsCurrent ==
    \A j \in Nodes : \A s \in Seqs :
        /\ slots[j][s].phase # "Idle" => slots[j][s].view <= view[j]
        /\ Undecided(slots[j][s]) => slots[j][s].view = view[j]

SlotsNumbered ==
    \A j \in Nodes : \A v \in Views, s \in Seqs :
        HasSlot(j, v, s) => Numbered(v, s)

SlotInv == SlotsCurrent /\ SlotsNumbered

\* How a step changes the slots of a node: one vote or decision more on an
\* undecided slot, a slot of the current view taken on, or a later view.
Advanced(old, new) ==
    /\ new.view = old.view
    /\ old.phase # "Idle" /\ new.phase # "Idle"
    /\ Undecided(new) => Undecided(old)
    /\ old.phase \in {"Prepared", "Committed"}
         => new.phase \in {"Prepared", "Committed"}
    /\ old.phase = "Committed" => new = old

SlotStep(j, s) ==
    \/ slots'[j][s] = slots[j][s] /\ view'[j] = view[j]
    \/ Advanced(slots[j][s], slots'[j][s]) /\ view'[j] = view[j]
    \/ /\ slots'[j][s] = PrePreparedSlot(view[j])
       /\ view'[j] = view[j]
       /\ Numbered(view[j], s)'
       /\ ~HasSlot(j, view[j], s)
    \/ /\ view'[j] > view[j]
       /\ \/ slots'[j][s] = slots[j][s] /\ slots[j][s].phase = "Committed"
          \/ slots'[j][s] = NoSlot

\* Views and the primaries' counters only go up.
Counting ==
    \A n \in Nodes : \/ view'[n] > view[n]
                     \/ /\ view'[n] = view[n]
                        /\ nextSequence'[n] >= nextSequence[n]

LEMMA SlotFrame ==
  ASSUME TypeOK, TypeOK', SlotInv, Counting,
         \A j \in Nodes, s \in Seqs : SlotStep(j, s)
  PROVE  SlotInv'
<1>1. LogTypeOK /\ LogTypeOK' /\ ViewTypeOK /\ ViewTypeOK'
  BY TypeParts, PTL
<1>3. Views \subseteq Nat
  BY DEF Views
<1>2. ASSUME NEW j \in Nodes, NEW s \in Seqs
      PROVE  /\ slots'[j][s].phase # "Idle" => slots'[j][s].view <= view'[j]
             /\ Undecided(slots'[j][s]) => slots'[j][s].view = view'[j]
             /\ \A v \in Views :
                  slots'[j][s].phase # "Idle" /\ slots'[j][s].view = v
                    => Numbered(v, s)'
  <2>1. /\ view[j] \in Nat /\ view'[j] \in Nat /\ view[j] \in Views
        /\ slots[j][s] \in SlotState /\ slots'[j][s] \in SlotState
        /\ slots[j][s].view \in Views
    <3>1. /\ slots[j][s] \in SlotState /\ slots'[j][s] \in SlotState
          /\ view[j] \in Views /\ view'[j] \in Views
      BY <1>1 DEF LogTypeOK, ViewTypeOK
    <3> QED
      BY <1>3, <3>1 DEF SlotState
  <2>2. /\ slots[j][s].phase # "Idle" => slots[j][s].view <= view[j]
        /\ Undecided(slots[j][s]) => slots[j][s].view = view[j]
        /\ \A v \in Views : HasSlot(j, v, s) => Numbered(v, s)
    BY DEF SlotInv, SlotsCurrent, SlotsNumbered
  <2>3. \A v \in Views : HasSlot(j, v, s) => Numbered(v, s)'
    BY <2>2, NumberedStays DEF Counting
  <2>4. CASE slots'[j][s] = slots[j][s] /\ view'[j] = view[j]
    BY <2>2, <2>3, <2>4 DEF HasSlot
  <2>5. CASE Advanced(slots[j][s], slots'[j][s]) /\ view'[j] = view[j]
    BY <2>2, <2>3, <2>5 DEF HasSlot, Advanced
  <2>6. CASE /\ slots'[j][s] = PrePreparedSlot(view[j])
             /\ view'[j] = view[j]
             /\ Numbered(view[j], s)'
    <3>1. slots'[j][s].view = view[j]
      BY <2>6 DEF PrePreparedSlot, NoSlot
    <3> QED
      BY <2>1, <2>6, <3>1 DEF Numbered
  <2>7. CASE view'[j] > view[j] /\ slots'[j][s] = NoSlot
    BY <2>7 DEF NoSlot, Undecided
  <2>8. CASE /\ view'[j] > view[j]
             /\ slots'[j][s] = slots[j][s] /\ slots[j][s].phase = "Committed"
    <3>1. slots[j][s].view <= view[j] /\ slots[j][s].view \in Nat
      BY <1>3, <2>1, <2>2, <2>8
    <3>2. slots'[j][s].view <= view'[j]
      BY <2>1, <2>8, <3>1
    <3> QED
      BY <2>3, <2>8, <3>2 DEF Undecided, HasSlot
  <2> QED
    BY <2>4, <2>5, <2>6, <2>7, <2>8 DEF SlotStep
<1> QED
  BY <1>2 DEF SlotInv, SlotsCurrent, SlotsNumbered, HasSlot

\* A step that writes one slot.
WritesSlot(i, s, slot) ==
    /\ slots'[i][s] = slot
    /\ \A n \in Nodes, t \in Seqs :
         ~(n = i /\ t = s) => slots'[n][t] = slots[n][t]

LEMMA ExceptWrites ==
  ASSUME LogTypeOK, NEW i \in Nodes, NEW s \in Seqs, NEW slot,
         slots' = [slots EXCEPT ![i][s] = slot]
  PROVE  WritesSlot(i, s, slot)
  BY DEF WritesSlot, LogTypeOK

\* A vote or a decision advances one undecided slot and moves no node.
LEMMA VoteWrites ==
  ASSUME TypeOK, NEW i \in Nodes, NEW m \in Message,
         \/ RecordPrepare(i, m) \/ BecomePrepared(i, m)
         \/ RecordCommit(i, m) \/ BecomeCommitted(i, m)
  PROVE  /\ m.sequence \in Seqs
         /\ Undecided(slots[i][m.sequence])
         /\ WritesSlot(i, m.sequence, slots'[i][m.sequence])
         /\ Advanced(slots[i][m.sequence], slots'[i][m.sequence])
         /\ UNCHANGED <<view, nextSequence>>
<1> DEFINE s == m.sequence
           slot == slots[i][s]
           counted == [slot EXCEPT !.prepareVoters = PrepareVoters(i, m)]
           prepared == [slot EXCEPT
                          !.phase = "Prepared",
                          !.prepareVoters = PrepareVoters(i, m),
                          !.commitVoters = slot.commitVoters \cup {i}]
           backed == [slot EXCEPT !.commitVoters = CommitVoters(i, m)]
           decided == [slot EXCEPT !.phase = "Committed",
                                   !.commitVoters = CommitVoters(i, m)]
<1>1. LogTypeOK /\ s \in Seqs
  BY MessageFields, TypeParts
     DEF RecordPrepare, BecomePrepared, RecordCommit, BecomeCommitted,
         AcceptsPrepare, AcceptsCommit
<1>2. slot \in SlotState /\ Undecided(slot)
  BY <1>1 DEF LogTypeOK, RecordPrepare, BecomePrepared, RecordCommit,
     BecomeCommitted, AcceptsPrepare, AcceptsCommit, Undecided
<1>3. \A new \in {counted, prepared, backed, decided} : Advanced(slot, new)
  BY <1>2 DEF Advanced, SlotState, Undecided,
     RecordPrepare, BecomePrepared, RecordCommit,
     BecomeCommitted, AcceptsPrepare, AcceptsCommit
<1>4. \E new \in {counted, prepared, backed, decided} :
        slots' = [slots EXCEPT ![i][s] = new]
  BY DEF RecordPrepare, BecomePrepared, RecordCommit, BecomeCommitted
<1>5. UNCHANGED <<view, nextSequence>>
  BY DEF RecordPrepare, BecomePrepared, RecordCommit, BecomeCommitted,
         viewVars
<1> HIDE DEF s, slot, counted, prepared, backed, decided
<1>6. PICK new \in {counted, prepared, backed, decided} :
        slots' = [slots EXCEPT ![i][s] = new]
  BY <1>4
<1>7. WritesSlot(i, s, new)
  BY <1>1, <1>6, ExceptWrites
<1>8. slots'[i][s] = new
  BY <1>7 DEF WritesSlot
<1> QED
  BY <1>1, <1>2, <1>3, <1>5, <1>7, <1>8 DEF s, slot

\* A backup takes on the slot of a pre-prepare of its view.
LEMMA PrePrepareWrites ==
  ASSUME TypeOK, NEW i \in Nodes, NEW m \in Message, HandlePrePrepare(i, m)
  PROVE  /\ m.view = view[i] /\ m.sequence \in Seqs
         /\ WritesSlot(i, m.sequence, PrePreparedSlot(view[i]))
         /\ UNCHANGED <<view, nextSequence>>
<1>1. m.view = view[i] /\ m.sequence \in Seqs
  BY MessageFields DEF HandlePrePrepare, AcceptsPrePrepare
<1>2. slots' = [slots EXCEPT ![i][m.sequence] = PrePreparedSlot(view[i])]
  BY <1>1 DEF HandlePrePrepare
<1>3. WritesSlot(i, m.sequence, PrePreparedSlot(view[i]))
  BY <1>1, <1>2, ExceptWrites, TypeParts
<1> QED
  BY <1>1, <1>3 DEF HandlePrePrepare, viewVars

\* A node that enters a view keeps no slot but committed ones.
LEMMA EnterWrites ==
  ASSUME TypeOK, NEW i \in Nodes, NEW v \in Views, NEW next, v > view[i],
         EnterNewView(i, v, next)
  PROVE  /\ view'[i] > view[i]
         /\ \A n \in Nodes \ {i} : /\ view'[n] = view[n]
                                   /\ nextSequence'[n] = nextSequence[n]
                                   /\ slots'[n] = slots[n]
         /\ \A s \in Seqs :
              \/ slots'[i][s] = slots[i][s] /\ slots[i][s].phase = "Committed"
              \/ slots'[i][s] = NoSlot
<1> DEFINE kept == [s \in Seqs |-> IF slots[i][s].phase = "Committed"
                                     THEN slots[i][s] ELSE NoSlot]
<1>1. LogTypeOK /\ ViewTypeOK
  BY TypeParts
<1>2. slots' = [slots EXCEPT ![i] = kept]
  BY DEF EnterNewView
<1>3. \A s \in Seqs : \/ kept[s] = slots[i][s] /\ slots[i][s].phase = "Committed"
                      \/ kept[s] = NoSlot
  OBVIOUS
<1>4. /\ view' = [view EXCEPT ![i] = v]
      /\ nextSequence' = [nextSequence EXCEPT ![i] = next]
  BY DEF EnterNewView
<1> HIDE DEF kept
<1>5. slots'[i] = kept /\ \A n \in Nodes \ {i} : slots'[n] = slots[n]
  BY <1>1, <1>2 DEF LogTypeOK
<1> QED
  BY <1>1, <1>3, <1>4, <1>5 DEF ViewTypeOK

-----------------------------------------------------------------------------
(***************************************************************************)
(* A node never takes a slot on twice: a pre-prepare is on the network at  *)
(* most once for each receiver, and only until the receiver has its slot.  *)
(* Without it a committed slot could be reopened in its own view.          *)
(***************************************************************************)
Offer(e) == e.msg.type = "PrePrepare"

SameOffer(d, e) ==
    /\ Offer(d) /\ Offer(e)
    /\ d.to = e.to
    /\ d.msg.view = e.msg.view
    /\ d.msg.sequence = e.msg.sequence

OffersOnce(q) ==
    \A k, l \in 1 .. Len(q) : SameOffer(q[k], q[l]) => k = l

\* Everything on the network, in the order of delivery.
Queue == inflight \o pending

OffersNew ==
    \A e \in Envelopes :
        Offer(e) => ~HasSlot(e.to, e.msg.view, e.msg.sequence)

OfferInv == OffersOnce(Queue) /\ OffersNew

LEMMA QueueType ==
  ASSUME NetTypeOK
  PROVE  Queue \in Seq(EnvelopeType) /\ Range(Queue) = Envelopes
<1>1. Queue \in Seq(EnvelopeType)
  BY ConcatProperties DEF NetTypeOK, Queue
<1>2. Range(Queue) = Range(inflight) \cup Range(pending)
  BY RangeConcatenation DEF NetTypeOK, Queue
<1> QED
  BY <1>1, <1>2 DEF Envelopes

LEMMA QueueElements ==
  ASSUME NetTypeOK
  PROVE  /\ \A k \in 1 .. Len(Queue) : Queue[k] \in Envelopes
         /\ \A e \in Envelopes : \E k \in 1 .. Len(Queue) : Queue[k] = e
<1>1. Range(Queue) = {Queue[k] : k \in 1 .. Len(Queue)}
  BY QueueType, RangeEquality
<1> QED
  BY <1>1, QueueType

\* Taking the first message off the queue.
LEMMA TailOnce ==
  ASSUME NEW q \in Seq(EnvelopeType), q # <<>>, OffersOnce(q)
  PROVE  /\ OffersOnce(Tail(q))
         /\ \A e \in Range(Tail(q)) : ~SameOffer(q[1], e)
<1>1. /\ Len(q) \in Nat /\ Len(q) >= 1
      /\ Tail(q) \in Seq(EnvelopeType)
      /\ Len(Tail(q)) = Len(q) - 1
      /\ \A k \in 1 .. Len(Tail(q)) : Tail(q)[k] = q[k + 1]
  BY HeadTailProperties, LenProperties
<1>2. OffersOnce(Tail(q))
  <2> SUFFICES ASSUME NEW k \in 1 .. Len(Tail(q)), NEW l \in 1 .. Len(Tail(q)),
                      SameOffer(Tail(q)[k], Tail(q)[l])
               PROVE  k = l
    BY DEF OffersOnce
  <2>1. /\ Tail(q)[k] = q[k + 1] /\ Tail(q)[l] = q[l + 1]
        /\ k + 1 \in 1 .. Len(q) /\ l + 1 \in 1 .. Len(q)
    BY <1>1
  <2>2. k + 1 = l + 1
    BY <2>1 DEF OffersOnce
  <2> QED
    BY <2>2
<1>3. ASSUME NEW e \in Range(Tail(q)), SameOffer(q[1], e)
      PROVE  FALSE
  <2>1. Range(Tail(q)) = {Tail(q)[k] : k \in 1 .. Len(Tail(q))}
    BY <1>1, RangeEquality
  <2>2. PICK k \in 1 .. Len(Tail(q)) : Tail(q)[k] = e
    BY <2>1
  <2>3. e = q[k + 1] /\ k + 1 \in 1 .. Len(q) /\ 1 \in 1 .. Len(q) /\ k + 1 # 1
    BY <1>1, <2>2
  <2> QED
    BY <1>3, <2>3 DEF OffersOnce
<1> QED
  BY <1>2, <1>3

\* Adding messages that repeat no offer.
LEMMA ConcatOnce ==
  ASSUME NEW q \in Seq(EnvelopeType), NEW out \in Seq(EnvelopeType),
         OffersOnce(q), OffersOnce(out),
         \A d \in Range(q), e \in Range(out) :
           ~SameOffer(d, e) /\ ~SameOffer(e, d)
  PROVE  OffersOnce(q \o out)
<1>1. /\ Len(q) \in Nat /\ Len(out) \in Nat
      /\ Len(q \o out) = Len(q) + Len(out)
      /\ \A k \in 1 .. Len(q) + Len(out) :
           (q \o out)[k] = IF k <= Len(q) THEN q[k] ELSE out[k - Len(q)]
  BY ConcatProperties, LenProperties
<1>2. /\ Range(q) = {q[k] : k \in 1 .. Len(q)}
      /\ Range(out) = {out[k] : k \in 1 .. Len(out)}
  BY RangeEquality
<1> SUFFICES ASSUME NEW k \in 1 .. Len(q \o out), NEW l \in 1 .. Len(q \o out),
                    SameOffer((q \o out)[k], (q \o out)[l])
             PROVE  k = l
  BY DEF OffersOnce
<1>3. CASE k <= Len(q) /\ l <= Len(q)
  <2>1. /\ (q \o out)[k] = q[k] /\ (q \o out)[l] = q[l]
        /\ k \in 1 .. Len(q) /\ l \in 1 .. Len(q)
    BY <1>1, <1>3
  <2> QED
    BY <2>1 DEF OffersOnce
<1>4. CASE k > Len(q) /\ l > Len(q)
  <2>1. /\ (q \o out)[k] = out[k - Len(q)] /\ (q \o out)[l] = out[l - Len(q)]
        /\ k - Len(q) \in 1 .. Len(out) /\ l - Len(q) \in 1 .. Len(out)
    BY <1>1, <1>4
  <2>2. k - Len(q) = l - Len(q)
    BY <2>1 DEF OffersOnce
  <2> QED
    BY <1>1, <2>2
<1>5. CASE k <= Len(q) /\ l > Len(q)
  <2>1. (q \o out)[k] \in Range(q) /\ (q \o out)[l] \in Range(out)
    BY <1>1, <1>2, <1>5
  <2> QED
    BY <2>1
<1>6. CASE k > Len(q) /\ l <= Len(q)
  <2>1. (q \o out)[k] \in Range(out) /\ (q \o out)[l] \in Range(q)
    BY <1>1, <1>2, <1>6
  <2> QED
    BY <2>1
<1> QED
  BY <1>1, <1>3, <1>4, <1>5, <1>6

\* Messages of other kinds repeat no offer.
LEMMA SilentOnce ==
  ASSUME NEW q \in Seq(EnvelopeType), NEW out \in Seq(EnvelopeType),
         OffersOnce(q), \A e \in Range(out) : ~Offer(e)
  PROVE  OffersOnce(q \o out)
<1>1. Range(out) = {out[k] : k \in 1 .. Len(out)}
  BY RangeEquality
<1>2. OffersOnce(out)
  BY <1>1 DEF OffersOnce, SameOffer
<1> QED
  BY <1>2, ConcatOnce DEF SameOffer

\* The peers of a node are distinct, so that a broadcast offers once.
LEMMA BroadcastOnce ==
  ASSUME NEW i \in Nodes, NEW m \in Message
  PROVE  OffersOnce(Broadcast(i, m))
<1>1. Len(Broadcast(i, m)) = N - 1
  BY SizeAssumption DEF Broadcast
<1>2. \A k, l \in 1 .. N - 1 : Peer(i, k) = Peer(i, l) => k = l
  BY SizeAssumption DEF Peer, Nodes
<1> QED
  BY <1>1, <1>2 DEF OffersOnce, SameOffer, Broadcast, Envelope

LEMMA HeadOfConcat ==
  ASSUME NEW S, NEW s \in Seq(S), NEW t \in Seq(S), s # <<>>
  PROVE  /\ Tail(s) \in Seq(S)
         /\ Tail(s \o t) = Tail(s) \o t
         /\ s \o t # <<>> /\ (s \o t)[1] = Head(s)
<1>1. /\ Len(s) \in Nat /\ Len(s) >= 1 /\ Len(t) \in Nat
      /\ Head(s) = s[1]
      /\ Tail(s) \in Seq(S)
      /\ Len(Tail(s)) = Len(s) - 1
      /\ \A k \in 1 .. Len(Tail(s)) : Tail(s)[k] = s[k + 1]
  BY HeadTailProperties, LenProperties
<1>2. /\ s \o t \in Seq(S)
      /\ Len(s \o t) = Len(s) + Len(t)
      /\ \A k \in 1 .. Len(s) + Len(t) :
           (s \o t)[k] = IF k <= Len(s) THEN s[k] ELSE t[k - Len(s)]
  BY ConcatProperties
<1>3. s \o t # <<>> /\ (s \o t)[1] = Head(s)
  BY <1>1, <1>2
<1>4. /\ Tail(s \o t) \in Seq(S)
      /\ Len(Tail(s \o t)) = Len(s) + Len(t) - 1
      /\ \A k \in 1 .. Len(Tail(s \o t)) :
           Tail(s \o t)[k] = (s \o t)[k + 1]
  BY <1>2, <1>3, HeadTailProperties
<1>5. /\ Tail(s) \o t \in Seq(S)
      /\ Len(Tail(s) \o t) = Len(s) - 1 + Len(t)
      /\ \A k \in 1 .. Len(s) - 1 + Len(t) :
           (Tail(s) \o t)[k] =
             IF k <= Len(s) - 1 THEN Tail(s)[k] ELSE t[k - (Len(s) - 1)]
  BY <1>1, ConcatProperties
<1>6. ASSUME NEW k \in 1 .. Len(Tail(s \o t))
      PROVE  Tail(s \o t)[k] = (Tail(s) \o t)[k]
  BY <1>1, <1>2, <1>4, <1>5
<1>7. Tail(s \o t) = Tail(s) \o t
  BY <1>1, <1>4, <1>5, <1>6, SeqEqual
<1> QED
  BY <1>1, <1>3, <1>7

LEMMA QueueParts ==
  \A s, t \in Seq(EnvelopeType) :
    /\ Range(s \o t) = Range(s) \cup Range(t)
    /\ \A u \in Seq(EnvelopeType) : (s \o t) \o u = s \o (t \o u)
<1>1. ASSUME NEW s \in Seq(EnvelopeType), NEW t \in Seq(EnvelopeType)
      PROVE  Range(s \o t) = Range(s) \cup Range(t)
  BY RangeConcatenation
<1>2. ASSUME NEW s \in Seq(EnvelopeType), NEW t \in Seq(EnvelopeType),
             NEW u \in Seq(EnvelopeType)
      PROVE  (s \o t) \o u = s \o (t \o u)
  BY ConcatAssociative
<1> QED
  BY <1>1, <1>2

\* What the steps of the network do to the queue.
LEMMA QueueSteps ==
  ASSUME NetTypeOK, NetTypeOK'
  PROVE  /\ StartStep => Queue' = Queue
         /\ Lose => inflight # <<>> /\ Queue' = Tail(Queue)
         /\ \A out \in Seq(EnvelopeType) :
              /\ inflight # <<>> /\ Consume(out) => Queue' = Tail(Queue) \o out
              /\ UNCHANGED inflight /\ Enqueue(out) => Queue' = Queue \o out
         /\ inflight # <<>> => Queue # <<>> /\ Queue[1] = Head(inflight)
<1>1. /\ inflight \in Seq(EnvelopeType) /\ pending \in Seq(EnvelopeType)
  BY DEF NetTypeOK
<1>2. StartStep => Queue' = Queue
  BY <1>1, ConcatEmptySeq DEF StartStep, Idle, Queue
<1>3. ASSUME inflight # <<>>
      PROVE  /\ Tail(Queue) = Tail(inflight) \o pending
             /\ Tail(inflight) \in Seq(EnvelopeType)
             /\ Queue # <<>> /\ Queue[1] = Head(inflight)
  BY <1>1, <1>3, HeadOfConcat DEF Queue
<1>4. Lose => inflight # <<>> /\ Queue' = Tail(Queue)
  BY <1>3 DEF Lose, Queue
<1>5. ASSUME NEW out \in Seq(EnvelopeType), inflight # <<>>, Consume(out)
      PROVE  Queue' = Tail(Queue) \o out
  <2>1. Queue' = Tail(inflight) \o (pending \o out)
    BY <1>5 DEF Consume, Enqueue, Queue
  <2>2. (Tail(inflight) \o pending) \o out = Tail(inflight) \o (pending \o out)
    BY <1>1, <1>3, <1>5, QueueParts
  <2> QED
    BY <1>3, <1>5, <2>1, <2>2
<1>6. ASSUME NEW out \in Seq(EnvelopeType), UNCHANGED inflight, Enqueue(out)
      PROVE  Queue' = Queue \o out
  <2>1. Queue' = inflight \o (pending \o out)
    BY <1>6 DEF Enqueue, Queue
  <2>2. (inflight \o pending) \o out = inflight \o (pending \o out)
    BY <1>1, <1>6, QueueParts
  <2> QED
    BY <2>1, <2>2 DEF Queue
<1> QED
  BY <1>2, <1>3, <1>4, <1>5, <1>6

\* No handler sends a pre-prepare: only the client's proposal does.
LEMMA HandlersSendNoOffer ==
  ASSUME TypeOK, NEW i \in Nodes, NEW m \in Message, HandleMessage(i, m)
  PROVE  \E out \in Seq(EnvelopeType) :
           Consume(out) /\ \A e \in Range(out) : ~Offer(e)
<1>1. <<>> \in Seq(EnvelopeType) /\ \A e \in Range(<<>>) : ~Offer(e)
  BY EmptySeq, EmptyRange
<1>2. ASSUME NEW x \in Message, x.type # "PrePrepare"
      PROVE  /\ Broadcast(i, x) \in Seq(EnvelopeType)
             /\ \A e \in Range(Broadcast(i, x)) : ~Offer(e)
  BY <1>2, BroadcastType, QuietBroadcast DEF Offer
<1>3. CASE HandlePrePrepare(i, m)
  <2> DEFINE x == PrepareMsg(m.view, m.sequence, m.digest, i)
  <2>1. x \in Message /\ x.type = "Prepare"
    BY <1>3, MessageFields, MessageTypes, MessageKinds
       DEF HandlePrePrepare, AcceptsPrePrepare
  <2>2. Consume(Broadcast(i, x))
    BY <1>3 DEF HandlePrePrepare
  <2> HIDE DEF x
  <2> QED
    BY <1>2, <2>1, <2>2
<1>4. CASE BecomePrepared(i, m)
  <2> DEFINE x == CommitMsg(m.view, m.sequence, m.digest, i)
  <2>1. x \in Message /\ x.type = "Commit"
    BY <1>4, MessageFields, MessageTypes, MessageKinds
       DEF BecomePrepared, AcceptsPrepare
  <2>2. Consume(Broadcast(i, x))
    BY <1>4 DEF BecomePrepared
  <2> HIDE DEF x
  <2> QED
    BY <1>2, <2>1, <2>2
<1>5. CASE \/ RecordPrepare(i, m) \/ RecordCommit(i, m)
           \/ BecomeCommitted(i, m) \/ HandleNewView(i, m) \/ Discard(i, m)
  <2>1. Consume(<<>>)
    BY <1>5 DEF RecordPrepare, RecordCommit, BecomeCommitted, HandleNewView,
                Discard
  <2> QED
    BY <1>1, <2>1
<1>6. ASSUME AcceptsViewChange(i, m)
      PROVE  /\ JoinMessages(i, m) \in Seq(EnvelopeType)
             /\ \A e \in Range(JoinMessages(i, m)) : ~Offer(e)
  <2>1. \A v, last : ViewChangeMsg(v, i, last).type = "ViewChange"
    BY DEF ViewChangeMsg
  <2> QED
    BY <1>6, <2>1, JoinSends DEF SentBy, Offer
<1>7. CASE JoinViewChange(i, m)
  <2>1. AcceptsViewChange(i, m) /\ Consume(JoinMessages(i, m))
    BY <1>7 DEF JoinViewChange
  <2> QED
    BY <1>6, <2>1
<1>8. CASE BecomePrimary(i, m)
  <2> DEFINE x == NewViewMsg(m.newView, highestCommittedSeq[i] + 1)
             out == JoinMessages(i, m) \o Broadcast(i, x)
  <2>1. AcceptsViewChange(i, m) /\ Consume(out)
    BY <1>8 DEF BecomePrimary
  <2>2. x \in Message /\ x.type = "NewView"
    <3>1. highestCommittedSeq[i] + 1 \in Nat \ {0}
      BY TypeParts DEF LogTypeOK
    <3>2. m.newView \in Views
      BY <2>1, MessageFields DEF AcceptsViewChange
    <3>3. \A v, next : NewViewMsg(v, next).type = "NewView"
      BY DEF NewViewMsg
    <3> QED
      BY <3>1, <3>2, <3>3, MessageTypes
  <2> HIDE DEF x
  <2>3. /\ Broadcast(i, x) \in Seq(EnvelopeType)
        /\ \A e \in Range(Broadcast(i, x)) : ~Offer(e)
    BY <1>2, <2>2
  <2>4. /\ out \in Seq(EnvelopeType)
        /\ Range(out) = Range(JoinMessages(i, m)) \cup Range(Broadcast(i, x))
    BY <1>6, <2>1, <2>3, ConcatProperties, RangeConcatenation
  <2> HIDE DEF out
  <2> QED
    BY <1>6, <2>1, <2>3, <2>4
<1> QED
  BY <1>3, <1>4, <1>5, <1>7, <1>8 DEF HandleMessage

LEMMA TicksSendNoOffer ==
  ASSUME TypeInv, Tick
  PROVE  /\ UNCHANGED inflight
         /\ \E out \in Seq(EnvelopeType) :
              Enqueue(out) /\ \A e \in Range(out) : ~Offer(e)
<1>1. PICK i \in Nodes : TickQuiet(i) \/ TickCountdown(i) \/ TickTimeout(i)
  BY DEF Tick
<1>2. UNCHANGED inflight
  BY <1>1 DEF TickQuiet, TickCountdown, TickTimeout, TickTurn
<1>3. CASE TickTimeout(i)
  <2> DEFINE x == ViewChangeMsg(view[i] + 1, i, highestCommittedSeq[i])
  <2>1. Enqueue(Broadcast(i, x))
    BY <1>3 DEF TickTimeout, TickTurn
  <2>2. x \in Message
    <3>1. view[i] < MaxView
      BY <1>3, TickRoom, SizeAssumption DEF TickTimeout, TickTurn, Nodes
    <3>2. view[i] + 1 \in Views /\ highestCommittedSeq[i] \in Nat
      BY <3>1, TypeParts, PbftAssumption
         DEF TypeInv, ViewTypeOK, LogTypeOK, Views
    <3> QED
      BY <3>2, MessageTypes
  <2>3. x.type = "ViewChange"
    BY DEF ViewChangeMsg
  <2> HIDE DEF x
  <2> QED
    BY <1>2, <2>1, <2>2, <2>3, BroadcastType, QuietBroadcast DEF Offer
<1>4. CASE ~TickTimeout(i)
  <2>1. Enqueue(<<>>)
    BY <1>1, <1>4 DEF TickQuiet, TickCountdown, TickTurn
  <2> QED
    BY <1>2, <2>1, EmptySeq, EmptyRange
<1> QED
  BY <1>3, <1>4

\* A message of the queue keeps offering each slot at most once when the
\* first one is taken off and when others than offers are added.
LEMMA QueueOnce ==
  ASSUME TypeOK, TypeOK', OffersOnce(Queue)
  PROVE  /\ StartStep => OffersOnce(Queue')
         /\ Lose => OffersOnce(Queue')
         /\ \A out \in Seq(EnvelopeType) :
              (\A e \in Range(out) : ~Offer(e)) =>
                /\ inflight # <<>> /\ Consume(out) => OffersOnce(Queue')
                /\ UNCHANGED inflight /\ Enqueue(out) => OffersOnce(Queue')
<1>1. NetTypeOK /\ NetTypeOK'
  BY TypeParts, PTL
<1>2. Queue \in Seq(EnvelopeType)
  BY <1>1, QueueType
<1>3. ASSUME inflight # <<>>
      PROVE  Tail(Queue) \in Seq(EnvelopeType) /\ OffersOnce(Tail(Queue))
  <2>1. Queue # <<>>
    BY <1>1, <1>3, QueueSteps
  <2> QED
    BY <1>2, <2>1, TailOnce, HeadTailProperties
<1>4. (StartStep => OffersOnce(Queue')) /\ (Lose => OffersOnce(Queue'))
  BY <1>1, <1>3, QueueSteps
<1>5. ASSUME NEW out \in Seq(EnvelopeType), \A e \in Range(out) : ~Offer(e),
             inflight # <<>>, Consume(out)
      PROVE  OffersOnce(Queue')
  BY <1>1, <1>3, <1>5, QueueSteps, SilentOnce
<1>6. ASSUME NEW out \in Seq(EnvelopeType), \A e \in Range(out) : ~Offer(e),
             UNCHANGED inflight, Enqueue(out)
      PROVE  OffersOnce(Queue')
  BY <1>1, <1>2, <1>6, QueueSteps, SilentOnce
<1> QED
  BY <1>4, <1>5, <1>6

\* A step that sends no offer and takes no slot on.
LEMMA OfferFrame ==
  ASSUME OfferInv, OffersOnce(Queue'),
         \A e \in Envelopes' : Offer(e) => e \in Envelopes /\ e.to \in Nodes
           /\ e.msg.view \in Views /\ e.msg.sequence \in Seqs,
         \A n \in Nodes, v \in Views, s \in Seqs :
           HasSlot(n, v, s)' => HasSlot(n, v, s)
  PROVE  OfferInv'
<1>1. OffersNew'
  <2> SUFFICES ASSUME NEW e \in Envelopes', Offer(e)
               PROVE  ~HasSlot(e.to, e.msg.view, e.msg.sequence)'
    BY DEF OffersNew
  <2>1. PICK n, v, s : n = e.to /\ v = e.msg.view /\ s = e.msg.sequence
    OBVIOUS
  <2>2. n \in Nodes /\ v \in Views /\ s \in Seqs /\ e \in Envelopes
    BY <2>1
  <2>3. ~HasSlot(n, v, s)
    BY <2>1, <2>2 DEF OfferInv, OffersNew
  <2>4. ~HasSlot(n, v, s)'
    BY <2>2, <2>3
  <2> QED
    BY <2>1, <2>4
<1> QED
  BY <1>1 DEF OfferInv

\* What an offer on the network looks like.
LEMMA OfferFields ==
  ASSUME NetTypeOK, NEW e \in Envelopes, Offer(e)
  PROVE  /\ e.to \in Nodes
         /\ e.msg.view \in Views
         /\ e.msg.sequence \in Seqs
  BY EnvelopeFields, MessageFields DEF Offer, EnvelopeType

\* A vote or a decision, or a view entered, takes no slot on.
LEMMA AdvancedSlots ==
  ASSUME NEW i \in Nodes, NEW s \in Seqs,
         WritesSlot(i, s, slots'[i][s]), Advanced(slots[i][s], slots'[i][s])
  PROVE  \A n \in Nodes, v \in Views, t \in Seqs :
           HasSlot(n, v, t)' => HasSlot(n, v, t)
  BY DEF WritesSlot, Advanced, HasSlot

LEMMA EnteredSlots ==
  ASSUME TypeOK, NEW i \in Nodes, NEW m \in Message,
         BecomePrimary(i, m) \/ HandleNewView(i, m)
  PROVE  /\ Counting
         /\ \A j \in Nodes, s \in Seqs : SlotStep(j, s)
         /\ \A n \in Nodes, v \in Views, t \in Seqs :
              HasSlot(n, v, t)' => HasSlot(n, v, t)
<1>1. \E v \in Views : \E next : v > view[i] /\ EnterNewView(i, v, next)
  BY MessageFields DEF BecomePrimary, HandleNewView, AcceptsViewChange,
     AcceptsNewView
<1>2. PICK v \in Views : \E next : v > view[i] /\ EnterNewView(i, v, next)
  BY <1>1
<1>3. /\ view'[i] > view[i]
      /\ \A n \in Nodes \ {i} : /\ view'[n] = view[n]
                                /\ nextSequence'[n] = nextSequence[n]
                                /\ slots'[n] = slots[n]
      /\ \A s \in Seqs :
           \/ slots'[i][s] = slots[i][s] /\ slots[i][s].phase = "Committed"
           \/ slots'[i][s] = NoSlot
  BY <1>2, EnterWrites
<1>4. \A n \in Nodes : nextSequence[n] \in Nat
  BY TypeParts DEF ViewTypeOK
<1>5. Counting
  BY <1>3, <1>4 DEF Counting
<1>6. \A j \in Nodes, s \in Seqs : SlotStep(j, s)
  BY <1>3 DEF SlotStep
<1>7. \A n \in Nodes, w \in Views, t \in Seqs :
        HasSlot(n, w, t)' => HasSlot(n, w, t)
  <2> SUFFICES ASSUME NEW n \in Nodes, NEW w \in Views, NEW t \in Seqs,
                      HasSlot(n, w, t)'
               PROVE  HasSlot(n, w, t)
    OBVIOUS
  <2>1. slots'[n][t] # NoSlot
    BY SlotPhases DEF HasSlot
  <2>2. slots'[n][t] = slots[n][t]
    BY <1>3, <2>1
  <2> QED
    BY <2>2 DEF HasSlot
<1> QED
  BY <1>5, <1>6, <1>7

\* A step that leaves slots, views and counters alone.
LEMMA StillSlots ==
  ASSUME TypeOK, UNCHANGED <<slots, view, nextSequence>>
  PROVE  /\ Counting
         /\ \A j \in Nodes, s \in Seqs : SlotStep(j, s)
         /\ \A n \in Nodes, v \in Views, t \in Seqs :
              HasSlot(n, v, t)' => HasSlot(n, v, t)
<1>1. \A n \in Nodes : nextSequence[n] \in Nat
  BY TypeParts DEF ViewTypeOK
<1> QED
  BY <1>1 DEF Counting, SlotStep, HasSlot

LEMMA VotedSlots ==
  ASSUME TypeOK, NEW i \in Nodes, NEW m \in Message,
         \/ RecordPrepare(i, m) \/ BecomePrepared(i, m)
         \/ RecordCommit(i, m) \/ BecomeCommitted(i, m)
  PROVE  /\ Counting
         /\ \A j \in Nodes, s \in Seqs : SlotStep(j, s)
         /\ \A n \in Nodes, v \in Views, t \in Seqs :
              HasSlot(n, v, t)' => HasSlot(n, v, t)
<1>1. /\ m.sequence \in Seqs
      /\ WritesSlot(i, m.sequence, slots'[i][m.sequence])
      /\ Advanced(slots[i][m.sequence], slots'[i][m.sequence])
      /\ UNCHANGED <<view, nextSequence>>
  BY VoteWrites
<1>2. \A n \in Nodes : nextSequence[n] \in Nat
  BY TypeParts DEF ViewTypeOK
<1>3. Counting
  BY <1>1, <1>2 DEF Counting
<1>4. \A j \in Nodes, s \in Seqs : SlotStep(j, s)
  BY <1>1 DEF SlotStep, WritesSlot
<1> QED
  BY <1>1, <1>3, <1>4, AdvancedSlots

\* A backup takes a slot on that it does not have, and consumes the only
\* offer of it.
LEMMA PrePrepareSlots ==
  ASSUME TypeOK, TypeOK', ClaimInv, OfferInv, Deliverable,
         NEW i \in Nodes, NEW m, i = Head(inflight).to,
         m = Tampered(Head(inflight)), HandlePrePrepare(i, m)
  PROVE  /\ Counting
         /\ \A j \in Nodes, s \in Seqs : SlotStep(j, s)
         /\ OfferInv'
<1> DEFINE e == Head(inflight)
<1>1. /\ NetTypeOK /\ NetTypeOK'
      /\ inflight # <<>> /\ e \in EnvelopeType /\ m \in Message
  <2>1. NetTypeOK /\ NetTypeOK'
    BY TypeParts, PTL
  <2> QED
    BY <2>1, DeliveredType
<1>2. e \in Envelopes
  BY <1>1, HeadTailRange DEF Envelopes, NetTypeOK
<1>3. m.type = "PrePrepare"
  BY DEF HandlePrePrepare, AcceptsPrePrepare
<1>4. Offer(e) /\ m.view = e.msg.view /\ m.sequence = e.msg.sequence
  BY <1>1, <1>3, TamperedKind, TamperedSlot DEF Offer
<1>5. /\ m.view = view[i] /\ m.sequence \in Seqs
      /\ WritesSlot(i, m.sequence, PrePreparedSlot(view[i]))
      /\ UNCHANGED <<view, nextSequence>>
  BY <1>1, PrePrepareWrites
<1>6. ~HasSlot(i, view[i], m.sequence)
  BY <1>2, <1>4, <1>5 DEF OfferInv, OffersNew
<1>7. view[i] \in Views /\ e.msg.payload \in Payload
  BY <1>1, <1>4, MessageFields, TypeParts DEF ViewTypeOK, Offer, EnvelopeType
<1>8. Numbered(view[i], m.sequence)
  <2>1. Claimed(view[i], m.sequence, e.msg.payload)
    BY <1>2, <1>4, <1>5 DEF Claimed, PrePrepared, Offer
  <2> QED
    BY <1>5, <1>7, <2>1 DEF ClaimInv, ClaimsNumbered
<1>9. Numbered(view[i], m.sequence)'
  BY <1>5, <1>8 DEF Numbered
<1>10. Counting
  BY <1>5, TypeParts DEF Counting, ViewTypeOK
<1> HIDE DEF e
<1>11. \A j \in Nodes, s \in Seqs : SlotStep(j, s)
  BY <1>5, <1>6, <1>9 DEF SlotStep, WritesSlot
<1>12. PICK out \in Seq(EnvelopeType) :
         Consume(out) /\ \A x \in Range(out) : ~Offer(x)
  BY <1>1, HandlersSendNoOffer DEF HandleMessage
<1>13. OffersOnce(Queue')
  BY <1>1, <1>12, QueueOnce DEF OfferInv
<1>14. ASSUME NEW x \in Envelopes', Offer(x)
       PROVE  x \in Envelopes /\ ~SameOffer(e, x)
  <2>1. Queue \in Seq(EnvelopeType) /\ Queue # <<>> /\ Queue[1] = e
    BY <1>1, QueueType, QueueSteps DEF e
  <2>2. Queue' = Tail(Queue) \o out /\ Tail(Queue) \in Seq(EnvelopeType)
    BY <1>1, <1>12, <2>1, QueueSteps, HeadTailProperties
  <2>3. Range(Queue)' = Envelopes' /\ Range(Queue) = Envelopes
    <3>1. (Range(Queue) = Envelopes)'
      BY <1>1, QueueType, PTL
    <3> QED
      BY <1>1, <3>1, QueueType
  <2>4. Range(Tail(Queue) \o out) = Range(Tail(Queue)) \cup Range(out)
    BY <2>2, QueueParts
  <2>5. x \in Range(Tail(Queue))
    BY <1>12, <1>14, <2>2, <2>3, <2>4
  <2> QED
    BY <2>1, <2>3, <2>5, TailOnce, HeadTailRange DEF OfferInv
<1>15. OffersNew'
  <2> SUFFICES ASSUME NEW x \in Envelopes', Offer(x)
               PROVE  ~HasSlot(x.to, x.msg.view, x.msg.sequence)'
    BY DEF OffersNew
  <2>1. PICK n, v, s : n = x.to /\ v = x.msg.view /\ s = x.msg.sequence
    OBVIOUS
  <2>2. x \in Envelopes /\ ~SameOffer(e, x)
    BY <1>14
  <2>3. n \in Nodes /\ v \in Views /\ s \in Seqs
    BY <1>1, <2>1, <2>2, OfferFields
  <2>4. ~HasSlot(n, v, s)
    BY <2>1, <2>2 DEF OfferInv, OffersNew
  <2>5. ~(n = i /\ v = view[i] /\ s = m.sequence)
    BY <1>4, <1>5, <2>1, <2>2 DEF SameOffer, e
  <2>6. ~HasSlot(n, v, s)'
    <3>1. CASE n = i /\ s = m.sequence
      <4>1. slots'[n][s] = PrePreparedSlot(view[i]) /\ v # view[i]
        BY <1>5, <2>5, <3>1 DEF WritesSlot
      <4> QED
        BY <4>1 DEF HasSlot, PrePreparedSlot, NoSlot
    <3>2. CASE ~(n = i /\ s = m.sequence)
      BY <1>5, <2>3, <2>4, <3>2 DEF HasSlot, WritesSlot
    <3> QED
      BY <3>1, <3>2
  <2> QED
    BY <2>1, <2>6
<1> QED
  BY <1>10, <1>11, <1>13, <1>15 DEF OfferInv

\* A primary numbers a payload beyond every slot and every offer of its view.
LEMMA ProposeSlots ==
  ASSUME TypeOK, TypeOK', ClaimInv, SlotInv, OfferInv,
         NEW p \in Payloads, ProposeAccepted(p)
  PROVE  /\ Counting
         /\ \A j \in Nodes, s \in Seqs : SlotStep(j, s)
         /\ OfferInv'
<1> DEFINE q == <<p, 0>>
<1>1. PICK j \in Nodes : \E w \in Views, t \in Seqs :
             /\ w = view[j] /\ t = nextSequence[j] /\ Primary(w) = j
             /\ Assign(j, q)
  BY ProposeSends
<1>2. PICK w \in Views, t \in Seqs :
             /\ w = view[j] /\ t = nextSequence[j] /\ Primary(w) = j
             /\ Assign(j, q)
  BY <1>1
<1> DEFINE offers == Broadcast(j, PrePrepareMsg(w, t, q))
           votes == Broadcast(j, PrepareMsg(w, t, DigestOf(q), j))
<1>3. LogTypeOK /\ ViewTypeOK /\ NetTypeOK /\ NetTypeOK'
  <2>1. NetTypeOK /\ NetTypeOK'
    BY TypeParts, PTL
  <2> QED
    BY <2>1, TypeParts
<1>4. /\ slots' = [slots EXCEPT ![j][t] = PrePreparedSlot(w)]
      /\ nextSequence' = [nextSequence EXCEPT ![j] = t + 1]
      /\ Enqueue(offers \o votes)
      /\ UNCHANGED <<view, inflight>>
  BY <1>2 DEF Assign, ProposeAccepted
<1>5. WritesSlot(j, t, PrePreparedSlot(w))
  BY <1>3, <1>4, ExceptWrites
<1>6. t \in Nat /\ w \in Nat /\ ~Numbered(w, t)
  BY <1>2 DEF Numbered, Views, Seqs
<1>7. /\ nextSequence'[j] = t + 1
      /\ \A n \in Nodes : nextSequence'[n] >= nextSequence[n]
  BY <1>2, <1>3, <1>4, <1>6 DEF ViewTypeOK
<1>8. Counting
  BY <1>4, <1>7 DEF Counting
<1>9. \A n \in Nodes : ~HasSlot(n, w, t)
  BY <1>6 DEF SlotInv, SlotsNumbered
<1>10. Numbered(w, t)'
  BY <1>2, <1>4, <1>6, <1>7 DEF Numbered
<1>11. \A n \in Nodes, s \in Seqs : SlotStep(n, s)
  BY <1>2, <1>4, <1>5, <1>9, <1>10 DEF SlotStep, WritesSlot
<1>12. /\ offers \in Seq(EnvelopeType) /\ votes \in Seq(EnvelopeType)
       /\ OffersOnce(offers)
       /\ \A e \in Range(offers) : SentBy(e, j, PrePrepareMsg(w, t, q))
       /\ \A e \in Range(votes) : ~Offer(e)
  <2>1. q \in Payload
    BY DEF Payload
  <2>2. /\ PrePrepareMsg(w, t, q) \in Message
        /\ PrepareMsg(w, t, DigestOf(q), j) \in Message
        /\ PrepareMsg(w, t, DigestOf(q), j).type # "PrePrepare"
    BY <2>1, MessageTypes, MessageKinds
  <2> QED
    BY <2>2, BroadcastType, BroadcastOnce, BroadcastSends, QuietBroadcast
       DEF Offer
<1> HIDE DEF offers, votes, q
<1>13. \A e \in Range(offers) :
         /\ Offer(e) /\ e.to \in Nodes \ {j}
         /\ e.msg.view = w /\ e.msg.sequence = t
  <2>1. /\ PrePrepareMsg(w, t, q).type = "PrePrepare"
        /\ PrePrepareMsg(w, t, q).view = w
        /\ PrePrepareMsg(w, t, q).sequence = t
    BY DEF PrePrepareMsg
  <2> QED
    BY <1>12, <2>1 DEF SentBy, Offer
<1>14. \A e \in Envelopes : Offer(e) => ~(e.msg.view = w /\ e.msg.sequence = t)
  <2> SUFFICES ASSUME NEW e \in Envelopes, Offer(e),
                      e.msg.view = w, e.msg.sequence = t
               PROVE  FALSE
    OBVIOUS
  <2>1. e.msg.payload \in Payload
    BY <1>3, EnvelopeFields, MessageFields DEF Offer
  <2>2. Claimed(w, t, e.msg.payload)
    BY DEF Claimed, PrePrepared, Offer
  <2> QED
    BY <1>6, <2>1, <2>2 DEF ClaimInv, ClaimsNumbered
<1>15. OffersOnce(Queue')
  <2>1. Queue \in Seq(EnvelopeType) /\ Range(Queue) = Envelopes
    BY <1>3, QueueType
  <2>2. OffersOnce(Queue \o offers) /\ Queue \o offers \in Seq(EnvelopeType)
    BY <1>12, <1>13, <1>14, <2>1, ConcatOnce, ConcatProperties
       DEF OfferInv, SameOffer
  <2>3. OffersOnce((Queue \o offers) \o votes)
    BY <1>12, <2>2, SilentOnce
  <2>4. offers \o votes \in Seq(EnvelopeType)
    BY <1>12, ConcatProperties
  <2>5. Queue' = Queue \o (offers \o votes)
    BY <1>3, <1>4, <2>4, QueueSteps
  <2>6. (Queue \o offers) \o votes = Queue \o (offers \o votes)
    BY <1>12, <2>1, ConcatAssociative
  <2> QED
    BY <2>3, <2>5, <2>6
<1>16. Envelopes' = Envelopes \cup Range(offers) \cup Range(votes)
  <2>1. /\ offers \o votes \in Seq(EnvelopeType)
        /\ Range(offers \o votes) = Range(offers) \cup Range(votes)
    BY <1>12, ConcatProperties, RangeConcatenation
  <2> QED
    BY <1>4, <2>1, EnqueueEnvelopes
<1>17. OffersNew'
  <2> SUFFICES ASSUME NEW e \in Envelopes', Offer(e)
               PROVE  ~HasSlot(e.to, e.msg.view, e.msg.sequence)'
    BY DEF OffersNew
  <2>1. PICK n, v, s : n = e.to /\ v = e.msg.view /\ s = e.msg.sequence
    OBVIOUS
  <2>2. CASE e \in Envelopes
    <3>1. n \in Nodes /\ v \in Views /\ s \in Seqs /\ ~HasSlot(n, v, s)
      BY <1>3, <2>1, <2>2, OfferFields DEF OfferInv, OffersNew
    <3>2. ~(v = w /\ s = t)
      BY <1>14, <2>1, <2>2
    <3>3. CASE n = j /\ s = t
      <4>1. slots'[n][s] = PrePreparedSlot(w) /\ v # w
        BY <1>5, <3>2, <3>3 DEF WritesSlot
      <4> QED
        BY <2>1, <4>1 DEF HasSlot, PrePreparedSlot, NoSlot
    <3>4. CASE ~(n = j /\ s = t)
      BY <1>5, <2>1, <3>1, <3>4 DEF HasSlot, WritesSlot
    <3> QED
      BY <3>3, <3>4
  <2>3. CASE e \in Range(offers)
    <3>1. n \in Nodes \ {j} /\ v = w /\ s = t
      BY <1>13, <2>1, <2>3
    <3>2. slots'[n][s] = slots[n][s] /\ ~HasSlot(n, v, s)
      BY <1>5, <1>9, <3>1 DEF WritesSlot
    <3> QED
      BY <2>1, <3>2 DEF HasSlot
  <2> QED
    BY <1>12, <1>16, <2>2, <2>3
<1> QED
  BY <1>8, <1>11, <1>15, <1>17 DEF OfferInv

\* How slots change, whatever the step.
LEMMA SlotSteps ==
  ASSUME TypeInv, TypeOK', ClaimInv, SlotInv, OfferInv, [Next]_vars
  PROVE  /\ Counting
         /\ \A j \in Nodes, s \in Seqs : SlotStep(j, s)
         /\ OfferInv'
<1>1. TypeOK /\ NetTypeOK
  BY TypeParts DEF TypeInv
<1>2. ASSUME NEW p \in Payloads, ProposeAccepted(p)
      PROVE  /\ Counting
             /\ \A j \in Nodes, s \in Seqs : SlotStep(j, s)
             /\ OfferInv'
  BY <1>1, <1>2, ProposeSlots
<1>3. CASE DeliverMessage
  <2> DEFINE i == Head(inflight).to
             m == Tampered(Head(inflight))
  <2>1. /\ Deliverable /\ HandleMessage(i, m)
        /\ inflight # <<>> /\ i \in Nodes /\ m \in Message
    BY <1>1, <1>3, DeliveredType DEF DeliverMessage
  <2>2. i = Head(inflight).to /\ m = Tampered(Head(inflight))
    OBVIOUS
  <2> HIDE DEF i, m
  <2>3. CASE HandlePrePrepare(i, m)
    BY <1>1, <2>1, <2>2, <2>3, PrePrepareSlots
  <2>4. CASE ~HandlePrePrepare(i, m)
    <3>1. /\ Counting
          /\ \A j \in Nodes, s \in Seqs : SlotStep(j, s)
          /\ \A n \in Nodes, v \in Views, t \in Seqs :
               HasSlot(n, v, t)' => HasSlot(n, v, t)
      <4>1. CASE \/ RecordPrepare(i, m) \/ BecomePrepared(i, m)
                 \/ RecordCommit(i, m) \/ BecomeCommitted(i, m)
        BY <1>1, <2>1, <4>1, VotedSlots
      <4>2. CASE BecomePrimary(i, m) \/ HandleNewView(i, m)
        BY <1>1, <2>1, <4>2, EnteredSlots
      <4>3. CASE JoinViewChange(i, m) \/ Discard(i, m)
        <5>1. UNCHANGED <<slots, view, nextSequence>>
          BY <4>3 DEF JoinViewChange, Discard, nodeVars, logVars
        <5> QED
          BY <1>1, <5>1, StillSlots
      <4> QED
        BY <2>1, <2>4, <4>1, <4>2, <4>3 DEF HandleMessage
    <3>2. PICK out \in Seq(EnvelopeType) :
            Consume(out) /\ \A x \in Range(out) : ~Offer(x)
      BY <1>1, <2>1, HandlersSendNoOffer
    <3>3. OffersOnce(Queue')
      BY <1>1, <2>1, <3>2, QueueOnce DEF OfferInv
    <3>4. \A e \in Envelopes' : Offer(e) => e \in Envelopes
      BY <1>1, <2>1, <3>2, ConsumeEnvelopes
    <3> QED
      BY <1>1, <3>1, <3>3, <3>4, OfferFields, OfferFrame
  <2> QED
    BY <2>3, <2>4
<1>4. CASE Tick
  <2>1. UNCHANGED <<slots, view, nextSequence>>
    BY <1>4 DEF Tick, TickQuiet, TickCountdown, TickTimeout, nodeVars,
                viewVars, logVars
  <2>2. /\ UNCHANGED inflight
        /\ \E out \in Seq(EnvelopeType) :
             Enqueue(out) /\ \A e \in Range(out) : ~Offer(e)
    BY <1>4, TicksSendNoOffer
  <2>3. PICK out \in Seq(EnvelopeType) :
          Enqueue(out) /\ \A e \in Range(out) : ~Offer(e)
    BY <2>2
  <2>4. OffersOnce(Queue')
    BY <1>1, <2>2, <2>3, QueueOnce DEF OfferInv
  <2>5. \A e \in Envelopes' : Offer(e) => e \in Envelopes
    BY <1>1, <2>2, <2>3, EnqueueEnvelopes
  <2> QED
    BY <1>1, <2>1, <2>4, <2>5, OfferFields, OfferFrame, StillSlots
<1>5. CASE \/ BeginStep \/ LoseMessage \/ ChangeFaults \/ UNCHANGED vars
           \/ \E p \in Payloads : ProposeRejected(p)
  <2>1. Envelopes' \subseteq Envelopes /\ UNCHANGED <<slots, view, nextSequence>>
    BY <1>1, <1>5, ClusterSends DEF nodeVars
  <2>2. OffersOnce(Queue')
    <3>1. CASE BeginStep \/ LoseMessage
      BY <1>1, <3>1, QueueOnce DEF BeginStep, LoseMessage, OfferInv
    <3>2. CASE ~BeginStep /\ ~LoseMessage
      <4>1. UNCHANGED <<inflight, pending>>
        BY <1>5, <3>2 DEF ChangeFaults, SetFaults, vars, clusterVars,
                          ProposeRejected
      <4> QED
        BY <4>1 DEF Queue, OfferInv
    <3> QED
      BY <3>1, <3>2
  <2> QED
    BY <1>1, <2>1, <2>2, OfferFields, OfferFrame, StillSlots
<1> QED
  BY <1>2, <1>3, <1>4, <1>5 DEF Next

-----------------------------------------------------------------------------
(***************************************************************************)
(* The invariant of slots holds in every run, and with it what a primary   *)
(* numbers is new.                                                         *)
(***************************************************************************)
SafeInv == TypeInv /\ ClaimInv /\ SlotInv /\ OfferInv

LEMMA InitSafe == Init => SafeInv
<1> SUFFICES ASSUME Init PROVE SafeInv
  OBVIOUS
<1>1. TypeInv /\ ClaimInv
  BY InitType, InitClaims
<1>2. \A n \in Nodes, s \in Seqs : slots[n][s].phase = "Idle"
  BY SlotPhases DEF Init
<1>3. SlotInv
  BY <1>2 DEF SlotInv, SlotsCurrent, SlotsNumbered, HasSlot, Undecided
<1>4. Envelopes = {} /\ Queue = <<>>
  BY EmptyRange, EmptySeq, ConcatEmptySeq
     DEF Init, ClusterInit, Envelopes, Queue
<1>5. OfferInv
  BY <1>4 DEF OfferInv, OffersOnce, OffersNew
<1> QED
  BY <1>1, <1>3, <1>5 DEF SafeInv

LEMMA SafeStep == SafeInv /\ [Next]_vars => SafeInv'
<1> SUFFICES ASSUME SafeInv, [Next]_vars, TypeInv', TypeOK'
             PROVE  SafeInv'
  BY TypeStep DEF SafeInv, TypeInv
<1>1. TypeOK /\ TypeInv /\ ClaimInv /\ SlotInv /\ OfferInv
  BY DEF SafeInv, TypeInv
<1>2. /\ Counting
      /\ \A j \in Nodes, s \in Seqs : SlotStep(j, s)
      /\ OfferInv'
  BY <1>1, SlotSteps
<1>3. SlotInv'
  BY <1>1, <1>2, SlotFrame
<1>4. ClaimInv'
  BY <1>1, ClaimStep
<1> QED
  BY <1>2, <1>3, <1>4 DEF SafeInv

\* The next number a primary assigns lies beyond all slots of its view, also
\* when its counter was set back by the view change.
THEOREM NumbersFresh == Spec => []PrimaryNumbersFresh
<1>1. SafeInv => PrimaryNumbersFresh
  <2> SUFFICES ASSUME TypeOK, SlotInv,
                      NEW i \in Nodes, NEW s \in Seqs,
                      Primary(view[i]) = i, slots[i][s].phase # "Idle",
                      slots[i][s].view = view[i]
               PROVE  s < nextSequence[i]
    BY DEF PrimaryNumbersFresh, SafeInv, TypeInv
  <2>1. view[i] \in Views /\ view[i] \in Nat
    BY TypeParts DEF ViewTypeOK, Views
  <2>2. Numbered(view[i], s)
    BY <2>1 DEF SlotInv, SlotsNumbered, HasSlot
  <2> QED
    BY <2>1, <2>2 DEF Numbered
<1> QED
  BY <1>1, InitSafe, SafeStep, PTL DEF Spec

-----------------------------------------------------------------------------
(***************************************************************************)
(* Commits.  An entry of the current view is a committed slot, so that no  *)
(* number of a view is committed twice.                                    *)
(***************************************************************************)
EntriesHeld ==
    \A i \in Nodes : \A k \in 1 .. Len(committed[i]) :
        LET e == committed[i][k] IN
        /\ e.view <= view[i]
        /\ e.view = view[i] =>
             /\ slots[i][e.sequence].phase = "Committed"
             /\ slots[i][e.sequence].view = e.view

EntriesOnce ==
    \A i \in Nodes : \A k, l \in 1 .. Len(committed[i]) :
        /\ committed[i][k].view = committed[i][l].view
        /\ committed[i][k].sequence = committed[i][l].sequence
        => k = l

EntryInv == EntriesHeld /\ EntriesOnce

\* The step in which node i commits entry e.
Decides(i, e) ==
    /\ e \in CommittedEntry
    /\ e.view = view[i]
    /\ pendingPayloads[i][e.sequence] = e.payload
    /\ Undecided(slots[i][e.sequence])
    /\ slots'[i][e.sequence].phase = "Committed"
    /\ Advanced(slots[i][e.sequence], slots'[i][e.sequence])
    /\ UNCHANGED view
    /\ committed' = [committed EXCEPT ![i] = Append(committed[i], e)]

LEMMA CommitDecides ==
  ASSUME TypeOK, NEW i \in Nodes, NEW m \in Message, BecomeCommitted(i, m)
  PROVE  UNCHANGED committed \/ \E e : e.sequence = m.sequence /\ Decides(i, e)
<1> DEFINE s == m.sequence
           p == pendingPayloads[i][s]
           e == [sequence |-> s, payload |-> p, view |-> view[i]]
<1>1. LogTypeOK /\ ViewTypeOK
  BY TypeParts
<1>2. /\ s \in Seqs
      /\ Undecided(slots[i][s])
      /\ WritesSlot(i, s, slots'[i][s])
      /\ Advanced(slots[i][s], slots'[i][s])
      /\ UNCHANGED view
  BY VoteWrites
<1>3. slots'[i][s].phase = "Committed"
  <2> DEFINE new == [slots[i][s] EXCEPT !.phase = "Committed",
                                        !.commitVoters = CommitVoters(i, m)]
  <2>1. slots' = [slots EXCEPT ![i][s] = new]
    BY DEF BecomeCommitted
  <2>2. slots[i][s] \in SlotState
    BY <1>1, <1>2 DEF LogTypeOK
  <2>3. new.phase = "Committed"
    BY <2>2 DEF SlotState
  <2> HIDE DEF new, s
  <2>4. WritesSlot(i, s, new)
    BY <1>1, <1>2, <2>1, ExceptWrites
  <2>5. slots'[i][s] = new
    BY <2>4 DEF WritesSlot
  <2> QED
    BY <2>3, <2>5
<1>4. CASE p # None
  <2>1. committed' = [committed EXCEPT ![i] = Append(committed[i], e)]
    BY <1>4 DEF BecomeCommitted
  <2>2. e \in CommittedEntry
    <3>1. p \in Payload /\ view[i] \in Views
      BY <1>1, <1>2, <1>4 DEF LogTypeOK, ViewTypeOK
    <3> QED
      BY <1>2, <3>1 DEF CommittedEntry
  <2>3. e.sequence = s /\ e.payload = p /\ e.view = view[i]
    OBVIOUS
  <2> HIDE DEF e
  <2> QED
    BY <1>2, <1>3, <2>1, <2>2, <2>3 DEF Decides
<1>5. CASE p = None
  BY <1>5 DEF BecomeCommitted
<1> QED
  BY <1>4, <1>5

LEMMA LogSteps ==
  ASSUME TypeOK, [Next]_vars
  PROVE  UNCHANGED committed \/ \E i \in Nodes : \E e : Decides(i, e)
<1>1. CASE DeliverMessage
  <2> DEFINE i == Head(inflight).to
             m == Tampered(Head(inflight))
  <2>1. HandleMessage(i, m) /\ i \in Nodes /\ m \in Message
    BY <1>1, DeliveredType, TypeParts DEF DeliverMessage
  <2> HIDE DEF i, m
  <2>2. CASE BecomeCommitted(i, m)
    BY <2>1, <2>2, CommitDecides
  <2>3. CASE ~BecomeCommitted(i, m)
    BY <2>1, <2>3
       DEF HandleMessage, HandlePrePrepare, RecordPrepare, BecomePrepared,
           RecordCommit, JoinViewChange, BecomePrimary, HandleNewView,
           Discard, nodeVars, logVars
  <2> QED
    BY <2>2, <2>3
<1>2. CASE ~DeliverMessage
  BY <1>2 DEF Next, ProposeAccepted, ProposeRejected, BeginStep, LoseMessage,
              Tick, TickQuiet, TickCountdown, TickTimeout, ChangeFaults, vars,
              nodeVars, logVars
<1> QED
  BY <1>1, <1>2

LEMMA EntryStep ==
  ASSUME TypeOK, TypeOK', SlotInv, EntryInv, [Next]_vars, Counting,
         \A j \in Nodes, s \in Seqs : SlotStep(j, s)
  PROVE  EntryInv'
<1>1. LogTypeOK /\ LogTypeOK' /\ ViewTypeOK /\ ViewTypeOK'
  BY TypeParts, PTL
<1>2. \A n \in Nodes : view[n] \in Nat /\ view'[n] \in Nat
  BY <1>1 DEF ViewTypeOK, Views
<1>3. ASSUME NEW n \in Nodes, NEW e \in CommittedEntry,
             e.view <= view[n],
             e.view = view[n] => /\ slots[n][e.sequence].phase = "Committed"
                                 /\ slots[n][e.sequence].view = e.view
      PROVE  /\ e.view <= view'[n]
             /\ e.view = view'[n] =>
                  /\ slots'[n][e.sequence].phase = "Committed"
                  /\ slots'[n][e.sequence].view = e.view
  <2>1. e.view \in Nat /\ e.sequence \in Seqs
    BY DEF CommittedEntry, Views
  <2>2. PICK s \in Seqs : s = e.sequence
    BY <2>1
  <2>3. SlotStep(n, s) /\ Counting
    OBVIOUS
  <2>4. e.view <= view'[n] /\ (e.view = view'[n] => view'[n] = view[n])
    BY <1>2, <1>3, <2>1 DEF Counting
  <2>5. ASSUME e.view = view'[n]
        PROVE  slots'[n][s].phase = "Committed" /\ slots'[n][s].view = e.view
    <3>1. view'[n] = view[n] /\ slots[n][s].phase = "Committed"
          /\ slots[n][s].view = view[n]
      BY <1>3, <2>2, <2>4, <2>5
    <3>2. slots'[n][s] = slots[n][s]
      BY <1>2, <2>3, <3>1 DEF SlotStep, Advanced, HasSlot
    <3> QED
      BY <2>5, <3>1, <3>2
  <2> QED
    BY <2>2, <2>4, <2>5
<1>4. \A n \in Nodes : \A k \in 1 .. Len(committed[n]) :
        committed[n][k] \in CommittedEntry
  BY <1>1, ElementOfSeq DEF LogTypeOK
<1>5. CASE UNCHANGED committed
  <2>1. EntriesHeld'
    BY <1>3, <1>4, <1>5 DEF EntryInv, EntriesHeld
  <2> QED
    BY <1>5, <2>1 DEF EntryInv, EntriesOnce
<1>6. CASE \E i \in Nodes : \E e : Decides(i, e)
  <2>1. PICK i \in Nodes : \E e : Decides(i, e)
    BY <1>6
  <2>2. PICK e : Decides(i, e)
    BY <2>1
  <2>3. /\ e \in CommittedEntry /\ e.sequence \in Seqs
        /\ e.view = view[i] /\ view'[i] = view[i]
        /\ Undecided(slots[i][e.sequence])
        /\ slots'[i][e.sequence].phase = "Committed"
        /\ slots'[i][e.sequence].view = slots[i][e.sequence].view
    BY <2>2 DEF Decides, CommittedEntry, Advanced
  <2>4. slots'[i][e.sequence].view = e.view
    BY <2>3 DEF SlotInv, SlotsCurrent
  <2>5. \A n \in Nodes \ {i} : committed'[n] = committed[n]
    BY <1>1, <2>2 DEF Decides, LogTypeOK
  <2>6. /\ Len(committed'[i]) = Len(committed[i]) + 1
        /\ Len(committed[i]) \in Nat
        /\ \A k \in 1 .. Len(committed[i]) : committed'[i][k] = committed[i][k]
        /\ committed'[i][Len(committed[i]) + 1] = e
    <3>1. committed'[i] = Append(committed[i], e)
      BY <1>1, <2>2 DEF Decides, LogTypeOK
    <3>2. committed[i] \in Seq(CommittedEntry)
      BY <1>1 DEF LogTypeOK
    <3> QED
      BY <2>3, <3>1, <3>2, AppendProperties, LenProperties
  <2>7. \A k \in 1 .. Len(committed[i]) :
          ~(/\ committed[i][k].view = e.view
            /\ committed[i][k].sequence = e.sequence)
    BY <2>3 DEF EntryInv, EntriesHeld, Undecided
  <2>8. EntriesHeld'
    <3> SUFFICES ASSUME NEW n \in Nodes, NEW k \in 1 .. Len(committed'[n])
                 PROVE  LET x == committed'[n][k] IN
                        /\ x.view <= view'[n]
                        /\ x.view = view'[n] =>
                             /\ slots'[n][x.sequence].phase = "Committed"
                             /\ slots'[n][x.sequence].view = x.view
      BY DEF EntriesHeld
    <3>1. CASE n = i /\ k = Len(committed[i]) + 1
      BY <1>2, <2>3, <2>4, <2>6, <3>1
    <3>2. CASE ~(n = i /\ k = Len(committed[i]) + 1)
      <4>1. k \in 1 .. Len(committed[n]) /\ committed'[n][k] = committed[n][k]
        BY <2>5, <2>6, <3>2
      <4> QED
        BY <1>3, <1>4, <4>1 DEF EntryInv, EntriesHeld
    <3> QED
      BY <3>1, <3>2
  <2>9. EntriesOnce'
    <3> SUFFICES ASSUME NEW n \in Nodes, NEW k \in 1 .. Len(committed'[n]),
                        NEW l \in 1 .. Len(committed'[n]),
                        committed'[n][k].view = committed'[n][l].view,
                        committed'[n][k].sequence = committed'[n][l].sequence
                 PROVE  k = l
      BY DEF EntriesOnce
    <3>1. CASE n # i
      BY <2>5, <3>1 DEF EntryInv, EntriesOnce
    <3>2. CASE n = i /\ k <= Len(committed[i]) /\ l <= Len(committed[i])
      <4>1. /\ k \in 1 .. Len(committed[i]) /\ l \in 1 .. Len(committed[i])
            /\ committed'[n][k] = committed[i][k]
            /\ committed'[n][l] = committed[i][l]
        BY <2>6, <3>2
      <4> QED
        BY <4>1 DEF EntryInv, EntriesOnce
    <3>3. CASE n = i /\ ~(k <= Len(committed[i]) /\ l <= Len(committed[i]))
      <4>1. \A x \in 1 .. Len(committed'[i]) :
              x <= Len(committed[i]) =>
                ~(/\ committed'[i][x].view = e.view
                  /\ committed'[i][x].sequence = e.sequence)
        BY <2>6, <2>7
      <4>2. \A x \in 1 .. Len(committed'[i]) :
              ~(x <= Len(committed[i])) =>
                x = Len(committed[i]) + 1 /\ committed'[i][x] = e
        BY <2>6
      <4>3. CASE ~(k <= Len(committed[i]))
        BY <3>3, <4>1, <4>2, <4>3
      <4>4. CASE ~(l <= Len(committed[i]))
        BY <3>3, <4>1, <4>2, <4>4
      <4> QED
        BY <3>3, <4>3, <4>4
    <3> QED
      BY <3>1, <3>2, <3>3
  <2> QED
    BY <2>8, <2>9 DEF EntryInv
<1> QED
  BY <1>5, <1>6, LogSteps

-----------------------------------------------------------------------------
(***************************************************************************)
(* Pbft implements Consensus: a commit is a delivery, everything else at   *)
(* most a proposal.                                                        *)
(***************************************************************************)
ConsensusInv == SafeInv /\ EntryInv

LEMMA InitConsensus == Init => ConsensusInv
<1> SUFFICES ASSUME Init PROVE ConsensusInv
  OBVIOUS
<1>1. \A n \in Nodes : Len(committed[n]) = 0
  BY EmptySeq DEF Init
<1>2. EntryInv
  BY <1>1 DEF EntryInv, EntriesHeld, EntriesOnce
<1> QED
  BY <1>2, InitSafe DEF ConsensusInv

LEMMA ConsensusStep == ConsensusInv /\ [Next]_vars => ConsensusInv'
<1> SUFFICES ASSUME ConsensusInv, [Next]_vars, SafeInv', TypeOK'
             PROVE  ConsensusInv'
  BY SafeStep DEF ConsensusInv, SafeInv, TypeInv
<1>1. TypeOK /\ TypeInv /\ ClaimInv /\ SlotInv /\ OfferInv /\ EntryInv
  BY DEF ConsensusInv, SafeInv, TypeInv
<1>2. Counting /\ \A j \in Nodes, s \in Seqs : SlotStep(j, s)
  BY <1>1, SlotSteps
<1>3. EntryInv'
  BY <1>1, <1>2, EntryStep
<1> QED
  BY <1>3 DEF ConsensusInv

AllEntries == UNION {Entries(n) : n \in Nodes}

Chosen == {Decision(e) : e \in AllEntries}

\* The step that commits an entry adds it to one log.
LEMMA DecidesEntries ==
  ASSUME LogTypeOK, NEW i \in Nodes, NEW e, Decides(i, e)
  PROVE  /\ Entries(i)' = Entries(i) \cup {e}
         /\ \A n \in Nodes \ {i} : Entries(n)' = Entries(n)
<1>1. /\ e \in CommittedEntry /\ committed \in [Nodes -> Seq(CommittedEntry)]
      /\ committed' = [committed EXCEPT ![i] = Append(committed[i], e)]
  BY DEF Decides, LogTypeOK
<1>2. /\ committed'[i] = Append(committed[i], e)
      /\ \A n \in Nodes \ {i} : committed'[n] = committed[n]
      /\ DOMAIN committed' = Nodes
  BY <1>1
<1>3. /\ Len(committed[i]) \in Nat
      /\ DOMAIN committed[i] = 1 .. Len(committed[i])
      /\ DOMAIN committed'[i] = 1 .. Len(committed[i]) + 1
      /\ \A k \in 1 .. Len(committed[i]) : committed'[i][k] = committed[i][k]
      /\ committed'[i][Len(committed[i]) + 1] = e
  <2>1. /\ committed[i] \in Seq(CommittedEntry)
        /\ committed'[i] \in Seq(CommittedEntry)
        /\ Len(committed'[i]) = Len(committed[i]) + 1
        /\ \A k \in 1 .. Len(committed[i]) : committed'[i][k] = committed[i][k]
        /\ committed'[i][Len(committed[i]) + 1] = e
    BY <1>1, <1>2, AppendProperties
  <2> QED
    BY <2>1, LenProperties
<1>4. /\ Entries(i)' = Entries(i) \cup {e}
      /\ \A n \in Nodes \ {i} : Entries(n)' = Entries(n)
  <2>1. Entries(i)' = Entries(i) \cup {e}
    <3>1. /\ Entries(i) = {committed[i][k] : k \in 1 .. Len(committed[i])}
          /\ Entries(i)' = {committed'[i][k] : k \in 1 .. Len(committed[i]) + 1}
      BY <1>3 DEF Entries, EntriesOf
    <3>2. \A k \in 1 .. Len(committed[i]) + 1 :
            k \in 1 .. Len(committed[i]) \/ k = Len(committed[i]) + 1
      BY <1>3
    <3>3. /\ Len(committed[i]) + 1 \in 1 .. Len(committed[i]) + 1
          /\ 1 .. Len(committed[i]) \subseteq 1 .. Len(committed[i]) + 1
      BY <1>3
    <3> QED
      BY <1>3, <3>1, <3>2, <3>3
  <2> QED
    BY <1>2, <2>1 DEF Entries, EntriesOf
<1> QED
  BY <1>4

\* It adds it to what is chosen, too.
LEMMA DecidesLogs ==
  ASSUME LogTypeOK, NEW i \in Nodes, NEW e, Decides(i, e)
  PROVE  /\ Chosen' = Chosen \cup {Decision(e)}
         /\ Delivered' = [Delivered EXCEPT ![i] = Append(@, Decision(e))]
         /\ Delivered[i] \in Seq({Decision(x) : x \in CommittedEntry})
<1>1. /\ e \in CommittedEntry /\ committed \in [Nodes -> Seq(CommittedEntry)]
      /\ committed' = [committed EXCEPT ![i] = Append(committed[i], e)]
  BY DEF Decides, LogTypeOK
<1>2. /\ committed'[i] = Append(committed[i], e)
      /\ \A n \in Nodes \ {i} : committed'[n] = committed[n]
      /\ DOMAIN committed' = Nodes
  BY <1>1
<1>3. /\ Len(committed[i]) \in Nat
      /\ DOMAIN committed[i] = 1 .. Len(committed[i])
      /\ DOMAIN committed'[i] = 1 .. Len(committed[i]) + 1
      /\ \A k \in 1 .. Len(committed[i]) : committed'[i][k] = committed[i][k]
      /\ committed'[i][Len(committed[i]) + 1] = e
  <2>1. /\ committed[i] \in Seq(CommittedEntry)
        /\ committed'[i] \in Seq(CommittedEntry)
        /\ Len(committed'[i]) = Len(committed[i]) + 1
        /\ \A k \in 1 .. Len(committed[i]) : committed'[i][k] = committed[i][k]
        /\ committed'[i][Len(committed[i]) + 1] = e
    BY <1>1, <1>2, AppendProperties
  <2> QED
    BY <2>1, LenProperties
<1>4. /\ Entries(i)' = Entries(i) \cup {e}
      /\ \A n \in Nodes \ {i} : Entries(n)' = Entries(n)
  BY DecidesEntries
<1>5. AllEntries' = AllEntries \cup {e}
  BY <1>4 DEF AllEntries
<1>6. Chosen' = Chosen \cup {Decision(e)}
  BY <1>5 DEF Chosen, Decision
<1> DEFINE old == [k \in 1 .. Len(committed[i]) |-> Decision(committed[i][k])]
           new == [k \in 1 .. Len(committed[i]) + 1 |->
                     Decision(committed'[i][k])]
<1>7. Delivered[i] = old /\ Delivered'[i] = new
  BY <1>3 DEF Delivered, Decision
<1>8. old \in Seq({Decision(x) : x \in CommittedEntry}) /\ Len(old) = Len(committed[i])
  <2>1. \A k \in 1 .. Len(committed[i]) : committed[i][k] \in CommittedEntry
    BY <1>1, ElementOfSeq
  <2> QED
    BY <1>3, <2>1, SeqDef
<1>9. new = Append(old, Decision(e))
  <2>1. new \in Seq({Decision(x) : x \in CommittedEntry})
        /\ Len(new) = Len(committed[i]) + 1
    <3>1. \A k \in 1 .. Len(committed[i]) + 1 :
            committed'[i][k] \in CommittedEntry
      <4>1. \A k \in 1 .. Len(committed[i]) : committed[i][k] \in CommittedEntry
        BY <1>1, ElementOfSeq
      <4> QED
        BY <1>1, <1>3, <4>1
    <3> QED
      BY <1>3, <3>1, SeqDef
  <2>2. /\ Append(old, Decision(e)) \in Seq({Decision(x) : x \in CommittedEntry})
        /\ Len(Append(old, Decision(e))) = Len(old) + 1
        /\ \A k \in 1 .. Len(old) : Append(old, Decision(e))[k] = old[k]
        /\ Append(old, Decision(e))[Len(old) + 1] = Decision(e)
    <3>1. Decision(e) \in {Decision(x) : x \in CommittedEntry}
      BY <1>1
    <3> HIDE DEF old
    <3> QED
      BY <1>8, <3>1, AppendProperties
  <2>3. ASSUME NEW k \in 1 .. Len(new)
        PROVE  new[k] = Append(old, Decision(e))[k]
    <3>1. CASE k = Len(committed[i]) + 1
      BY <1>3, <1>8, <2>1, <2>2, <3>1
    <3>2. CASE k # Len(committed[i]) + 1
      <4>1. k \in 1 .. Len(committed[i]) /\ k \in 1 .. Len(committed[i]) + 1
        BY <1>3, <2>1, <3>2
      <4>2. new[k] = Decision(committed[i][k]) /\ old[k] = Decision(committed[i][k])
        BY <1>3, <4>1
      <4> HIDE DEF new, old
      <4> QED
        BY <1>8, <2>2, <4>1, <4>2
    <3> QED
      BY <3>1, <3>2
  <2> HIDE DEF old, new
  <2> QED
    BY <1>8, <2>1, <2>2, <2>3, SeqEqual
<1>10. \A n \in Nodes \ {i} : Delivered'[n] = Delivered[n]
  BY <1>2 DEF Delivered, Decision
<1>11. Delivered' = [Delivered EXCEPT ![i] = Append(@, Decision(e))]
  <2>1. DOMAIN Delivered = Nodes /\ DOMAIN Delivered' = Nodes
    BY DEF Delivered
  <2>2. Delivered' = [n \in Nodes |-> Delivered'[n]]
        /\ Delivered = [n \in Nodes |-> Delivered[n]]
    BY DEF Delivered
  <2> HIDE DEF old, new
  <2> QED
    BY <1>7, <1>9, <1>10, <2>1, <2>2
<1> QED
  BY <1>6, <1>7, <1>8, <1>11

\* What a node may commit, Consensus lets it deliver.
LEMMA DecidesDelivers ==
  ASSUME TypeOK, ConsensusInv, NEW i \in Nodes, NEW e, Decides(i, e),
         UNCHANGED Proposed
  PROVE  Abstract!Deliver(i, Decision(e))
<1> DEFINE d == Decision(e)
<1>1. /\ TypeOK /\ LogTypeOK /\ ViewTypeOK
      /\ ClaimInv /\ SlotInv /\ EntriesHeld
  BY TypeParts DEF ConsensusInv, SafeInv, EntryInv
<1>2. /\ e \in CommittedEntry /\ e.view = view[i]
      /\ e.view \in Views /\ e.sequence \in Seqs /\ e.payload \in Payload
      /\ pendingPayloads[i][e.sequence] = e.payload
      /\ Undecided(slots[i][e.sequence])
  BY DEF Decides, CommittedEntry
<1>3. /\ Chosen' = Chosen \cup {d}
      /\ Delivered' = [Delivered EXCEPT ![i] = Append(@, d)]
  BY <1>1, DecidesLogs
<1>4. Claimed(e.view, e.sequence, e.payload)
  BY <1>2 DEF Claimed
<1>5. d.slot = <<e.view, e.sequence>> /\ d.payload = e.payload
  BY DEF Decision
<1>6. d.slot \in TrustedSlots => Primary(e.view) \in NeverEquivocates
  BY <1>5 DEF TrustedSlots
<1>7. d.slot \in TrustedSlots => d.payload \in Proposed
  BY <1>1, <1>2, <1>4, <1>5, <1>6 DEF ClaimInv, ClaimsProposed
<1>8. ASSUME NEW c \in Chosen, c.slot = d.slot, d.slot \in TrustedSlots
      PROVE  c.payload = d.payload
  <2>1. PICK n \in Nodes : \E x \in Entries(n) : c = Decision(x)
    BY DEF Chosen, AllEntries
  <2>2. PICK x \in Entries(n) : c = Decision(x)
    BY <2>1
  <2>3. x \in CommittedEntry
    BY <1>1, <2>2, ElementOfSeq, LenProperties
       DEF LogTypeOK, Entries, EntriesOf
  <2>4. /\ x.view = e.view /\ x.sequence = e.sequence
        /\ c.payload = x.payload /\ x.payload \in Payload
    BY <1>5, <1>8, <2>2, <2>3 DEF Decision, CommittedEntry
  <2>5. Claimed(e.view, e.sequence, x.payload)
    BY <2>2, <2>4 DEF Claimed, Logged
  <2> QED
    BY <1>1, <1>2, <1>4, <1>5, <1>6, <1>8, <2>4, <2>5
       DEF ClaimInv, ClaimsUnique
<1>9. ASSUME NEW k \in DOMAIN Delivered[i]
      PROVE  Delivered[i][k].slot # d.slot
  <2>1. /\ DOMAIN Delivered[i] = 1 .. Len(committed[i])
        /\ Delivered[i][k] = Decision(committed[i][k])
    BY <1>1, <1>9, LenProperties DEF Delivered, LogTypeOK
  <2>2. Delivered[i][k].slot = <<committed[i][k].view, committed[i][k].sequence>>
    BY <2>1 DEF Decision
  <2>3. ~(/\ committed[i][k].view = e.view
          /\ committed[i][k].sequence = e.sequence)
    BY <1>1, <1>2, <1>9, <2>1 DEF EntriesHeld, Undecided
  <2> QED
    BY <1>5, <2>2, <2>3
<1>10. Abstract!Choosable(d) /\ Abstract!NotYetDelivered(i, d)
  <2> HIDE DEF d
  <2> QED
    BY <1>7, <1>8, <1>9
       DEF Abstract!Choosable, Abstract!NotYetDelivered, Chosen, AllEntries
<1> HIDE DEF d
<1> QED
  BY <1>3, <1>10 DEF Abstract!Deliver, Chosen, AllEntries, d

\* Commits happen when a message is delivered, proposals before.
LEMMA DecidesAlone ==
  ASSUME TypeOK, [Next]_vars, ~UNCHANGED committed
  PROVE  UNCHANGED Proposed
<1>1. DeliverMessage
  BY DEF Next, ProposeAccepted, ProposeRejected, BeginStep, LoseMessage,
         Tick, TickQuiet, TickCountdown, TickTimeout, ChangeFaults, vars,
         nodeVars, logVars
<1>2. UNCHANGED outcome
  BY <1>1 DEF DeliverMessage, HandleMessage, HandlePrePrepare, RecordPrepare,
              BecomePrepared, RecordCommit, BecomeCommitted, JoinViewChange,
              BecomePrimary, HandleNewView, Discard
<1> QED
  BY <1>2 DEF Proposed

LEMMA AbstractStep ==
  ConsensusInv /\ [Next]_vars => [Abstract!Next]_(Abstract!vars)
<1> SUFFICES ASSUME ConsensusInv, [Next]_vars
             PROVE  Abstract!Next
  OBVIOUS
<1>1. TypeOK
  BY DEF ConsensusInv, SafeInv, TypeInv
<1>2. CASE UNCHANGED committed
  <2>1. UNCHANGED <<Chosen, Delivered>>
    BY <1>2 DEF Chosen, AllEntries, Entries, EntriesOf, Delivered
  <2>2. Proposed \subseteq Proposed'
    BY <1>1, ProposedGrows
  <2> QED
    BY <2>1, <2>2 DEF Abstract!Next, Abstract!Propose, Chosen, AllEntries
<1>3. CASE ~UNCHANGED committed
  <2>1. PICK i \in Nodes : \E e : Decides(i, e)
    BY <1>1, <1>3, LogSteps
  <2>2. PICK e : Decides(i, e)
    BY <2>1
  <2>3. Abstract!Deliver(i, Decision(e))
    BY <1>1, <1>3, <2>2, DecidesAlone, DecidesDelivers
  <2>4. Decision(e) \in Chosen'
    BY <1>1, <2>2, DecidesLogs, TypeParts
  <2> QED
    BY <2>3, <2>4 DEF Abstract!Next, Chosen, AllEntries
<1> QED
  BY <1>2, <1>3

LEMMA AbstractInit == Init => Abstract!Init
<1> SUFFICES ASSUME Init PROVE Abstract!Init
  OBVIOUS
<1>1. Proposed = {}
  BY DEF Init, Proposed
<1>2. \A n \in Nodes : committed[n] = <<>> /\ Entries(n) = {}
  BY DEF Init, Entries, EntriesOf
<1>3. AllEntries = {}
  BY <1>2 DEF AllEntries
<1>4. Chosen = {}
  BY <1>3 DEF Chosen
<1>5. Delivered = [n \in Nodes |-> <<>>]
  BY <1>2 DEF Delivered
<1> QED
  BY <1>1, <1>4, <1>5 DEF Abstract!Init, Chosen, AllEntries

\* Pbft implements Consensus, for every number of nodes and every fault the
\* framework can install: what nodes commit for a number of a view whose
\* primary never equivocates is one payload, proposed by a client, and no
\* number of a view is committed twice by a node.
THEOREM PbftImplementsConsensus == Spec => ImplementsConsensus
  BY InitConsensus, ConsensusStep, AbstractInit, AbstractStep, PTL
     DEF Spec, ImplementsConsensus, Abstract!Spec

-----------------------------------------------------------------------------
(***************************************************************************)
(* The quorums behind a Prepared slot and a commit.  Handlers do not look  *)
(* at digests, so what a vote says is the slot its sender had when it      *)
(* voted.  TookOffer and PreparedBy are stable: a node that has gone on to *)
(* a later view counts for the views it has left.                          *)
(***************************************************************************)
TookOffer(j, v, s) == view[j] > v \/ HasSlot(j, v, s)

PreparesBacked ==
    \A e \in Envelopes : e.msg.type = "Prepare" =>
        /\ e.msg.replica # e.to
        /\ TookOffer(e.msg.replica, e.msg.view, e.msg.sequence)

CommitsBacked ==
    \A e \in Envelopes : e.msg.type = "Commit" =>
        PreparedBy(e.msg.replica, e.msg.view, e.msg.sequence)

\* The votes a slot holds.
SlotBacked(i, s, slot) ==
    /\ slot.phase # "Idle" =>
         /\ \A r \in slot.prepareVoters : r # i /\ TookOffer(r, slot.view, s)
         /\ \A r \in slot.commitVoters : PreparedBy(r, slot.view, s)
    /\ slot.phase = "Prepared" =>
         Cardinality(slot.prepareVoters) >= PrepareThreshold

SlotsBacked == \A i \in Nodes : \A s \in Seqs : SlotBacked(i, s, slots[i][s])

BackingInv ==
    /\ PreparesBacked
    /\ CommitsBacked
    /\ SlotsBacked
    /\ CommitBackedByPrepared

\* The fault framework changes nothing of a vote but its digest.
LEMMA TamperedVote ==
  ASSUME NEW e \in EnvelopeType, e.msg.type \in {"Prepare", "Commit"}
  PROVE  /\ Tampered(e).view = e.msg.view
         /\ Tampered(e).sequence = e.msg.sequence
         /\ Tampered(e).replica = e.msg.replica
<1>1. e.msg \in [type : {"Prepare", "Commit"}, view : Views, sequence : Seqs,
                 digest : Digest, replica : Nodes]
  BY DEF EnvelopeType, Message
<1>2. Equivocated(e.msg, e.to) = e.msg
  BY <1>1 DEF Equivocated
<1>3. /\ Corrupted(e.msg).view = e.msg.view
      /\ Corrupted(e.msg).sequence = e.msg.sequence
      /\ Corrupted(e.msg).replica = e.msg.replica
  BY <1>1 DEF Corrupted
<1> QED
  BY <1>2, <1>3 DEF Tampered

\* Nothing a node once took or prepared is lost while it is in the view.
LEMMA BackingStable ==
  ASSUME ViewTypeOK, ViewTypeOK', LogTypeOK, SlotInv, Counting,
         NEW j \in Nodes, NEW v \in Views, NEW s \in Seqs, SlotStep(j, s)
  PROVE  /\ TookOffer(j, v, s) => TookOffer(j, v, s)'
         /\ PreparedBy(j, v, s) => PreparedBy(j, v, s)'
<1>1. v \in Nat /\ view[j] \in Nat /\ view'[j] \in Nat
  BY DEF ViewTypeOK, Views
<1>2. slots[j][s] \in SlotState
  BY DEF LogTypeOK
<1>3. view[j] > v => view'[j] > v
  BY <1>1 DEF Counting
<1>4. slots[j][s].phase # "Idle" => slots[j][s].view <= view[j]
  BY DEF SlotInv, SlotsCurrent
<1>5. ASSUME HasSlot(j, v, s), ~(view[j] > v)
      PROVE  TookOffer(j, v, s)'
  <2>1. view[j] = v /\ slots[j][s].view = v /\ slots[j][s].phase # "Idle"
    BY <1>1, <1>4, <1>5 DEF HasSlot
  <2> QED
    BY <1>1, <2>1 DEF SlotStep, TookOffer, HasSlot, Advanced, PrePreparedSlot,
                      NoSlot
<1>6. ASSUME slots[j][s].view = v, ~(view[j] > v),
             slots[j][s].phase \in {"Prepared", "Committed"}
      PROVE  PreparedBy(j, v, s)'
  <2>1. view[j] = v
    BY <1>1, <1>4, <1>6
  <2> QED
    BY <1>1, <1>6, <2>1 DEF SlotStep, PreparedBy, HasSlot, Advanced
<1> QED
  BY <1>3, <1>5, <1>6 DEF TookOffer, PreparedBy

PreparedNodes(v, s) == {j \in Nodes : PreparedBy(j, v, s)}

LEMMA SubsetCounts ==
  /\ IsFiniteSet(Nodes)
  /\ \A S \in SUBSET Nodes : IsFiniteSet(S) /\ Cardinality(S) \in Nat
  /\ \A S \in SUBSET Nodes : \A R \in SUBSET S :
       Cardinality(R) <= Cardinality(S)
<1>1. IsFiniteSet(Nodes)
  BY NodesFinite
<1> QED
  BY <1>1, FS_Subset, FS_CardinalityType

\* A step in which every new vote is backed, and every new commit.
LEMMA BackingFrame ==
  ASSUME TypeOK, TypeOK', SlotInv, BackingInv, Counting,
         \A j \in Nodes, s \in Seqs : SlotStep(j, s),
         \A e \in Envelopes' :
           \/ e \in Envelopes
           \/ e.msg.type \notin {"Prepare", "Commit"}
           \/ /\ e.msg.type = "Prepare" /\ e.msg.replica # e.to
              /\ TookOffer(e.msg.replica, e.msg.view, e.msg.sequence)'
           \/ /\ e.msg.type = "Commit"
              /\ PreparedBy(e.msg.replica, e.msg.view, e.msg.sequence)',
         \A i \in Nodes, s \in Seqs, slot \in SlotState :
           slots'[i][s] = slot =>
             slots[i][s] = slot \/ SlotBacked(i, s, slot)',
         \A i \in Nodes : \A e \in Entries(i)' :
           \/ e \in Entries(i)
           \/ Cardinality(PreparedNodes(e.view, e.sequence)') >= Quorum
  PROVE  BackingInv'
<1>1. LogTypeOK /\ LogTypeOK' /\ ViewTypeOK /\ ViewTypeOK' /\ NetTypeOK
  <2>1. LogTypeOK' /\ ViewTypeOK'
    BY TypeParts, PTL
  <2> QED
    BY <2>1, TypeParts
<1>2. \A j \in Nodes, v \in Views, s \in Seqs :
        /\ TookOffer(j, v, s) => TookOffer(j, v, s)'
        /\ PreparedBy(j, v, s) => PreparedBy(j, v, s)'
  BY <1>1, BackingStable
<1>3. ASSUME NEW e \in Envelopes, e.msg.type \in {"Prepare", "Commit"}
      PROVE  /\ e.msg.replica \in Nodes
             /\ e.msg.view \in Views /\ e.msg.sequence \in Seqs
  BY <1>1, <1>3, EnvelopeFields, MessageFields
<1>4. PreparesBacked'
  <2> SUFFICES ASSUME NEW e \in Envelopes', e.msg.type = "Prepare"
               PROVE  /\ e.msg.replica # e.to
                      /\ TookOffer(e.msg.replica, e.msg.view, e.msg.sequence)'
    BY DEF PreparesBacked
  <2>1. CASE e \in Envelopes
    <3>1. PICK r, v, s : /\ r = e.msg.replica /\ v = e.msg.view
                         /\ s = e.msg.sequence
      OBVIOUS
    <3>2. r \in Nodes /\ v \in Views /\ s \in Seqs
      BY <1>3, <2>1, <3>1
    <3>3. e.msg.replica # e.to /\ TookOffer(r, v, s)
      BY <2>1, <3>1 DEF BackingInv, PreparesBacked
    <3>4. TookOffer(r, v, s)'
      BY <1>2, <3>2, <3>3
    <3> QED
      BY <3>1, <3>3, <3>4
  <2> QED
    BY <2>1
<1>5. CommitsBacked'
  <2> SUFFICES ASSUME NEW e \in Envelopes', e.msg.type = "Commit"
               PROVE  PreparedBy(e.msg.replica, e.msg.view, e.msg.sequence)'
    BY DEF CommitsBacked
  <2>1. CASE e \in Envelopes
    <3>1. PICK r, v, s : /\ r = e.msg.replica /\ v = e.msg.view
                         /\ s = e.msg.sequence
      OBVIOUS
    <3>2. r \in Nodes /\ v \in Views /\ s \in Seqs
      BY <1>3, <2>1, <3>1
    <3>3. PreparedBy(r, v, s)
      BY <2>1, <3>1 DEF BackingInv, CommitsBacked
    <3>4. PreparedBy(r, v, s)'
      BY <1>2, <3>2, <3>3
    <3> QED
      BY <3>1, <3>4
  <2> QED
    BY <2>1
<1>6. SlotsBacked'
  <2>1. ASSUME NEW i \in Nodes, NEW s \in Seqs, NEW slot \in SlotState,
               slots'[i][s] = slot
        PROVE  SlotBacked(i, s, slot)'
    <3>1. CASE slots[i][s] = slot
      <4>1. SlotBacked(i, s, slot)
        BY <3>1 DEF BackingInv, SlotsBacked
      <4>2. /\ slot.view \in Views /\ slot.prepareVoters \subseteq Nodes
            /\ slot.commitVoters \subseteq Nodes
        BY DEF SlotState
      <4> QED
        BY <1>2, <4>1, <4>2 DEF SlotBacked
    <3> QED
      BY <2>1, <3>1
  <2>2. \A i \in Nodes, s \in Seqs : slots'[i][s] \in SlotState
    BY <1>1 DEF LogTypeOK
  <2> QED
    BY <2>1, <2>2 DEF SlotsBacked, SlotBacked
<1>7. CommitBackedByPrepared'
  <2> SUFFICES ASSUME NEW i \in Nodes, NEW e \in Entries(i)'
               PROVE  Cardinality(PreparedNodes(e.view, e.sequence)') >= Quorum
    BY DEF CommitBackedByPrepared, PreparedNodes
  <2>1. CASE e \in Entries(i)
    <3>1. e \in CommittedEntry
      BY <1>1, <2>1, ElementOfSeq, LenProperties
         DEF LogTypeOK, Entries, EntriesOf
    <3>2. e.view \in Views /\ e.sequence \in Seqs
      BY <3>1 DEF CommittedEntry
    <3>3. Cardinality(PreparedNodes(e.view, e.sequence)) >= Quorum
      BY <2>1 DEF BackingInv, CommitBackedByPrepared, PreparedNodes
    <3>4. /\ PreparedNodes(e.view, e.sequence)
               \subseteq PreparedNodes(e.view, e.sequence)'
          /\ PreparedNodes(e.view, e.sequence)' \subseteq Nodes
      BY <1>2, <3>2 DEF PreparedNodes
    <3> HIDE DEF PreparedNodes
    <3> QED
      BY <3>3, <3>4, SubsetCounts, QuorumIsNat
  <2> QED
    BY <2>1
<1> QED
  BY <1>4, <1>5, <1>6, <1>7 DEF BackingInv

\* A slot just taken on has no votes, and its own prepare vote is backed.
LEMMA TakenBacked ==
  ASSUME TypeOK, TypeOK', SlotInv, BackingInv, Counting,
         \A j \in Nodes, s \in Seqs : SlotStep(j, s),
         UNCHANGED <<view, committed>>,
         NEW i \in Nodes, NEW v \in Views, NEW s \in Seqs,
         WritesSlot(i, s, PrePreparedSlot(v)),
         \A e \in Envelopes' :
           \/ e \in Envelopes
           \/ e.msg.type = "PrePrepare"
           \/ \E d : SentBy(e, i, PrepareMsg(v, s, d, i))
  PROVE  BackingInv'
<1>1. HasSlot(i, v, s)'
  BY DEF WritesSlot, HasSlot, PrePreparedSlot, NoSlot
<1>2. \A e \in Envelopes' :
        \/ e \in Envelopes
        \/ e.msg.type \notin {"Prepare", "Commit"}
        \/ /\ e.msg.type = "Prepare" /\ e.msg.replica # e.to
           /\ TookOffer(e.msg.replica, e.msg.view, e.msg.sequence)'
  <2> SUFFICES ASSUME NEW e \in Envelopes', e \notin Envelopes,
                      e.msg.type # "PrePrepare"
               PROVE  /\ e.msg.type = "Prepare" /\ e.msg.replica # e.to
                      /\ TookOffer(e.msg.replica, e.msg.view, e.msg.sequence)'
    OBVIOUS
  <2>1. PICK d : SentBy(e, i, PrepareMsg(v, s, d, i))
    OBVIOUS
  <2>2. e.to # i /\ e.msg = PrepareMsg(v, s, d, i)
    BY <2>1 DEF SentBy
  <2>3. /\ e.msg.type = "Prepare" /\ e.msg.replica = i
        /\ e.msg.view = v /\ e.msg.sequence = s
    BY <2>2 DEF PrepareMsg
  <2> QED
    BY <1>1, <2>2, <2>3 DEF TookOffer
<1>3. \A n \in Nodes, t \in Seqs, slot \in SlotState :
        slots'[n][t] = slot => slots[n][t] = slot \/ SlotBacked(n, t, slot)'
  <2>1. /\ PrePreparedSlot(v).prepareVoters = {}
        /\ PrePreparedSlot(v).commitVoters = {}
        /\ PrePreparedSlot(v).phase = "PrePrepared"
    BY DEF PrePreparedSlot, NoSlot
  <2>2. \A n \in Nodes, t \in Seqs :
          \/ slots'[n][t] = slots[n][t]
          \/ slots'[n][t] = PrePreparedSlot(v)
    BY DEF WritesSlot
  <2> QED
    BY <2>1, <2>2 DEF SlotBacked
<1>4. \A n \in Nodes : Entries(n)' = Entries(n)
  BY DEF Entries, EntriesOf
<1> HIDE DEF Entries, Envelopes
<1> QED
  BY <1>2, <1>3, <1>4, BackingFrame

\* A step that sends no vote, keeps slots or empties them and logs nothing.
LEMMA BackingUntouched ==
  ASSUME TypeOK, TypeOK', SlotInv, BackingInv, Counting,
         \A j \in Nodes, s \in Seqs : SlotStep(j, s),
         UNCHANGED committed,
         \A e \in Envelopes' :
           e \in Envelopes \/ e.msg.type \notin {"Prepare", "Commit"},
         \A n \in Nodes, s \in Seqs :
           slots'[n][s] = slots[n][s] \/ slots'[n][s] = NoSlot
  PROVE  BackingInv'
<1>1. \A n \in Nodes, t \in Seqs, slot \in SlotState :
        slots'[n][t] = slot => slots[n][t] = slot \/ SlotBacked(n, t, slot)'
  BY SlotPhases DEF SlotBacked
<1>2. \A n \in Nodes : Entries(n)' = Entries(n)
  BY DEF Entries, EntriesOf
<1> HIDE DEF Entries, Envelopes
<1> QED
  BY <1>1, <1>2, BackingFrame

\* A step that writes one slot with backed votes, sends backed votes only and
\* logs only what a quorum prepared.
LEMMA VoteBacked ==
  ASSUME TypeOK, TypeOK', SlotInv, BackingInv, Counting,
         \A j \in Nodes, s \in Seqs : SlotStep(j, s),
         NEW i \in Nodes, NEW s \in Seqs, NEW slot, NEW new,
         slot = slots[i][s], WritesSlot(i, s, new),
         new.view = slot.view, slot.phase # "Idle",
         \A r \in new.prepareVoters :
           r \in slot.prepareVoters \/ (r # i /\ TookOffer(r, slot.view, s)'),
         \A r \in new.commitVoters :
           r \in slot.commitVoters \/ PreparedBy(r, slot.view, s)',
         new.phase = "Prepared" =>
           Cardinality(new.prepareVoters) >= PrepareThreshold,
         \A e \in Envelopes' :
           \/ e \in Envelopes
           \/ /\ e.msg.type = "Commit"
              /\ PreparedBy(e.msg.replica, e.msg.view, e.msg.sequence)',
         \A n \in Nodes : \A e \in Entries(n)' :
           \/ e \in Entries(n)
           \/ Cardinality(PreparedNodes(e.view, e.sequence)') >= Quorum
  PROVE  BackingInv'
<1>1. LogTypeOK /\ LogTypeOK' /\ ViewTypeOK /\ ViewTypeOK'
  BY TypeParts, PTL
<1>2. \A j \in Nodes, v \in Views, t \in Seqs :
        /\ TookOffer(j, v, t) => TookOffer(j, v, t)'
        /\ PreparedBy(j, v, t) => PreparedBy(j, v, t)'
  BY <1>1, BackingStable
<1>3. /\ slot.view \in Views
      /\ slot.prepareVoters \subseteq Nodes
      /\ slot.commitVoters \subseteq Nodes
  BY <1>1 DEF LogTypeOK, SlotState
<1>4. /\ \A r \in slot.prepareVoters : r # i /\ TookOffer(r, slot.view, s)
      /\ \A r \in slot.commitVoters : PreparedBy(r, slot.view, s)
  BY DEF BackingInv, SlotsBacked, SlotBacked
<1>5. /\ \A r \in new.prepareVoters : r # i /\ TookOffer(r, slot.view, s)'
      /\ \A r \in new.commitVoters : PreparedBy(r, slot.view, s)'
  BY <1>2, <1>3, <1>4
<1>6. SlotBacked(i, s, new)'
  BY <1>5 DEF SlotBacked
<1>7. \A n \in Nodes, t \in Seqs, x \in SlotState :
        slots'[n][t] = x => slots[n][t] = x \/ SlotBacked(n, t, x)'
  BY <1>6 DEF WritesSlot
<1> HIDE DEF Entries, Envelopes
<1> QED
  BY <1>7, BackingFrame

\* A prepare vote is counted, and a node with 2f of them is Prepared.
LEMMA PrepareBacked ==
  ASSUME TypeOK, TypeOK', SlotInv, BackingInv, Counting,
         \A j \in Nodes, s \in Seqs : SlotStep(j, s), inflight # <<>>,
         NEW i \in Nodes, NEW m \in Message,
         RecordPrepare(i, m) \/ BecomePrepared(i, m),
         m.replica # i, TookOffer(m.replica, m.view, m.sequence)
  PROVE  BackingInv'
<1>1. LogTypeOK /\ LogTypeOK' /\ ViewTypeOK /\ ViewTypeOK'
  BY TypeParts, PTL
<1>2. PICK s \in Seqs, v \in Views, r \in Nodes :
        s = m.sequence /\ v = m.view /\ r = m.replica
  BY MessageFields DEF RecordPrepare, BecomePrepared, AcceptsPrepare
<1>3. PICK slot \in SlotState : slot = slots[i][s]
  BY <1>1 DEF LogTypeOK
<1>4. slot.phase = "PrePrepared" /\ slot.view = v /\ view[i] = v
  <2>1. slot.phase = "PrePrepared" /\ view[i] = v
    BY <1>2, <1>3 DEF RecordPrepare, BecomePrepared, AcceptsPrepare
  <2>2. slot.view = view[i]
    BY <1>3, <2>1 DEF SlotInv, SlotsCurrent, Undecided
  <2> QED
    BY <2>1, <2>2
<1>5. r # i /\ TookOffer(r, v, s)'
  BY <1>1, <1>2, BackingStable
<1>6. \A n \in Nodes : Entries(n)' = Entries(n)
  BY DEF RecordPrepare, BecomePrepared, Entries, EntriesOf
<1>7. PrepareVoters(i, m) = slot.prepareVoters \cup {r}
  BY <1>2, <1>3 DEF PrepareVoters
<1>8. CASE RecordPrepare(i, m)
  <2> DEFINE new == [slot EXCEPT !.prepareVoters = PrepareVoters(i, m)]
  <2>1. slots' = [slots EXCEPT ![i][s] = new]
    BY <1>2, <1>3, <1>8 DEF RecordPrepare
  <2>2. /\ new.view = v /\ new.phase = "PrePrepared"
        /\ new.prepareVoters = slot.prepareVoters \cup {r}
        /\ new.commitVoters = slot.commitVoters
    BY <1>4, <1>7 DEF SlotState
  <2>3. Envelopes' \subseteq Envelopes
    BY <1>8, SilentSends DEF RecordPrepare
  <2> HIDE DEF new, Entries, Envelopes
  <2>4. WritesSlot(i, s, new)
    BY <1>1, <2>1, ExceptWrites
  <2> QED
    BY <1>3, <1>4, <1>5, <1>6, <2>2, <2>3, <2>4, VoteBacked
<1>9. CASE BecomePrepared(i, m)
  <2> DEFINE new == [slot EXCEPT
                       !.phase = "Prepared",
                       !.prepareVoters = PrepareVoters(i, m),
                       !.commitVoters = slot.commitVoters \cup {i}]
  <2>1. /\ slots' = [slots EXCEPT ![i][s] = new]
        /\ Cardinality(PrepareVoters(i, m)) >= PrepareThreshold
    BY <1>2, <1>3, <1>9 DEF BecomePrepared, PrepareReached
  <2>2. /\ new.view = v /\ new.phase = "Prepared"
        /\ new.prepareVoters = slot.prepareVoters \cup {r}
        /\ new.commitVoters = slot.commitVoters \cup {i}
    BY <1>4, <1>7 DEF SlotState
  <2> HIDE DEF new
  <2>3. WritesSlot(i, s, new)
    BY <1>1, <2>1, ExceptWrites
  <2>4. PreparedBy(i, v, s)'
    BY <2>2, <2>3 DEF PreparedBy, WritesSlot
  <2>5. \A e \in Envelopes' :
          \/ e \in Envelopes
          \/ /\ e.msg.type = "Commit"
             /\ PreparedBy(e.msg.replica, e.msg.view, e.msg.sequence)'
    <3> SUFFICES ASSUME NEW e \in Envelopes', e \notin Envelopes
                 PROVE  /\ e.msg.type = "Commit"
                        /\ PreparedBy(e.msg.replica, e.msg.view,
                                      e.msg.sequence)'
      OBVIOUS
    <3>1. e.msg = CommitMsg(v, s, m.digest, i)
      BY <1>2, <1>9, PreparedSends DEF SentBy
    <3>2. /\ e.msg.type = "Commit" /\ e.msg.replica = i
          /\ e.msg.view = v /\ e.msg.sequence = s
      BY <3>1 DEF CommitMsg
    <3> QED
      BY <2>4, <3>2
  <2>6. Cardinality(new.prepareVoters) >= PrepareThreshold
    BY <1>7, <2>1, <2>2
  <2>7. /\ new.view = slot.view /\ slot.phase # "Idle"
        /\ \A x \in new.prepareVoters :
             x \in slot.prepareVoters \/ (x # i /\ TookOffer(x, slot.view, s)')
        /\ \A x \in new.commitVoters :
             x \in slot.commitVoters \/ PreparedBy(x, slot.view, s)'
    BY <1>4, <1>5, <2>2, <2>4
  <2> HIDE DEF Entries, Envelopes, TookOffer, PreparedBy
  <2> QED
    BY <1>3, <1>6, <2>3, <2>5, <2>6, <2>7, VoteBacked
<1> QED
  BY <1>8, <1>9

\* A commit vote is counted, and a quorum of them commits the slot.
LEMMA CommitBacked ==
  ASSUME TypeOK, TypeOK', SlotInv, BackingInv, Counting,
         \A j \in Nodes, s \in Seqs : SlotStep(j, s), inflight # <<>>,
         NEW i \in Nodes, NEW m \in Message,
         RecordCommit(i, m) \/ BecomeCommitted(i, m),
         PreparedBy(m.replica, m.view, m.sequence)
  PROVE  BackingInv'
<1>1. LogTypeOK /\ LogTypeOK' /\ ViewTypeOK /\ ViewTypeOK'
  BY TypeParts, PTL
<1>2. PICK s \in Seqs, v \in Views, r \in Nodes :
        s = m.sequence /\ v = m.view /\ r = m.replica
  BY MessageFields DEF RecordCommit, BecomeCommitted, AcceptsCommit
<1>3. PICK slot \in SlotState : slot = slots[i][s]
  BY <1>1 DEF LogTypeOK
<1>4. slot.phase \in {"PrePrepared", "Prepared"} /\ slot.view = v /\ view[i] = v
  <2>1. slot.phase \in {"PrePrepared", "Prepared"} /\ view[i] = v
    BY <1>2, <1>3 DEF RecordCommit, BecomeCommitted, AcceptsCommit
  <2>2. slot.view = view[i]
    BY <1>3, <2>1 DEF SlotInv, SlotsCurrent, Undecided
  <2> QED
    BY <2>1, <2>2
<1>5. \A j \in Nodes : PreparedBy(j, v, s) => PreparedBy(j, v, s)'
  BY <1>1, BackingStable
<1>6. PreparedBy(r, v, s)'
  BY <1>2, <1>5
<1>7. CommitVoters(i, m) = slot.commitVoters \cup {r}
  BY <1>2, <1>3 DEF CommitVoters
<1>8. Envelopes' \subseteq Envelopes
  BY SilentSends DEF RecordCommit, BecomeCommitted
<1>9. /\ slot.phase = "Prepared" =>
           Cardinality(slot.prepareVoters) >= PrepareThreshold
      /\ \A j \in slot.commitVoters : PreparedBy(j, v, s)
      /\ slot.commitVoters \subseteq Nodes
  BY <1>3, <1>4 DEF BackingInv, SlotsBacked, SlotBacked, SlotState
<1>10. CASE RecordCommit(i, m)
  <2> DEFINE new == [slot EXCEPT !.commitVoters = CommitVoters(i, m)]
  <2>1. slots' = [slots EXCEPT ![i][s] = new]
    BY <1>2, <1>3, <1>10 DEF RecordCommit
  <2>2. /\ new.view = v /\ new.phase = slot.phase
        /\ new.prepareVoters = slot.prepareVoters
        /\ new.commitVoters = slot.commitVoters \cup {r}
    BY <1>4, <1>7 DEF SlotState
  <2>3. \A n \in Nodes : Entries(n)' = Entries(n)
    BY <1>10 DEF RecordCommit, Entries, EntriesOf
  <2> HIDE DEF new, Entries, Envelopes
  <2>4. WritesSlot(i, s, new)
    BY <1>1, <2>1, ExceptWrites
  <2> QED
    BY <1>3, <1>4, <1>6, <1>8, <1>9, <2>2, <2>3, <2>4, VoteBacked
<1>11. CASE BecomeCommitted(i, m)
  <2> DEFINE new == [slot EXCEPT !.phase = "Committed",
                                 !.commitVoters = CommitVoters(i, m)]
  <2>1. /\ slots' = [slots EXCEPT ![i][s] = new]
        /\ Cardinality(CommitVoters(i, m)) >= Quorum
    BY <1>2, <1>3, <1>11 DEF BecomeCommitted, CommitReached
  <2>2. /\ new.view = v /\ new.phase = "Committed"
        /\ new.prepareVoters = slot.prepareVoters
        /\ new.commitVoters = slot.commitVoters \cup {r}
    BY <1>4, <1>7 DEF SlotState
  <2> HIDE DEF new
  <2>3. WritesSlot(i, s, new)
    BY <1>1, <2>1, ExceptWrites
  <2>4. Cardinality(PreparedNodes(v, s)') >= Quorum
    <3>1. /\ CommitVoters(i, m) \subseteq PreparedNodes(v, s)'
          /\ PreparedNodes(v, s)' \subseteq Nodes
      BY <1>5, <1>6, <1>7, <1>9 DEF PreparedNodes
    <3> HIDE DEF PreparedNodes
    <3> QED
      BY <2>1, <3>1, SubsetCounts, QuorumIsNat
  <2>5. \A n \in Nodes : \A e \in Entries(n)' :
          \/ e \in Entries(n)
          \/ Cardinality(PreparedNodes(e.view, e.sequence)') >= Quorum
    <3>1. CASE UNCHANGED committed
      BY <3>1 DEF Entries, EntriesOf
    <3>2. CASE \E e : e.sequence = m.sequence /\ Decides(i, e)
      <4>1. PICK e : e.sequence = m.sequence /\ Decides(i, e)
        BY <3>2
      <4>2. e.sequence = s /\ e.view = v
        BY <1>2, <1>4, <4>1 DEF Decides
      <4>3. \A n \in Nodes : \A x \in Entries(n)' : x \in Entries(n) \/ x = e
        <5>1. /\ Entries(i)' = Entries(i) \cup {e}
              /\ \A n \in Nodes \ {i} : Entries(n)' = Entries(n)
          BY <1>1, <4>1, DecidesEntries
        <5> HIDE DEF Entries
        <5> QED
          BY <5>1
      <4> HIDE DEF Entries
      <4> QED
        BY <2>4, <4>2, <4>3
    <3> QED
      BY <1>11, <3>1, <3>2, CommitDecides
  <2> HIDE DEF Entries, Envelopes
  <2> QED
    BY <1>3, <1>4, <1>6, <1>8, <1>9, <2>2, <2>3, <2>5, VoteBacked
<1> QED
  BY <1>10, <1>11

LEMMA DeliverBacked ==
  ASSUME TypeOK, TypeOK', SlotInv, BackingInv, Counting,
         \A j \in Nodes, s \in Seqs : SlotStep(j, s), DeliverMessage
  PROVE  BackingInv'
<1> DEFINE e == Head(inflight)
           i == e.to
           m == Tampered(e)
<1>1. /\ HandleMessage(i, m) /\ inflight # <<>>
      /\ e \in EnvelopeType /\ i \in Nodes /\ m \in Message
  BY DeliveredType, TypeParts DEF DeliverMessage
<1>2. e \in Envelopes
  BY <1>1, HeadTailRange, TypeParts DEF NetTypeOK, Envelopes
<1>3. m.type = e.msg.type
  BY <1>1, TamperedKind
<1>4. m.type \in {"Prepare", "Commit"} =>
        /\ m.view = e.msg.view /\ m.sequence = e.msg.sequence
        /\ m.replica = e.msg.replica
  BY <1>1, <1>3, TamperedVote
<1>5. m.type = "Prepare" =>
        m.replica # i /\ TookOffer(m.replica, m.view, m.sequence)
  BY <1>2, <1>3, <1>4 DEF BackingInv, PreparesBacked
<1>6. m.type = "Commit" => PreparedBy(m.replica, m.view, m.sequence)
  BY <1>2, <1>3, <1>4 DEF BackingInv, CommitsBacked
<1> HIDE DEF e, i, m
<1>7. CASE HandlePrePrepare(i, m)
  <2>1. /\ m.view = view[i] /\ m.sequence \in Seqs
        /\ WritesSlot(i, m.sequence, PrePreparedSlot(view[i]))
        /\ UNCHANGED view
    BY <1>1, <1>7, PrePrepareWrites
  <2>2. PICK v \in Views, s \in Seqs : v = m.view /\ s = m.sequence
    BY <1>1, <2>1, TypeParts DEF ViewTypeOK
  <2>3. WritesSlot(i, s, PrePreparedSlot(v)) /\ UNCHANGED <<view, committed>>
    BY <1>7, <2>1, <2>2 DEF HandlePrePrepare
  <2>4. \A x \in Envelopes' :
          \/ x \in Envelopes
          \/ \E d : SentBy(x, i, PrepareMsg(v, s, d, i))
    BY <1>1, <1>7, <2>2, PrePrepareSends
  <2> QED
    BY <1>1, <2>3, <2>4, TakenBacked
<1>8. CASE RecordPrepare(i, m) \/ BecomePrepared(i, m)
  <2>1. m.type = "Prepare"
    BY <1>8 DEF RecordPrepare, BecomePrepared, AcceptsPrepare
  <2> QED
    BY <1>1, <1>5, <1>8, <2>1, PrepareBacked
<1>9. CASE RecordCommit(i, m) \/ BecomeCommitted(i, m)
  <2>1. m.type = "Commit"
    BY <1>9 DEF RecordCommit, BecomeCommitted, AcceptsCommit
  <2> QED
    BY <1>1, <1>6, <1>9, <2>1, CommitBacked
<1>10. CASE JoinViewChange(i, m) \/ BecomePrimary(i, m)
            \/ HandleNewView(i, m) \/ Discard(i, m)
  <2>1. UNCHANGED committed
    BY <1>10 DEF JoinViewChange, BecomePrimary, HandleNewView, Discard,
                 nodeVars, logVars
  <2>2. \A x \in Envelopes' :
          x \in Envelopes \/ x.msg.type \notin {"Prepare", "Commit"}
    <3>1. \A w, next, last : /\ ViewChangeMsg(w, i, last).type = "ViewChange"
                             /\ NewViewMsg(w, next).type = "NewView"
      BY DEF ViewChangeMsg, NewViewMsg
    <3>2. CASE JoinViewChange(i, m)
      BY <1>1, <3>1, <3>2, JoinViewChangeSends DEF SentBy
    <3>3. CASE BecomePrimary(i, m)
      BY <1>1, <3>1, <3>3, BecomePrimarySends DEF SentBy
    <3>4. CASE HandleNewView(i, m) \/ Discard(i, m)
      BY <1>1, <3>4, SilentSends DEF HandleNewView, Discard
    <3> QED
      BY <1>10, <3>2, <3>3, <3>4
  <2>3. \A n \in Nodes, s \in Seqs :
          slots'[n][s] = slots[n][s] \/ slots'[n][s] = NoSlot
    <3>1. CASE JoinViewChange(i, m) \/ Discard(i, m)
      BY <3>1 DEF JoinViewChange, Discard, nodeVars, logVars
    <3>2. CASE BecomePrimary(i, m) \/ HandleNewView(i, m)
      <4>1. \E v \in Views : \E next : v > view[i] /\ EnterNewView(i, v, next)
        BY <1>1, <3>2, MessageFields
           DEF BecomePrimary, HandleNewView, AcceptsViewChange, AcceptsNewView
      <4>2. PICK v \in Views : \E next : v > view[i] /\ EnterNewView(i, v, next)
        BY <4>1
      <4> QED
        BY <1>1, <4>2, EnterWrites
    <3> QED
      BY <1>10, <3>1, <3>2
  <2> QED
    BY <2>1, <2>2, <2>3, BackingUntouched
<1> QED
  BY <1>1, <1>7, <1>8, <1>9, <1>10 DEF HandleMessage

LEMMA BackingStep ==
  ASSUME TypeInv, TypeOK', SlotInv, BackingInv, Counting,
         \A j \in Nodes, s \in Seqs : SlotStep(j, s), [Next]_vars
  PROVE  BackingInv'
<1>1. TypeOK /\ ViewTypeOK
  BY TypeParts DEF TypeInv
<1>2. ASSUME NEW p \in Payloads, ProposeAccepted(p)
      PROVE  BackingInv'
  <2>1. PICK j \in Nodes : \E w \in Views, t \in Seqs :
           /\ w = view[j] /\ t = nextSequence[j]
           /\ Assign(j, <<p, 0>>)
           /\ \A e \in Envelopes' :
                \/ e \in Envelopes
                \/ SentBy(e, j, PrePrepareMsg(w, t, <<p, 0>>))
                \/ SentBy(e, j, PrepareMsg(w, t, DigestOf(<<p, 0>>), j))
    BY <1>1, <1>2, ProposeSends
  <2>2. PICK w \in Views, t \in Seqs :
           /\ w = view[j] /\ t = nextSequence[j]
           /\ Assign(j, <<p, 0>>)
           /\ \A e \in Envelopes' :
                \/ e \in Envelopes
                \/ SentBy(e, j, PrePrepareMsg(w, t, <<p, 0>>))
                \/ SentBy(e, j, PrepareMsg(w, t, DigestOf(<<p, 0>>), j))
    BY <2>1
  <2>3. slots' = [slots EXCEPT ![j][t] = PrePreparedSlot(w)]
    BY <2>2 DEF Assign
  <2>4. WritesSlot(j, t, PrePreparedSlot(w))
    BY <1>1, <2>3, ExceptWrites, TypeParts
  <2>5. UNCHANGED <<view, committed>>
    BY <1>2 DEF ProposeAccepted
  <2>6. \A e \in Envelopes' :
          \/ e \in Envelopes
          \/ e.msg.type = "PrePrepare"
          \/ \E d : SentBy(e, j, PrepareMsg(w, t, d, j))
    <3>1. \A e : SentBy(e, j, PrePrepareMsg(w, t, <<p, 0>>))
                   => e.msg.type = "PrePrepare"
      BY MessageKinds DEF SentBy
    <3> QED
      BY <2>2, <3>1
  <2> QED
    BY <1>1, <2>4, <2>5, <2>6, TakenBacked
<1>3. CASE DeliverMessage
  BY <1>1, <1>3, DeliverBacked
<1>4. CASE Tick
  <2>1. UNCHANGED <<slots, committed>>
    BY <1>4 DEF Tick, TickQuiet, TickCountdown, TickTimeout, nodeVars, logVars
  <2>2. PICK i \in Nodes : TickQuiet(i) \/ TickCountdown(i) \/ TickTimeout(i)
    BY <1>4 DEF Tick
  <2>3. \A e \in Envelopes' :
          e \in Envelopes \/ e.msg.type \notin {"Prepare", "Commit"}
    <3>1. \A w, last : ViewChangeMsg(w, i, last).type = "ViewChange"
      BY DEF ViewChangeMsg
    <3> QED
      BY <1>4, <2>2, <3>1, TickSends DEF SentBy
  <2> QED
    BY <1>1, <2>1, <2>3, BackingUntouched
<1>5. CASE \/ BeginStep \/ LoseMessage \/ ChangeFaults \/ UNCHANGED vars
           \/ \E p \in Payloads : ProposeRejected(p)
  <2>1. Envelopes' \subseteq Envelopes /\ UNCHANGED <<slots, committed>>
    BY <1>1, <1>5, ClusterSends DEF nodeVars
  <2> QED
    BY <1>1, <2>1, BackingUntouched
<1> QED
  BY <1>2, <1>3, <1>4, <1>5 DEF Next

LEMMA InitBacking == Init => BackingInv
<1> SUFFICES ASSUME Init PROVE BackingInv
  OBVIOUS
<1>1. Envelopes = {}
  BY EmptyRange DEF Init, ClusterInit, Envelopes
<1>2. \A n \in Nodes : Entries(n) = {}
  BY DEF Init, Entries, EntriesOf
<1>3. \A n \in Nodes, s \in Seqs : slots[n][s].phase = "Idle"
  BY SlotPhases DEF Init
<1> QED
  BY <1>1, <1>2, <1>3
     DEF BackingInv, PreparesBacked, CommitsBacked, SlotsBacked, SlotBacked,
         CommitBackedByPrepared

QuorumInv == SafeInv /\ BackingInv

LEMMA QuorumStep == QuorumInv /\ [Next]_vars => QuorumInv'
<1> SUFFICES ASSUME QuorumInv, [Next]_vars, SafeInv', TypeOK'
             PROVE  QuorumInv'
  BY SafeStep DEF QuorumInv, SafeInv, TypeInv
<1>1. TypeInv /\ ClaimInv /\ SlotInv /\ OfferInv /\ BackingInv
  BY DEF QuorumInv, SafeInv
<1>2. Counting /\ \A j \in Nodes, s \in Seqs : SlotStep(j, s)
  BY <1>1, SlotSteps
<1>3. BackingInv'
  BY <1>1, <1>2, BackingStep
<1> QED
  BY <1>3 DEF QuorumInv

\* A quorum of nodes was Prepared in the view of every committed entry, for
\* every number of nodes and whatever is lost, withheld or tampered with.
THEOREM CommitsBackedByQuorum == Spec => []CommitBackedByPrepared
<1>1. Init => QuorumInv
  BY InitSafe, InitBacking DEF QuorumInv
<1>2. QuorumInv => CommitBackedByPrepared
  BY DEF QuorumInv, BackingInv
<1> QED
  BY <1>1, <1>2, QuorumStep, PTL DEF Spec

\* 2f prepare votes and the node itself are 2f + 1 nodes that took the slot.
LEMMA PreparedQuorum == QuorumInv => PreparedBackedByPrePrepared
<1> SUFFICES ASSUME TypeOK, BackingInv, NEW i \in Nodes, NEW s \in Seqs,
                    NEW v, v = slots[i][s].view, slots[i][s].phase = "Prepared"
             PROVE  Cardinality({j \in Nodes :
                      \/ view[j] > v
                      \/ slots[j][s].view = v /\ slots[j][s].phase # "Idle"})
                        >= Quorum
  BY DEF PreparedBackedByPrePrepared, QuorumInv, SafeInv, TypeInv
<1> DEFINE takers == {j \in Nodes : TookOffer(j, v, s)}
           voters == slots[i][s].prepareVoters
<1>1. /\ \A r \in voters : r # i /\ TookOffer(r, v, s)
      /\ Cardinality(voters) >= PrepareThreshold
      /\ voters \subseteq Nodes
  BY TypeParts DEF BackingInv, SlotsBacked, SlotBacked, LogTypeOK, SlotState
<1>2. TookOffer(i, v, s)
  BY DEF TookOffer, HasSlot
<1>3. voters \cup {i} \subseteq takers /\ takers \subseteq Nodes /\ i \notin voters
  BY <1>1, <1>2
<1>4. takers = {j \in Nodes :
                  \/ view[j] > v
                  \/ slots[j][s].view = v /\ slots[j][s].phase # "Idle"}
  BY DEF TookOffer, HasSlot
<1> HIDE DEF takers, voters
<1>5. Cardinality(voters \cup {i}) = Cardinality(voters) + 1
  BY <1>1, <1>3, SubsetCounts, FS_AddElement
<1>6. Cardinality(voters \cup {i}) <= Cardinality(takers)
  BY <1>3, SubsetCounts
<1>7. Cardinality(voters) \in Nat /\ Cardinality(takers) \in Nat
  BY <1>1, <1>3, SubsetCounts
<1>8. PrepareThreshold \in Nat /\ Quorum = PrepareThreshold + 1
  BY SizeAssumption DEF PrepareThreshold, Quorum, F
<1>9. Cardinality(takers) >= Quorum
  BY <1>1, <1>5, <1>6, <1>7, <1>8
<1> QED
  BY <1>4, <1>9

\* A node becomes Prepared only where a quorum took the slot.
THEOREM PreparedBackedByQuorum == Spec => []PreparedBackedByPrePrepared
<1>1. Init => QuorumInv
  BY InitSafe, InitBacking DEF QuorumInv
<1> QED
  BY <1>1, PreparedQuorum, QuorumStep, PTL DEF Spec

\* Where no primary equivocates, honest nodes commit only what clients sent.
THEOREM CommitsValid ==
  ASSUME \A v \in Views : Primary(v) \in NeverEquivocates
  PROVE  Spec => []Validity
<1>1. SafeInv => Validity
  <2> SUFFICES ASSUME TypeOK, ClaimInv,
                      NEW i \in Nodes, NEW e \in Entries(i)
               PROVE  e.payload \in Proposed
    BY DEF Validity, CheckValidity, SafeInv, TypeInv, HonestNodes, Entries
  <2>1. e \in CommittedEntry
    BY TypeParts, ElementOfSeq, LenProperties
       DEF LogTypeOK, Entries, EntriesOf
  <2>2. /\ e.view \in Views /\ e.sequence \in Seqs /\ e.payload \in Payload
        /\ Primary(e.view) \in NeverEquivocates
    BY <2>1 DEF CommittedEntry
  <2>3. Claimed(e.view, e.sequence, e.payload)
    BY DEF Claimed, Logged
  <2> QED
    BY <2>2, <2>3 DEF ClaimInv, ClaimsProposed
<1> QED
  BY <1>1, InitSafe, SafeStep, PTL DEF Spec

-----------------------------------------------------------------------------
(***************************************************************************)
(* The order of the commits of a view, where the cluster tolerates a fault *)
(* at all (F > 0; a lone prepare vote would do otherwise, and the primary  *)
(* sends its own together with the pre-prepare).  A number goes through    *)
(* three rounds of messages, each an answer to the one before, and numbers *)
(* start in increasing order: on the queue a lower number is always ahead, *)
(* by a round when its message comes later.  So no commit vote arrives     *)
(* while prepare votes of its slot are awaited, and nothing about a lower  *)
(* number is left under way when a node commits.                           *)
(***************************************************************************)
AboutSlot(m) == m.type \in {"PrePrepare", "Prepare", "Commit"}

\* The round of a message; the primary votes along with its pre-prepare.
Stage(m) ==
    CASE m.type = "PrePrepare" -> 0
      [] m.type = "Prepare" -> IF m.replica = Primary(m.view) THEN 0 ELSE 1
      [] m.type = "Commit" -> 2

\* Message m may be delivered before message x.
InOrder(m, x) ==
    AboutSlot(m) /\ AboutSlot(x) /\ m.view = x.view =>
        /\ m.sequence < x.sequence => Stage(x) <= Stage(m)
        /\ m.sequence > x.sequence => Stage(m) < Stage(x)
        /\ m.sequence = x.sequence => Stage(x) \in {Stage(m), Stage(m) + 1}

Ordered(q) == \A k, l \in 1 .. Len(q) : k < l => InOrder(q[k].msg, q[l].msg)

MessagesNumbered ==
    \A e \in Envelopes :
        AboutSlot(e.msg) => Numbered(e.msg.view, e.msg.sequence)

\* Pre-prepares go to the backups.
OffersOut == \A e \in Envelopes : Offer(e) => e.to # Primary(e.msg.view)

\* Once a slot holds the prepare vote of a backup, its first round is over;
\* once it holds a commit vote and still awaits prepare votes, its second is.
PassedBy(slot, s, m) ==
    /\ slot.phase # "Idle"
    /\ AboutSlot(m)
    /\ m.view = slot.view
    /\ m.sequence = s
    => /\ ~(slot.prepareVoters \subseteq {Primary(slot.view)}) => Stage(m) > 0
       /\ slot.phase = "PrePrepared" /\ slot.commitVoters # {} => Stage(m) > 1

VotesPassed ==
    \A j \in Nodes : \A s \in Seqs : \A e \in Envelopes :
        PassedBy(slots[j][s], s, e.msg)

\* Nothing about the numbers below an entry of a node is still under way.
EntriesPassed ==
    \A i \in Nodes : \A x \in Entries(i) : \A e \in Envelopes :
        ~ /\ AboutSlot(e.msg)
          /\ e.msg.view = x.view
          /\ e.msg.sequence < x.sequence

\* What NoStuckQuorum says of one slot.
NotStuck(slot) ==
    Cardinality(slot.commitVoters) >= Quorum => slot.phase = "Committed"

OrderInv ==
    /\ Ordered(Queue)
    /\ MessagesNumbered
    /\ OffersOut
    /\ VotesPassed
    /\ EntriesPassed
    /\ PerViewOrder
    /\ NoStuckQuorum

LEMMA SlotMessageFields ==
  ASSUME NEW m \in Message, AboutSlot(m)
  PROVE  m.view \in Views /\ m.sequence \in Seqs /\ Stage(m) \in 0 .. 2
<1>1. m.view \in Views /\ m.sequence \in Seqs
  BY MessageFields DEF AboutSlot
<1>2. Stage(m) \in 0 .. 2
  BY DEF AboutSlot, Stage
<1> QED
  BY <1>1, <1>2

\* What is under way about a slot.
LEMMA SlotEnvelopeFields ==
  ASSUME NetTypeOK, NEW e \in Envelopes, AboutSlot(e.msg)
  PROVE  /\ e.msg.view \in Views /\ e.msg.sequence \in Seqs
         /\ Stage(e.msg) \in 0 .. 2
<1>1. e.msg \in Message
  BY EnvelopeFields
<1> QED
  BY <1>1, SlotMessageFields

\* Taking the first message off the queue.
LEMMA TailOrdered ==
  ASSUME NEW q \in Seq(EnvelopeType), q # <<>>, Ordered(q)
  PROVE  /\ Ordered(Tail(q))
         /\ \A e \in Range(Tail(q)) : InOrder(q[1].msg, e.msg)
<1>1. /\ Len(q) \in Nat /\ Len(q) >= 1
      /\ Tail(q) \in Seq(EnvelopeType)
      /\ Len(Tail(q)) = Len(q) - 1
      /\ \A k \in 1 .. Len(Tail(q)) : Tail(q)[k] = q[k + 1]
  BY HeadTailProperties, LenProperties
<1>2. Ordered(Tail(q))
  <2> SUFFICES ASSUME NEW k \in 1 .. Len(Tail(q)), NEW l \in 1 .. Len(Tail(q)),
                      k < l
               PROVE  InOrder(Tail(q)[k].msg, Tail(q)[l].msg)
    BY DEF Ordered
  <2>1. /\ Tail(q)[k] = q[k + 1] /\ Tail(q)[l] = q[l + 1]
        /\ k + 1 \in 1 .. Len(q) /\ l + 1 \in 1 .. Len(q) /\ k + 1 < l + 1
    BY <1>1
  <2> QED
    BY <2>1 DEF Ordered
<1>3. ASSUME NEW e \in Range(Tail(q))
      PROVE  InOrder(q[1].msg, e.msg)
  <2>1. Range(Tail(q)) = {Tail(q)[k] : k \in 1 .. Len(Tail(q))}
    BY <1>1, RangeEquality
  <2>2. PICK k \in 1 .. Len(Tail(q)) : Tail(q)[k] = e
    BY <2>1
  <2>3. e = q[k + 1] /\ k + 1 \in 1 .. Len(q) /\ 1 \in 1 .. Len(q) /\ 1 < k + 1
    BY <1>1, <2>2
  <2> QED
    BY <2>3 DEF Ordered
<1> QED
  BY <1>2, <1>3

\* Adding messages in order.
LEMMA ConcatOrdered ==
  ASSUME NEW q \in Seq(EnvelopeType), NEW out \in Seq(EnvelopeType),
         Ordered(q), Ordered(out),
         \A d \in Range(q), e \in Range(out) : InOrder(d.msg, e.msg)
  PROVE  Ordered(q \o out)
<1>1. /\ Len(q) \in Nat /\ Len(out) \in Nat
      /\ Len(q \o out) = Len(q) + Len(out)
      /\ \A k \in 1 .. Len(q) + Len(out) :
           (q \o out)[k] = IF k <= Len(q) THEN q[k] ELSE out[k - Len(q)]
  BY ConcatProperties, LenProperties
<1>2. /\ Range(q) = {q[k] : k \in 1 .. Len(q)}
      /\ Range(out) = {out[k] : k \in 1 .. Len(out)}
  BY RangeEquality
<1> SUFFICES ASSUME NEW k \in 1 .. Len(q \o out), NEW l \in 1 .. Len(q \o out),
                    k < l
             PROVE  InOrder((q \o out)[k].msg, (q \o out)[l].msg)
  BY DEF Ordered
<1>3. CASE l <= Len(q)
  <2>1. /\ (q \o out)[k] = q[k] /\ (q \o out)[l] = q[l]
        /\ k \in 1 .. Len(q) /\ l \in 1 .. Len(q)
    BY <1>1, <1>3
  <2> QED
    BY <2>1 DEF Ordered
<1>4. CASE k > Len(q)
  <2>1. /\ (q \o out)[k] = out[k - Len(q)] /\ (q \o out)[l] = out[l - Len(q)]
        /\ k - Len(q) \in 1 .. Len(out) /\ l - Len(q) \in 1 .. Len(out)
        /\ k - Len(q) < l - Len(q)
    BY <1>1, <1>4
  <2> QED
    BY <2>1 DEF Ordered
<1>5. CASE k <= Len(q) /\ l > Len(q)
  <2>1. (q \o out)[k] \in Range(q) /\ (q \o out)[l] \in Range(out)
    BY <1>1, <1>2, <1>5
  <2> QED
    BY <2>1
<1> QED
  BY <1>1, <1>3, <1>4, <1>5

\* Messages all about one slot, in one round, or about none are in order.
SameRound(m, x) ==
    AboutSlot(m) /\ AboutSlot(x) =>
        /\ m.sequence = x.sequence /\ m.sequence \in Nat
        /\ Stage(m) = Stage(x) /\ Stage(m) \in Nat

LEMMA OneSlotOrdered ==
  ASSUME NEW out \in Seq(EnvelopeType),
         \A d, e \in Range(out) : SameRound(d.msg, e.msg)
  PROVE  Ordered(out)
<1>1. \A k \in 1 .. Len(out) : out[k] \in Range(out)
  BY RangeEquality
<1>2. \A d, e \in Range(out) : InOrder(d.msg, e.msg)
  BY DEF InOrder, SameRound
<1> QED
  BY <1>1, <1>2 DEF Ordered

\* Message x answers message m: it is about the same slot, a round on.
Answers(x, m) ==
    /\ x.view = m.view
    /\ x.sequence = m.sequence
    /\ Stage(x) = Stage(m) + 1

\* What answers the first message of the queue is in order behind the rest.
LEMMA AnswerInOrder ==
  ASSUME NEW m \in Message, NEW y \in Message, NEW x \in Message,
         AboutSlot(m), AboutSlot(x), Answers(x, m), InOrder(m, y)
  PROVE  InOrder(y, x)
<1> SUFFICES ASSUME AboutSlot(y), y.view = x.view
             PROVE  /\ y.sequence < x.sequence => Stage(x) <= Stage(y)
                    /\ y.sequence > x.sequence => Stage(y) < Stage(x)
                    /\ y.sequence = x.sequence
                         => Stage(x) \in {Stage(y), Stage(y) + 1}
  BY DEF InOrder
<1>1. /\ m.sequence \in Nat /\ y.sequence \in Nat
      /\ Stage(m) \in Nat /\ Stage(y) \in Nat
  BY SlotMessageFields DEF Seqs
<1>2. /\ x.view = m.view /\ x.sequence = m.sequence
      /\ Stage(x) = Stage(m) + 1
  BY DEF Answers
<1>3. /\ m.sequence < y.sequence => Stage(y) <= Stage(m)
      /\ m.sequence > y.sequence => Stage(m) < Stage(y)
      /\ m.sequence = y.sequence => Stage(y) \in {Stage(m), Stage(m) + 1}
  BY <1>2 DEF InOrder
<1> QED
  BY <1>1, <1>2, <1>3

\* Tampering leaves the slot and the round of a message alone.
LEMMA TamperedStage ==
  ASSUME NEW e \in EnvelopeType
  PROVE  LET m == Tampered(e) IN
         /\ m.type = e.msg.type
         /\ AboutSlot(e.msg) => /\ m.view = e.msg.view
                                /\ m.sequence = e.msg.sequence
                                /\ Stage(m) = Stage(e.msg)
<1>1. e.msg \in Message
  BY DEF EnvelopeType
<1>2. CASE e.msg.type = "PrePrepare"
  BY <1>1, <1>2 DEF Tampered, Equivocated, Corrupted, Message, Stage
<1>3. CASE e.msg.type \in {"Prepare", "Commit"}
  <2>1. Tampered(e).type = e.msg.type
    BY TamperedKind
  <2> QED
    BY <1>3, <2>1, TamperedVote DEF Stage
<1>4. CASE ~AboutSlot(e.msg)
  BY <1>4, TamperedKind
<1> QED
  BY <1>2, <1>3, <1>4 DEF AboutSlot
\* The votes a slot holds after a vote: none is counted out of turn.
LEMMA VotesOnSlot ==
  ASSUME F > 0, TypeOK, SlotInv, NEW i \in Nodes, NEW m \in Message,
         \/ RecordPrepare(i, m) \/ BecomePrepared(i, m)
         \/ RecordCommit(i, m) \/ BecomeCommitted(i, m),
         PassedBy(slots[i][m.sequence], m.sequence, m),
         NotStuck(slots[i][m.sequence]),
         NEW slot, slot = slots[i][m.sequence],
         NEW new, new = slots'[i][m.sequence]
  PROVE  /\ AboutSlot(m) /\ m.view = slot.view
         /\ NotStuck(new)
         /\ BecomePrepared(i, m) => Stage(m) = 1
         /\ \A x \in Message :
              /\ PassedBy(slot, m.sequence, x)
              /\ AboutSlot(x) /\ x.view = m.view /\ x.sequence = m.sequence
                   => Stage(m) <= Stage(x)
              => PassedBy(new, m.sequence, x)
<1> DEFINE s == m.sequence
<1>1. /\ s \in Seqs /\ Undecided(slot)
      /\ WritesSlot(i, s, new)
      /\ LogTypeOK
  BY VoteWrites, TypeParts
<1>2. slot \in SlotState /\ m.view = view[i] /\ m.view = slot.view
  <2>1. slot \in SlotState
    BY <1>1 DEF LogTypeOK
  <2>2. m.view = view[i]
    BY DEF RecordPrepare, BecomePrepared, RecordCommit, BecomeCommitted,
           AcceptsPrepare, AcceptsCommit
  <2> QED
    BY <1>1, <2>1, <2>2 DEF SlotInv, SlotsCurrent
<1>3. F \in Nat /\ PrepareThreshold = 2 * F /\ Quorum = 2 * F + 1
  BY SizeAssumption DEF F, PrepareThreshold, Quorum
<1>4. \A x \in Message : AboutSlot(x) => Stage(x) \in 0 .. 2
  BY SlotMessageFields
<1>5. CASE RecordPrepare(i, m) \/ BecomePrepared(i, m)
  <2> DEFINE voters == slot.prepareVoters \cup {m.replica}
  <2>1. /\ m.type = "Prepare" /\ slot.phase = "PrePrepared"
        /\ m.replica \in Nodes
    BY <1>5, MessageFields DEF RecordPrepare, BecomePrepared, AcceptsPrepare
  <2>2. /\ AboutSlot(m)
        /\ Stage(m) = IF m.replica = Primary(slot.view) THEN 0 ELSE 1
    BY <1>2, <2>1 DEF AboutSlot, Stage
  <2>3. ~(voters \subseteq {Primary(slot.view)}) => Stage(m) = 1
    <3>1. ~(slot.prepareVoters \subseteq {Primary(slot.view)}) => Stage(m) > 0
      BY <1>2, <2>1, <2>2 DEF PassedBy
    <3> QED
      BY <2>2, <3>1
  <2>4. slot.commitVoters = {}
    BY <1>2, <2>1, <2>2 DEF PassedBy
  <2>5. CASE RecordPrepare(i, m)
    <3>1. new = [slot EXCEPT !.prepareVoters = voters]
      <4>1. slots' = [slots EXCEPT ![i][s] =
                        [slot EXCEPT !.prepareVoters = voters]]
        BY <2>5 DEF RecordPrepare, PrepareVoters
      <4> HIDE DEF s, voters
      <4>2. WritesSlot(i, s, [slot EXCEPT !.prepareVoters = voters])
        BY <1>1, <4>1, ExceptWrites
      <4> QED
        BY <4>2 DEF WritesSlot, s
    <3>2. /\ new.view = slot.view /\ new.phase = slot.phase
          /\ new.prepareVoters = voters
          /\ new.commitVoters = slot.commitVoters
      BY <1>2, <3>1 DEF SlotState
    <3>3. NotStuck(new)
      BY <3>2 DEF NotStuck
    <3>4. ASSUME NEW x \in Message, PassedBy(slot, s, x),
                 AboutSlot(x) /\ x.view = m.view /\ x.sequence = s
                   => Stage(m) <= Stage(x)
          PROVE  PassedBy(new, s, x)
      BY <1>2, <1>4, <2>1, <2>3, <2>4, <3>2, <3>4 DEF PassedBy
    <3>5. ~BecomePrepared(i, m)
      BY <2>5 DEF RecordPrepare, BecomePrepared
    <3> QED
      BY <1>2, <2>2, <3>3, <3>4, <3>5
  <2>6. CASE BecomePrepared(i, m)
    <3> DEFINE prepared == [slot EXCEPT !.phase = "Prepared",
                                        !.prepareVoters = voters,
                                        !.commitVoters =
                                            slot.commitVoters \cup {i}]
    <3>1. new = prepared
      <4>1. slots' = [slots EXCEPT ![i][s] = prepared]
        BY <2>6 DEF BecomePrepared, PrepareVoters
      <4> HIDE DEF s, prepared
      <4>2. WritesSlot(i, s, prepared)
        BY <1>1, <4>1, ExceptWrites
      <4> QED
        BY <4>2 DEF WritesSlot, s
    <3>2. /\ new.view = slot.view /\ new.phase = "Prepared"
          /\ new.prepareVoters = voters
          /\ new.commitVoters = {i}
      BY <1>2, <2>4, <3>1 DEF SlotState
    <3>3. Cardinality(voters) >= 2 * F
      BY <1>3, <2>6 DEF BecomePrepared, PrepareReached, PrepareVoters
    <3>4. ~(voters \subseteq {Primary(slot.view)})
      <4>1. Cardinality({Primary(slot.view)}) = 1
            /\ IsFiniteSet({Primary(slot.view)})
        BY FS_Singleton
      <4>2. voters \subseteq {Primary(slot.view)} => Cardinality(voters) <= 1
        <5> SUFFICES ASSUME voters \subseteq {Primary(slot.view)}
                     PROVE  Cardinality(voters) <= 1
          OBVIOUS
        <5> QED
          BY <4>1, FS_Subset
      <4>3. voters \subseteq Nodes
        BY <1>2, <2>1 DEF SlotState
      <4> HIDE DEF voters
      <4>4. Cardinality(voters) \in Nat
        BY <4>3, SubsetCounts
      <4> QED
        BY <1>3, <3>3, <4>2, <4>4
    <3>5. Stage(m) = 1
      BY <2>3, <3>4
    <3>6. NotStuck(new)
      <4>1. Cardinality({i}) = 1
        BY FS_Singleton
      <4> QED
        BY <1>3, <3>2, <4>1 DEF NotStuck
    <3>7. ASSUME NEW x \in Message, PassedBy(slot, s, x),
                 AboutSlot(x) /\ x.view = m.view /\ x.sequence = s
                   => Stage(m) <= Stage(x)
          PROVE  PassedBy(new, s, x)
      BY <1>2, <1>4, <3>2, <3>5, <3>7 DEF PassedBy
    <3> QED
      BY <1>2, <2>2, <3>5, <3>6, <3>7
  <2> QED
    BY <1>5, <2>5, <2>6
<1>6. CASE RecordCommit(i, m) \/ BecomeCommitted(i, m)
  <2> DEFINE voters == slot.commitVoters \cup {m.replica}
  <2>1. m.type = "Commit"
    BY <1>6 DEF RecordCommit, BecomeCommitted, AcceptsCommit
  <2>2. AboutSlot(m) /\ Stage(m) = 2
    BY <2>1 DEF AboutSlot, Stage
  <2>3. ~BecomePrepared(i, m)
    BY <2>1 DEF BecomePrepared, AcceptsPrepare
  <2>4. /\ new.view = slot.view
        /\ new.phase = "Committed" \/ ~(Cardinality(new.commitVoters) >= Quorum)
    <3>1. CASE RecordCommit(i, m)
      <4>1. slots' = [slots EXCEPT ![i][s] =
                        [slot EXCEPT !.commitVoters = voters]]
        BY <3>1 DEF RecordCommit, CommitVoters
      <4>2. ~(Cardinality(voters) >= Quorum)
        BY <3>1 DEF RecordCommit, CommitReached, CommitVoters
      <4> HIDE DEF s, voters
      <4>3. WritesSlot(i, s, [slot EXCEPT !.commitVoters = voters])
        BY <1>1, <4>1, ExceptWrites
      <4>4. new = [slot EXCEPT !.commitVoters = voters]
        BY <4>3 DEF WritesSlot, s
      <4>5. new.view = slot.view /\ new.commitVoters = voters
        BY <1>2, <4>4 DEF SlotState
      <4> QED
        BY <4>2, <4>5
    <3>2. CASE BecomeCommitted(i, m)
      <4> DEFINE decided == [slot EXCEPT !.phase = "Committed",
                                         !.commitVoters = voters]
      <4>1. slots' = [slots EXCEPT ![i][s] = decided]
        BY <3>2 DEF BecomeCommitted, CommitVoters
      <4> HIDE DEF s, decided
      <4>2. WritesSlot(i, s, decided)
        BY <1>1, <4>1, ExceptWrites
      <4>3. new = decided
        BY <4>2 DEF WritesSlot, s
      <4> QED
        BY <1>2, <4>3 DEF SlotState, decided
    <3> QED
      BY <1>6, <3>1, <3>2
  <2>5. NotStuck(new)
    BY <2>4 DEF NotStuck
  <2>6. ASSUME NEW x \in Message, PassedBy(slot, s, x),
               AboutSlot(x) /\ x.view = m.view /\ x.sequence = s
                 => Stage(m) <= Stage(x)
        PROVE  PassedBy(new, s, x)
    BY <1>2, <1>4, <2>2, <2>4, <2>6 DEF PassedBy
  <2> QED
    BY <1>2, <2>2, <2>3, <2>5, <2>6
<1> QED
  BY <1>5, <1>6
\* A slot without votes.
LEMMA NoVotesPassed ==
  ASSUME NEW slot \in {NoSlot} \cup {PrePreparedSlot(v) : v \in Views}
  PROVE  NotStuck(slot) /\ \A s, m : PassedBy(slot, s, m)
<1>1. slot.prepareVoters = {} /\ slot.commitVoters = {}
  <2>1. NoSlot.prepareVoters = {} /\ NoSlot.commitVoters = {}
    BY DEF NoSlot
  <2>2. \A v \in Views : /\ PrePreparedSlot(v).prepareVoters = {}
                         /\ PrePreparedSlot(v).commitVoters = {}
    BY DEF NoSlot, PrePreparedSlot
  <2> QED
    BY <2>1, <2>2
<1>2. Cardinality({}) = 0 /\ Quorum \in Nat /\ Quorum > 0
  BY FS_EmptySet, SizeAssumption DEF Quorum, F
<1> QED
  BY <1>1, <1>2 DEF NotStuck, PassedBy

\* What handlers do to the votes of slots.
LEMMA HandlersPass ==
  ASSUME F > 0, TypeOK, SlotInv, NEW i \in Nodes, NEW m \in Message,
         HandleMessage(i, m), NoStuckQuorum,
         \A j \in Nodes, s \in Seqs : PassedBy(slots[j][s], s, m),
         NEW j \in Nodes, NEW s \in Seqs
  PROVE  /\ NotStuck(slots'[j][s])
         /\ \A x \in Message :
              /\ PassedBy(slots[j][s], s, x)
              /\ /\ AboutSlot(m) /\ AboutSlot(x)
                 /\ x.view = m.view /\ x.sequence = m.sequence
                 => Stage(m) <= Stage(x)
              => PassedBy(slots'[j][s], s, x)
<1>1. LogTypeOK /\ ViewTypeOK
  BY TypeParts
<1>2. NotStuck(slots[j][s])
  BY DEF NoStuckQuorum, NotStuck
<1>3. CASE slots'[j][s] = slots[j][s]
  BY <1>2, <1>3
<1>4. CASE slots'[j][s] \in {NoSlot} \cup {PrePreparedSlot(v) : v \in Views}
  BY <1>4, NoVotesPassed
<1>5. CASE HandlePrePrepare(i, m)
  <2>1. WritesSlot(i, m.sequence, PrePreparedSlot(view[i])) /\ view[i] \in Views
    BY <1>1, <1>5, PrePrepareWrites DEF ViewTypeOK
  <2> QED
    BY <1>3, <1>4, <2>1 DEF WritesSlot
<1>6. CASE \/ RecordPrepare(i, m) \/ BecomePrepared(i, m)
           \/ RecordCommit(i, m) \/ BecomeCommitted(i, m)
  <2>1. /\ WritesSlot(i, m.sequence, slots'[i][m.sequence])
        /\ m.sequence \in Seqs
    BY <1>6, VoteWrites
  <2>2. CASE j = i /\ s = m.sequence
    <3>1. PassedBy(slots[i][m.sequence], m.sequence, m)
          /\ NotStuck(slots[i][m.sequence])
      BY <1>2, <2>2
    <3>2. PICK slot, new : slot = slots[i][m.sequence]
                           /\ new = slots'[i][m.sequence]
      OBVIOUS
    <3>3. /\ AboutSlot(m)
          /\ NotStuck(new)
          /\ \A x \in Message :
               /\ PassedBy(slot, m.sequence, x)
               /\ AboutSlot(x) /\ x.view = m.view /\ x.sequence = m.sequence
                    => Stage(m) <= Stage(x)
               => PassedBy(new, m.sequence, x)
      BY <1>6, <3>1, <3>2, VotesOnSlot
    <3> QED
      BY <2>2, <3>2, <3>3
  <2>3. CASE ~(j = i /\ s = m.sequence)
    BY <1>3, <2>1, <2>3 DEF WritesSlot
  <2> QED
    BY <2>2, <2>3
<1>7. CASE BecomePrimary(i, m) \/ HandleNewView(i, m)
  <2>1. \E v \in Views : \E next : v > view[i] /\ EnterNewView(i, v, next)
    BY <1>7, MessageFields
       DEF BecomePrimary, HandleNewView, AcceptsViewChange, AcceptsNewView
  <2>2. PICK v \in Views : \E next : v > view[i] /\ EnterNewView(i, v, next)
    BY <2>1
  <2>3. slots'[j][s] = slots[j][s] \/ slots'[j][s] = NoSlot
    BY <2>2, EnterWrites
  <2> QED
    BY <1>3, <1>4, <2>3
<1>8. CASE JoinViewChange(i, m) \/ Discard(i, m)
  BY <1>3, <1>8 DEF JoinViewChange, Discard, nodeVars, logVars
<1> QED
  BY <1>5, <1>6, <1>7, <1>8 DEF HandleMessage

\* A handler sends nothing about slots but an answer to the message it is
\* given, and no pre-prepare.
LEMMA HandlersAnswer ==
  ASSUME F > 0, TypeOK, SlotInv, NEW i \in Nodes, NEW m \in Message,
         HandleMessage(i, m), NoStuckQuorum,
         \A j \in Nodes, s \in Seqs : PassedBy(slots[j][s], s, m),
         m.type = "PrePrepare" => i # Primary(m.view)
  PROVE  \E out \in Seq(EnvelopeType) :
           /\ Consume(out)
           /\ \A e \in Range(out) :
                AboutSlot(e.msg) =>
                  /\ AboutSlot(m)
                  /\ Answers(e.msg, m)
                  /\ ~Offer(e)
<1>1. <<>> \in Seq(EnvelopeType) /\ \A e \in Range(<<>>) : FALSE
  BY EmptySeq, EmptyRange
<1>2. \A x, e : e \in Range(Broadcast(i, x)) => e.msg = x
  BY BroadcastSends DEF SentBy
<1>3. CASE HandlePrePrepare(i, m)
  <2> DEFINE x == PrepareMsg(m.view, m.sequence, m.digest, i)
  <2>1. x \in Message /\ x.type = "Prepare" /\ m.type = "PrePrepare"
    BY <1>3, MessageFields, MessageTypes, MessageKinds
       DEF HandlePrePrepare, AcceptsPrePrepare
  <2>2. Consume(Broadcast(i, x)) /\ Broadcast(i, x) \in Seq(EnvelopeType)
    BY <1>3, <2>1, BroadcastType DEF HandlePrePrepare
  <2>3. AboutSlot(m) /\ Answers(x, m)
    <3>1. x.replica = i /\ x.view = m.view /\ x.sequence = m.sequence
      BY DEF PrepareMsg
    <3>2. Stage(m) = 0
      BY <2>1 DEF Stage
    <3>3. Stage(x) = 1
      BY <2>1, <3>1 DEF Stage
    <3> QED
      BY <2>1, <3>1, <3>2, <3>3 DEF Answers, AboutSlot
  <2> HIDE DEF x
  <2> QED
    BY <1>2, <2>1, <2>2, <2>3 DEF Offer
<1>4. CASE BecomePrepared(i, m)
  <2> DEFINE x == CommitMsg(m.view, m.sequence, m.digest, i)
  <2>1. x \in Message /\ x.type = "Commit" /\ m.type = "Prepare"
    BY <1>4, MessageFields, MessageTypes, MessageKinds
       DEF BecomePrepared, AcceptsPrepare
  <2>2. Consume(Broadcast(i, x)) /\ Broadcast(i, x) \in Seq(EnvelopeType)
    BY <1>4, <2>1, BroadcastType DEF BecomePrepared
  <2>3. AboutSlot(m) /\ Answers(x, m)
    <3>1. x.view = m.view /\ x.sequence = m.sequence
      BY DEF CommitMsg
    <3>2. m.sequence \in Seqs
      BY <2>1, MessageFields
    <3>3. Stage(m) = 1
      <4>1. PICK slot, new : slot = slots[i][m.sequence]
                             /\ new = slots'[i][m.sequence]
        OBVIOUS
      <4>2. NotStuck(slots[i][m.sequence])
        BY <3>2 DEF NoStuckQuorum, NotStuck
      <4> QED
        BY <1>4, <3>2, <4>1, <4>2, VotesOnSlot
    <3>4. Stage(x) = 2
      BY <2>1 DEF Stage
    <3> QED
      BY <2>1, <3>1, <3>3, <3>4 DEF Answers, AboutSlot
  <2> HIDE DEF x
  <2> QED
    BY <1>2, <2>1, <2>2, <2>3 DEF Offer
<1>5. CASE \/ RecordPrepare(i, m) \/ RecordCommit(i, m)
           \/ BecomeCommitted(i, m) \/ HandleNewView(i, m) \/ Discard(i, m)
  <2>1. Consume(<<>>)
    BY <1>5 DEF RecordPrepare, RecordCommit, BecomeCommitted, HandleNewView,
                Discard
  <2> QED
    BY <1>1, <2>1
<1>6. ASSUME AcceptsViewChange(i, m)
      PROVE  /\ JoinMessages(i, m) \in Seq(EnvelopeType)
             /\ \A e \in Range(JoinMessages(i, m)) : ~AboutSlot(e.msg)
  <2>1. \A v, last : ViewChangeMsg(v, i, last).type = "ViewChange"
    BY DEF ViewChangeMsg
  <2> QED
    BY <1>6, <2>1, JoinSends DEF SentBy, AboutSlot
<1>7. CASE JoinViewChange(i, m)
  <2>1. AcceptsViewChange(i, m) /\ Consume(JoinMessages(i, m))
    BY <1>7 DEF JoinViewChange
  <2> QED
    BY <1>6, <2>1
<1>8. CASE BecomePrimary(i, m)
  <2> DEFINE x == NewViewMsg(m.newView, highestCommittedSeq[i] + 1)
             out == JoinMessages(i, m) \o Broadcast(i, x)
  <2>1. AcceptsViewChange(i, m) /\ Consume(out)
    BY <1>8 DEF BecomePrimary
  <2>2. x \in Message /\ x.type = "NewView"
    <3>1. highestCommittedSeq[i] + 1 \in Nat \ {0}
      BY TypeParts DEF LogTypeOK
    <3>2. m.newView \in Views
      BY <2>1, MessageFields DEF AcceptsViewChange
    <3>3. \A v, next : NewViewMsg(v, next).type = "NewView"
      BY DEF NewViewMsg
    <3> QED
      BY <3>1, <3>2, <3>3, MessageTypes
  <2> HIDE DEF x
  <2>3. /\ Broadcast(i, x) \in Seq(EnvelopeType)
        /\ \A e \in Range(Broadcast(i, x)) : ~AboutSlot(e.msg)
    BY <1>2, <2>2, BroadcastType DEF AboutSlot
  <2>4. /\ out \in Seq(EnvelopeType)
        /\ Range(out) = Range(JoinMessages(i, m)) \cup Range(Broadcast(i, x))
    BY <1>6, <2>1, <2>3, ConcatProperties, RangeConcatenation
  <2> HIDE DEF out
  <2> QED
    BY <1>6, <2>1, <2>3, <2>4
<1> QED
  BY <1>3, <1>4, <1>5, <1>7, <1>8 DEF HandleMessage

\* Ticks only send votes for a view.
LEMMA TicksSendVotes ==
  ASSUME TypeInv, Tick
  PROVE  /\ UNCHANGED inflight
         /\ \E out \in Seq(EnvelopeType) :
              Enqueue(out) /\ \A e \in Range(out) : ~AboutSlot(e.msg)
<1>1. PICK i \in Nodes : TickQuiet(i) \/ TickCountdown(i) \/ TickTimeout(i)
  BY DEF Tick
<1>2. UNCHANGED inflight
  BY <1>1 DEF TickQuiet, TickCountdown, TickTimeout, TickTurn
<1>3. CASE TickTimeout(i)
  <2> DEFINE x == ViewChangeMsg(view[i] + 1, i, highestCommittedSeq[i])
  <2>1. Enqueue(Broadcast(i, x))
    BY <1>3 DEF TickTimeout, TickTurn
  <2>2. x \in Message
    <3>1. view[i] < MaxView
      BY <1>3, TickRoom, SizeAssumption DEF TickTimeout, TickTurn, Nodes
    <3>2. view[i] + 1 \in Views /\ highestCommittedSeq[i] \in Nat
      BY <3>1, TypeParts, PbftAssumption
         DEF TypeInv, ViewTypeOK, LogTypeOK, Views
    <3> QED
      BY <3>2, MessageTypes
  <2>3. x.type = "ViewChange"
    BY DEF ViewChangeMsg
  <2> HIDE DEF x
  <2>4. \A e \in Range(Broadcast(i, x)) : e.msg = x
    BY BroadcastSends DEF SentBy
  <2> QED
    BY <1>2, <2>1, <2>2, <2>3, <2>4, BroadcastType DEF AboutSlot
<1>4. CASE ~TickTimeout(i)
  <2>1. Enqueue(<<>>)
    BY <1>1, <1>4 DEF TickQuiet, TickCountdown, TickTurn
  <2> QED
    BY <1>2, <2>1, EmptySeq, EmptyRange
<1> QED
  BY <1>3, <1>4
\* A commit is the effect of a commit vote for its slot.
LEMMA CommitMessage ==
  ASSUME TypeOK, NEW i \in Nodes, NEW m \in Message, HandleMessage(i, m),
         NEW j \in Nodes, NEW x, Decides(j, x)
  PROVE  /\ j = i /\ AboutSlot(m) /\ Stage(m) = 2
         /\ m.view = x.view /\ m.sequence = x.sequence
<1>1. /\ committed \in [Nodes -> Seq(CommittedEntry)]
      /\ x \in CommittedEntry /\ x.view = view[j]
      /\ committed' = [committed EXCEPT ![j] = Append(committed[j], x)]
  BY TypeParts DEF Decides, LogTypeOK
<1>2. \A n \in Nodes, y \in CommittedEntry :
        /\ committed[n] \in Seq(CommittedEntry)
        /\ Len(committed[n]) \in Nat
        /\ Len(Append(committed[n], y)) = Len(committed[n]) + 1
        /\ Append(committed[n], y)[Len(committed[n]) + 1] = y
  BY <1>1, AppendProperties, LenProperties
<1>3. /\ committed'[j] = Append(committed[j], x)
      /\ \A n \in Nodes \ {j} : committed'[n] = committed[n]
  BY <1>1
<1>4. ~UNCHANGED committed
  BY <1>1, <1>2, <1>3
<1>5. BecomeCommitted(i, m)
  BY <1>4 DEF HandleMessage, HandlePrePrepare, RecordPrepare, BecomePrepared,
     RecordCommit, JoinViewChange, BecomePrimary, HandleNewView, Discard,
     nodeVars, logVars
<1>6. PICK y : y.sequence = m.sequence /\ Decides(i, y)
  BY <1>4, <1>5, CommitDecides
<1>7. /\ y \in CommittedEntry
      /\ committed' = [committed EXCEPT ![i] = Append(committed[i], y)]
  BY <1>6 DEF Decides
<1>8. committed'[i] = Append(committed[i], y)
  BY <1>1, <1>7
<1>9. j = i
  BY <1>2, <1>3, <1>7, <1>8
<1>10. x = y
  BY <1>1, <1>2, <1>3, <1>7, <1>8, <1>9
<1>11. m.type = "Commit" /\ m.view = view[i]
  BY <1>5 DEF BecomeCommitted, AcceptsCommit
<1> QED
  BY <1>1, <1>6, <1>9, <1>10, <1>11 DEF AboutSlot, Stage

LEMMA EntryFields ==
  ASSUME LogTypeOK, NEW n \in Nodes, NEW x \in Entries(n)
  PROVE  /\ x \in CommittedEntry
         /\ x.view \in Views /\ x.sequence \in Seqs /\ x.payload \in Payload
<1>1. committed[n] \in Seq(CommittedEntry)
  BY DEF LogTypeOK
<1>2. PICK k \in 1 .. Len(committed[n]) : x = committed[n][k]
  BY <1>1, LenProperties DEF Entries, EntriesOf
<1>3. x \in CommittedEntry
  BY <1>1, <1>2, ElementOfSeq
<1> QED
  BY <1>3 DEF CommittedEntry

\* What is left of the queue, and added to it, by a delivery.
LEMMA DeliveryQueue ==
  ASSUME TypeOK, TypeOK', OrderInv, inflight # <<>>,
         NEW out \in Seq(EnvelopeType), Consume(out)
  PROVE  /\ Head(inflight) \in Envelopes
         /\ Ordered(Tail(Queue)) /\ Tail(Queue) \in Seq(EnvelopeType)
         /\ Range(Tail(Queue)) \subseteq Envelopes
         /\ \A e \in Range(Tail(Queue)) : InOrder(Head(inflight).msg, e.msg)
         /\ Queue' = Tail(Queue) \o out
         /\ Envelopes' = Range(Tail(Queue)) \cup Range(out)
<1>1. NetTypeOK /\ NetTypeOK'
  BY TypeParts, PTL
<1>2. Queue \in Seq(EnvelopeType) /\ Range(Queue) = Envelopes
  BY <1>1, QueueType
<1>3. /\ Queue # <<>> /\ Queue[1] = Head(inflight)
      /\ Queue' = Tail(Queue) \o out
  BY <1>1, QueueSteps
<1>4. /\ Head(Queue) = Queue[1] /\ Tail(Queue) \in Seq(EnvelopeType)
      /\ Head(Queue) \in Range(Queue)
      /\ Range(Tail(Queue)) \subseteq Range(Queue)
  BY <1>2, <1>3, HeadTailProperties, HeadTailRange
<1>5. /\ Ordered(Tail(Queue))
      /\ \A e \in Range(Tail(Queue)) : InOrder(Queue[1].msg, e.msg)
  BY <1>2, <1>3, TailOrdered DEF OrderInv
<1>6. Envelopes' = Range(Queue')
  <2>1. inflight' \in Seq(EnvelopeType) /\ pending' \in Seq(EnvelopeType)
    BY <1>1 DEF NetTypeOK
  <2>2. Range(inflight' \o pending') = Range(inflight') \cup Range(pending')
    BY <2>1, QueueParts
  <2> QED
    BY <2>2 DEF Envelopes, Queue
<1>7. Range(Tail(Queue) \o out) = Range(Tail(Queue)) \cup Range(out)
  BY <1>4, QueueParts
<1> QED
  BY <1>2, <1>3, <1>4, <1>5, <1>6, <1>7

\* Entries and what is under way after a delivery.
LEMMA DeliverPassed ==
  ASSUME TypeOK, TypeOK', EntryInv, OrderInv, DeliverMessage,
         NEW h, h = Head(inflight), h \in Envelopes,
         NEW out, \A e \in Range(out) : AboutSlot(e.msg) =>
           AboutSlot(h.msg) /\ Answers(e.msg, h.msg),
         \A e \in Envelopes' :
           \/ e \in Envelopes /\ InOrder(h.msg, e.msg)
           \/ e \in Range(out),
         \A i \in Nodes : \A x : Decides(i, x) =>
           /\ AboutSlot(h.msg) /\ Stage(h.msg) = 2
           /\ h.msg.view = x.view /\ h.msg.sequence = x.sequence
  PROVE  EntriesPassed' /\ PerViewOrder'
<1>1. NetTypeOK /\ LogTypeOK
  BY TypeParts
<1>2. UNCHANGED committed \/ \E i \in Nodes : \E x : Decides(i, x)
  BY LogSteps DEF DeliverMessage, Next
<1>3. ASSUME NEW i \in Nodes, NEW x \in Entries(i), NEW e \in Envelopes',
             AboutSlot(e.msg), e.msg.view = x.view,
             e.msg.sequence < x.sequence
      PROVE  FALSE
  <2>1. CASE e \in Envelopes
    BY <1>3, <2>1 DEF OrderInv, EntriesPassed
  <2>2. CASE e \in Range(out)
    <3>1. /\ AboutSlot(h.msg)
          /\ h.msg.view = x.view /\ h.msg.sequence < x.sequence
      BY <1>3, <2>2 DEF Answers
    <3> QED
      BY <3>1 DEF OrderInv, EntriesPassed
  <2> QED
    BY <2>1, <2>2
<1>4. CASE UNCHANGED committed
  BY <1>3, <1>4 DEF OrderInv, EntriesPassed, PerViewOrder, Entries
<1>5. CASE \E i \in Nodes : \E x : Decides(i, x)
  <2>1. PICK j \in Nodes : \E x : Decides(j, x)
    BY <1>5
  <2>2. PICK y : Decides(j, y)
    BY <2>1
  <2>3. /\ Entries(j)' = Entries(j) \cup {y}
        /\ \A n \in Nodes \ {j} : Entries(n)' = Entries(n)
    BY <1>1, <2>2, DecidesEntries
  <2>4. y \in CommittedEntry /\ y.view = view[j]
    BY <2>2 DEF Decides
  <2>5. y.sequence \in Nat /\ y.view \in Nat
    BY <2>4 DEF CommittedEntry, Seqs, Views
  <2>6. /\ AboutSlot(h.msg) /\ Stage(h.msg) = 2
        /\ h.msg.view = y.view /\ h.msg.sequence = y.sequence
    BY <2>2
  <2>7. ASSUME NEW e \in Envelopes', AboutSlot(e.msg), e.msg.view = y.view,
               e.msg.sequence < y.sequence
        PROVE  FALSE
    <3>1. CASE e \in Envelopes /\ InOrder(h.msg, e.msg)
      <4>1. Stage(e.msg) \in 0 .. 2 /\ e.msg.sequence \in Nat
        BY <1>1, <2>7, <3>1, SlotEnvelopeFields DEF Seqs
      <4>2. h.msg.sequence > e.msg.sequence /\ h.msg.view = e.msg.view
        BY <2>5, <2>6, <2>7, <4>1
      <4>3. Stage(h.msg) < Stage(e.msg)
        BY <2>6, <2>7, <3>1, <4>2 DEF InOrder
      <4> QED
        BY <2>6, <4>1, <4>3
    <3>2. CASE e \in Range(out)
      BY <2>5, <2>6, <2>7, <3>2 DEF Answers
    <3> QED
      BY <3>1, <3>2
  <2>8. EntriesPassed'
    <3> SUFFICES ASSUME NEW i \in Nodes, NEW x \in Entries(i)',
                        NEW e \in Envelopes', AboutSlot(e.msg),
                        e.msg.view = x.view, e.msg.sequence < x.sequence
                 PROVE  FALSE
      BY DEF EntriesPassed
    <3>1. CASE x \in Entries(i)
      BY <1>3, <3>1
    <3>2. CASE i = j /\ x = y
      BY <2>7, <3>2
    <3> QED
      BY <2>3, <3>1, <3>2
  <2>9. \A k \in 1 .. Len(committed[j]) :
          \/ committed[j][k].view < y.view
          \/ /\ committed[j][k].view = y.view
             /\ committed[j][k].sequence < y.sequence
    <3> SUFFICES ASSUME NEW k \in 1 .. Len(committed[j])
                 PROVE  \/ committed[j][k].view < y.view
                        \/ /\ committed[j][k].view = y.view
                           /\ committed[j][k].sequence < y.sequence
      OBVIOUS
    <3>1. PICK x : x = committed[j][k]
      OBVIOUS
    <3>2. x \in Entries(j)
      BY <1>1, <3>1 DEF Entries, EntriesOf, LogTypeOK
    <3>3. x.sequence \in Nat /\ x.view \in Nat
      <4>1. x \in CommittedEntry
        BY <1>1, <3>2, EntryFields
      <4> QED
        BY <4>1 DEF CommittedEntry, Seqs, Views
    <3>4. /\ x.view <= y.view
          /\ x.view = y.view => slots[j][x.sequence].phase = "Committed"
      BY <2>4, <3>1 DEF EntryInv, EntriesHeld
    <3>5. x.view = y.view => x.sequence # y.sequence
      BY <2>2, <3>4 DEF Decides, Undecided
    <3>6. ~(x.view = y.view /\ y.sequence < x.sequence)
      BY <2>6, <3>2 DEF OrderInv, EntriesPassed
    <3> QED
      BY <2>5, <3>1, <3>3, <3>4, <3>5, <3>6
  <2>10. \A n \in Nodes : /\ committed[n] \in Seq(CommittedEntry)
                          /\ DOMAIN committed[n] = 1 .. Len(committed[n])
                          /\ Len(committed[n]) \in Nat
    BY <1>1, LenProperties DEF LogTypeOK
  <2>11. /\ \A n \in Nodes \ {j} : committed'[n] = committed[n]
         /\ DOMAIN committed'[j] = 1 .. Len(committed[j]) + 1
         /\ \A k \in 1 .. Len(committed[j]) :
              committed'[j][k] = committed[j][k]
         /\ committed'[j][Len(committed[j]) + 1] = y
    <3>1. /\ committed'[j] = Append(committed[j], y)
          /\ \A n \in Nodes \ {j} : committed'[n] = committed[n]
      BY <1>1, <2>2 DEF Decides, LogTypeOK
    <3> QED
      BY <2>4, <2>10, <3>1, AppendProperties, LenProperties
  <2>12. PerViewOrder'
    <3> SUFFICES ASSUME NEW n \in Nodes, NEW k \in DOMAIN committed'[n],
                        NEW l \in DOMAIN committed'[n], k < l
                 PROVE  \/ committed'[n][k].view < committed'[n][l].view
                        \/ /\ committed'[n][k].view = committed'[n][l].view
                           /\ committed'[n][k].sequence
                                < committed'[n][l].sequence
      BY DEF PerViewOrder
    <3>1. CASE n # j
      BY <2>11, <3>1 DEF OrderInv, PerViewOrder
    <3>2. CASE n = j /\ l <= Len(committed[j])
      <4>1. k \in 1 .. Len(committed[j]) /\ l \in 1 .. Len(committed[j])
        BY <2>10, <2>11, <3>2
      <4>2. /\ committed'[n][k] = committed[j][k]
            /\ committed'[n][l] = committed[j][l]
        BY <2>11, <3>2, <4>1
      <4>3. k \in DOMAIN committed[j] /\ l \in DOMAIN committed[j]
        BY <2>10, <4>1
      <4>4. PerViewOrder
        BY DEF OrderInv
      <4> QED
        BY <4>2, <4>3, <4>4 DEF PerViewOrder
    <3>3. CASE n = j /\ l = Len(committed[j]) + 1
      <4>1. k \in 1 .. Len(committed[j])
        BY <2>10, <2>11, <3>3
      <4> QED
        BY <2>9, <2>11, <3>3, <4>1
    <3> QED
      BY <2>10, <2>11, <3>1, <3>2, <3>3
  <2> QED
    BY <2>8, <2>12
<1> QED
  BY <1>2, <1>4, <1>5
LEMMA DeliverOrder ==
  ASSUME F > 0, TypeOK, TypeOK', ClaimInv, SlotInv, EntryInv, OrderInv,
         Counting, DeliverMessage
  PROVE  OrderInv'
<1> DEFINE i == Head(inflight).to
           m == Tampered(Head(inflight))
<1>1. PICK h : h = Head(inflight)
  OBVIOUS
<1>2. /\ NetTypeOK /\ inflight # <<>>
      /\ h \in EnvelopeType /\ h.msg \in Message
      /\ i \in Nodes /\ m \in Message /\ HandleMessage(i, m)
  BY <1>1, DeliveredType, TypeParts DEF DeliverMessage, EnvelopeType
<1>3. h \in Envelopes
  BY <1>1, <1>2, HeadTailRange DEF NetTypeOK, Envelopes
<1>4. i = h.to /\ m = Tampered(h)
  BY <1>1
<1> HIDE DEF i, m
<1>5. /\ m.type = h.msg.type
      /\ AboutSlot(m) <=> AboutSlot(h.msg)
      /\ AboutSlot(h.msg) => /\ m.view = h.msg.view
                             /\ m.sequence = h.msg.sequence
                             /\ Stage(m) = Stage(h.msg)
  BY <1>2, <1>4, TamperedStage DEF AboutSlot
<1>6. \A j \in Nodes, s \in Seqs : PassedBy(slots[j][s], s, m)
  <2>1. \A j \in Nodes, s \in Seqs : PassedBy(slots[j][s], s, h.msg)
    BY <1>3 DEF OrderInv, VotesPassed
  <2> QED
    BY <1>5, <2>1 DEF PassedBy
<1>7. m.type = "PrePrepare" => i # Primary(m.view)
  BY <1>3, <1>4, <1>5 DEF OrderInv, OffersOut, Offer, AboutSlot
<1>8. PICK out \in Seq(EnvelopeType) :
        /\ Consume(out)
        /\ \A e \in Range(out) :
             AboutSlot(e.msg) =>
               AboutSlot(m) /\ Answers(e.msg, m) /\ ~Offer(e)
  BY <1>2, <1>6, <1>7, HandlersAnswer DEF OrderInv
<1>9. /\ Ordered(Tail(Queue)) /\ Tail(Queue) \in Seq(EnvelopeType)
      /\ Range(Tail(Queue)) \subseteq Envelopes
      /\ \A e \in Range(Tail(Queue)) : InOrder(h.msg, e.msg)
      /\ Queue' = Tail(Queue) \o out
      /\ Envelopes' = Range(Tail(Queue)) \cup Range(out)
  BY <1>1, <1>2, <1>8, DeliveryQueue
<1>10. \A e \in Range(out) :
         /\ e.msg \in Message
         /\ AboutSlot(e.msg) => AboutSlot(h.msg) /\ Answers(e.msg, h.msg)
  <2>1. \A e \in Range(out) : e \in EnvelopeType
    BY <1>8, RangeEquality, ElementOfSeq
  <2> QED
    BY <1>5, <1>8, <2>1 DEF Answers, EnvelopeType
<1>11. \A e \in Range(Tail(Queue)) : e.msg \in Message
  BY <1>2, <1>9, EnvelopeFields
<1>12. Ordered(Queue')
  <2>1. Ordered(out)
    <3>1. CASE AboutSlot(h.msg)
      <4>1. h.msg.sequence \in Nat /\ Stage(h.msg) + 1 \in Nat
        BY <1>2, <3>1, SlotMessageFields DEF Seqs
      <4>2. \A d, e \in Range(out) : SameRound(d.msg, e.msg)
        BY <1>10, <4>1 DEF Answers, SameRound
      <4> QED
        BY <4>2, OneSlotOrdered
    <3>2. CASE ~AboutSlot(h.msg)
      <4>1. \A d, e \in Range(out) : SameRound(d.msg, e.msg)
        BY <1>10, <3>2 DEF SameRound
      <4> QED
        BY <4>1, OneSlotOrdered
    <3> QED
      BY <3>1, <3>2
  <2>2. ASSUME NEW d \in Range(Tail(Queue)), NEW e \in Range(out)
        PROVE  InOrder(d.msg, e.msg)
    <3>1. CASE AboutSlot(e.msg)
      BY <1>2, <1>9, <1>10, <1>11, <3>1, AnswerInOrder
    <3>2. CASE ~AboutSlot(e.msg)
      BY <3>2 DEF InOrder
    <3> QED
      BY <3>1, <3>2
  <2> QED
    BY <1>8, <1>9, <2>1, <2>2, ConcatOrdered
<1>13. MessagesNumbered'
  <2> SUFFICES ASSUME NEW e \in Envelopes', AboutSlot(e.msg)
               PROVE  Numbered(e.msg.view, e.msg.sequence)'
    BY DEF MessagesNumbered
  <2>1. PICK d \in Envelopes : /\ AboutSlot(d.msg)
                               /\ d.msg.view = e.msg.view
                               /\ d.msg.sequence = e.msg.sequence
    BY <1>3, <1>9, <1>10 DEF Answers
  <2>2. PICK v, s : v = e.msg.view /\ s = e.msg.sequence
    OBVIOUS
  <2>3. v \in Views /\ s \in Seqs /\ Numbered(v, s)
    BY <1>2, <2>1, <2>2, SlotEnvelopeFields DEF OrderInv, MessagesNumbered
  <2>4. Numbered(v, s)'
    BY <2>3, NumberedStays DEF Counting
  <2> QED
    BY <2>2, <2>4
<1>14. OffersOut'
  BY <1>8, <1>9 DEF OrderInv, OffersOut, Offer, AboutSlot
<1>15. ASSUME NEW j \in Nodes, NEW s \in Seqs
       PROVE  /\ NotStuck(slots'[j][s])
              /\ \A e \in Envelopes' : PassedBy(slots'[j][s], s, e.msg)
  <2>1. /\ NotStuck(slots'[j][s])
        /\ \A x \in Message :
             /\ PassedBy(slots[j][s], s, x)
             /\ /\ AboutSlot(m) /\ AboutSlot(x)
                /\ x.view = m.view /\ x.sequence = m.sequence
                => Stage(m) <= Stage(x)
             => PassedBy(slots'[j][s], s, x)
    BY <1>2, <1>6, HandlersPass DEF OrderInv
  <2>2. AboutSlot(h.msg) => Stage(h.msg) \in Nat
    BY <1>2, SlotMessageFields
  <2>3. ASSUME NEW e \in Range(Tail(Queue))
        PROVE  PassedBy(slots'[j][s], s, e.msg)
    <3>1. PassedBy(slots[j][s], s, e.msg)
      BY <1>9 DEF OrderInv, VotesPassed
    <3>2. /\ AboutSlot(h.msg) /\ AboutSlot(e.msg)
          /\ e.msg.view = h.msg.view /\ e.msg.sequence = h.msg.sequence
          => Stage(h.msg) <= Stage(e.msg)
      BY <1>9, <2>2 DEF InOrder
    <3> QED
      BY <1>5, <1>11, <2>1, <3>1, <3>2
  <2>4. ASSUME NEW e \in Range(out)
        PROVE  PassedBy(slots'[j][s], s, e.msg)
    <3>1. CASE AboutSlot(e.msg)
      <4>1. /\ AboutSlot(h.msg) /\ Stage(e.msg) = Stage(h.msg) + 1
            /\ e.msg.view = h.msg.view /\ e.msg.sequence = h.msg.sequence
        BY <1>10, <3>1 DEF Answers
      <4>2. PassedBy(slots[j][s], s, h.msg)
        BY <1>3 DEF OrderInv, VotesPassed
      <4>3. PassedBy(slots[j][s], s, e.msg)
        BY <2>2, <4>1, <4>2 DEF PassedBy
      <4> QED
        BY <1>5, <1>10, <2>1, <2>2, <4>1, <4>3
    <3>2. CASE ~AboutSlot(e.msg)
      BY <3>2 DEF PassedBy
    <3> QED
      BY <3>1, <3>2
  <2> QED
    BY <1>9, <2>1, <2>3, <2>4
<1>16. VotesPassed' /\ NoStuckQuorum'
  BY <1>15 DEF VotesPassed, NoStuckQuorum, NotStuck
<1>17. \A j \in Nodes : \A x : Decides(j, x) =>
         /\ AboutSlot(h.msg) /\ Stage(h.msg) = 2
         /\ h.msg.view = x.view /\ h.msg.sequence = x.sequence
  <2> SUFFICES ASSUME NEW j \in Nodes, NEW x, Decides(j, x)
               PROVE  /\ AboutSlot(h.msg) /\ Stage(h.msg) = 2
                      /\ h.msg.view = x.view /\ h.msg.sequence = x.sequence
    OBVIOUS
  <2>1. /\ AboutSlot(m) /\ Stage(m) = 2
        /\ m.view = x.view /\ m.sequence = x.sequence
    BY <1>2, CommitMessage
  <2> QED
    BY <1>5, <2>1
<1>18. EntriesPassed' /\ PerViewOrder'
  BY <1>1, <1>3, <1>9, <1>10, <1>17, DeliverPassed
<1> QED
  BY <1>12, <1>13, <1>14, <1>16, <1>18 DEF OrderInv

\* A step that keeps logs and slots and sends nothing about a slot.
LEMMA OrderKept ==
  ASSUME TypeOK, TypeOK', OrderInv, Counting, UNCHANGED <<committed, slots>>,
         Ordered(Queue'),
         \A e \in Envelopes' : AboutSlot(e.msg) => e \in Envelopes
  PROVE  OrderInv'
<1>1. NetTypeOK
  BY TypeParts
<1>2. MessagesNumbered'
  <2> SUFFICES ASSUME NEW e \in Envelopes', AboutSlot(e.msg)
               PROVE  Numbered(e.msg.view, e.msg.sequence)'
    BY DEF MessagesNumbered
  <2>1. PICK v, s : v = e.msg.view /\ s = e.msg.sequence
    OBVIOUS
  <2>2. v \in Views /\ s \in Seqs /\ Numbered(v, s)
    BY <1>1, <2>1, SlotEnvelopeFields DEF OrderInv, MessagesNumbered
  <2>3. Numbered(v, s)'
    BY <2>2, NumberedStays DEF Counting
  <2> QED
    BY <2>1, <2>3
<1>3. OffersOut'
  BY DEF OrderInv, OffersOut, Offer, AboutSlot
<1>4. VotesPassed' /\ NoStuckQuorum'
  BY DEF OrderInv, VotesPassed, PassedBy, NoStuckQuorum
<1>5. EntriesPassed' /\ PerViewOrder'
  BY DEF OrderInv, EntriesPassed, PerViewOrder, Entries
<1> QED
  BY <1>2, <1>3, <1>4, <1>5 DEF OrderInv

\* A primary numbers beyond everything under way about its view.
LEMMA ProposeOrder ==
  ASSUME TypeOK, TypeOK', SlotInv, OrderInv, Counting,
         NEW p \in Payloads, ProposeAccepted(p),
         \A n \in Nodes : \A x \in Entries(n) : Numbered(x.view, x.sequence)
  PROVE  OrderInv'
<1> DEFINE q == <<p, 0>>
<1>1. PICK j \in Nodes : \E w \in Views, t \in Seqs :
             /\ w = view[j] /\ t = nextSequence[j] /\ Primary(w) = j
             /\ Assign(j, q)
  BY ProposeSends
<1>2. PICK w \in Views, t \in Seqs :
             /\ w = view[j] /\ t = nextSequence[j] /\ Primary(w) = j
             /\ Assign(j, q)
  BY <1>1
<1> DEFINE offers == Broadcast(j, PrePrepareMsg(w, t, q))
           votes == Broadcast(j, PrepareMsg(w, t, DigestOf(q), j))
           out == offers \o votes
<1>3. NetTypeOK /\ NetTypeOK'
  BY TypeParts, PTL
<1>4. LogTypeOK /\ ViewTypeOK
  BY TypeParts
<1>5. /\ slots' = [slots EXCEPT ![j][t] = PrePreparedSlot(w)]
      /\ nextSequence' = [nextSequence EXCEPT ![j] = t + 1]
      /\ Enqueue(out)
      /\ UNCHANGED <<view, inflight, committed>>
  BY <1>2 DEF Assign, ProposeAccepted
<1>6. /\ WritesSlot(j, t, PrePreparedSlot(w))
      /\ Numbered(w, t)'
      /\ \A s \in Seqs : Numbered(w, s) => s < t
  <2>1. WritesSlot(j, t, PrePreparedSlot(w))
    BY <1>4, <1>5, ExceptWrites
  <2>2. nextSequence'[j] = t + 1 /\ t \in Nat /\ w \in Nat
    BY <1>2, <1>4, <1>5 DEF ViewTypeOK, Seqs, Views
  <2> QED
    BY <1>2, <1>5, <2>1, <2>2 DEF Numbered, Seqs
<1>7. /\ out \in Seq(EnvelopeType)
      /\ \A e \in Range(out) :
           /\ AboutSlot(e.msg) /\ Stage(e.msg) = 0
           /\ e.msg.view = w /\ e.msg.sequence = t
           /\ e.to # Primary(w)
  <2> DEFINE x == PrePrepareMsg(w, t, q)
             y == PrepareMsg(w, t, DigestOf(q), j)
  <2>1. x \in Message /\ y \in Message
    <3>1. q \in Payload
      BY DEF Payload
    <3> QED
      BY <3>1, MessageTypes
  <2>2. /\ x.type = "PrePrepare" /\ x.view = w /\ x.sequence = t
        /\ y.type = "Prepare" /\ y.view = w /\ y.sequence = t
        /\ y.replica = j
    BY DEF PrePrepareMsg, PrepareMsg
  <2>3. /\ AboutSlot(x) /\ Stage(x) = 0
        /\ AboutSlot(y) /\ Stage(y) = 0
    BY <1>2, <2>2 DEF AboutSlot, Stage
  <2> HIDE DEF x, y
  <2>4. /\ offers \in Seq(EnvelopeType) /\ votes \in Seq(EnvelopeType)
        /\ \A e \in Range(offers) : SentBy(e, j, x)
        /\ \A e \in Range(votes) : SentBy(e, j, y)
    BY <2>1, BroadcastType, BroadcastSends DEF x, y
  <2> HIDE DEF offers, votes
  <2>5. /\ out \in Seq(EnvelopeType)
        /\ Range(out) = Range(offers) \cup Range(votes)
    BY <2>4, ConcatProperties, RangeConcatenation
  <2> QED
    BY <1>2, <2>2, <2>3, <2>4, <2>5 DEF SentBy
<1> HIDE DEF out, q
<1>8. /\ Queue \in Seq(EnvelopeType) /\ Range(Queue) = Envelopes
      /\ Queue' = Queue \o out
      /\ Envelopes' = Envelopes \cup Range(out)
  BY <1>3, <1>5, <1>7, QueueType, QueueSteps, EnqueueEnvelopes
<1>9. ASSUME NEW e \in Envelopes, AboutSlot(e.msg), e.msg.view = w
      PROVE  e.msg.sequence \in Nat /\ e.msg.sequence < t
             /\ Stage(e.msg) \in Nat
  BY <1>3, <1>6, <1>9, SlotEnvelopeFields DEF OrderInv, MessagesNumbered, Seqs
<1>10. Ordered(Queue')
  <2>1. Ordered(out)
    <3>1. \A d, e \in Range(out) : SameRound(d.msg, e.msg)
      BY <1>7 DEF SameRound, Seqs
    <3> QED
      BY <1>7, <3>1, OneSlotOrdered
  <2>2. ASSUME NEW d \in Range(Queue), NEW e \in Range(out)
        PROVE  InOrder(d.msg, e.msg)
    <3> SUFFICES ASSUME AboutSlot(d.msg), d.msg.view = w
                 PROVE  /\ d.msg.sequence < t => 0 <= Stage(d.msg)
                        /\ ~(d.msg.sequence > t)
                        /\ d.msg.sequence # t
      BY <1>7 DEF InOrder
    <3> QED
      BY <1>8, <1>9 DEF Seqs
  <2> QED
    BY <1>7, <1>8, <2>1, <2>2, ConcatOrdered DEF OrderInv
<1>11. MessagesNumbered'
  <2> SUFFICES ASSUME NEW e \in Envelopes', AboutSlot(e.msg)
               PROVE  Numbered(e.msg.view, e.msg.sequence)'
    BY DEF MessagesNumbered
  <2>1. PICK v, s : v = e.msg.view /\ s = e.msg.sequence
    OBVIOUS
  <2>2. CASE e \in Envelopes
    <3>1. v \in Views /\ s \in Seqs /\ Numbered(v, s)
      BY <1>3, <2>1, <2>2, SlotEnvelopeFields DEF OrderInv, MessagesNumbered
    <3>2. Numbered(v, s)'
      BY <3>1, NumberedStays DEF Counting
    <3> QED
      BY <2>1, <3>2
  <2>3. CASE e \in Range(out)
    BY <1>6, <1>7, <2>3
  <2> QED
    BY <1>8, <2>2, <2>3
<1>12. OffersOut'
  BY <1>7, <1>8 DEF OrderInv, OffersOut, Offer
<1>13. ASSUME NEW n \in Nodes, NEW s \in Seqs
       PROVE  /\ NotStuck(slots'[n][s])
              /\ \A e \in Envelopes' : PassedBy(slots'[n][s], s, e.msg)
  <2>1. CASE n = j /\ s = t
    <3>1. slots'[n][s] = PrePreparedSlot(w)
      BY <1>6, <2>1 DEF WritesSlot
    <3> QED
      BY <3>1, NoVotesPassed
  <2>2. CASE ~(n = j /\ s = t)
    <3>1. slots'[n][s] = slots[n][s]
      BY <1>6, <2>2 DEF WritesSlot
    <3>2. NotStuck(slots[n][s])
      BY DEF OrderInv, NoStuckQuorum, NotStuck
    <3>3. \A e \in Envelopes : PassedBy(slots[n][s], s, e.msg)
      BY DEF OrderInv, VotesPassed
    <3>4. ASSUME NEW e \in Range(out)
          PROVE  PassedBy(slots[n][s], s, e.msg)
      <4>1. ~(HasSlot(n, w, s) /\ s = t)
        BY <1>6 DEF SlotInv, SlotsNumbered, Seqs
      <4> QED
        BY <1>7, <4>1 DEF PassedBy, HasSlot
    <3> QED
      BY <1>8, <3>1, <3>2, <3>3, <3>4
  <2> QED
    BY <2>1, <2>2
<1>14. VotesPassed' /\ NoStuckQuorum'
  BY <1>13 DEF VotesPassed, NoStuckQuorum, NotStuck
<1>15. EntriesPassed'
  <2> SUFFICES ASSUME NEW i \in Nodes, NEW x \in Entries(i)',
                      NEW e \in Envelopes', AboutSlot(e.msg),
                      e.msg.view = x.view, e.msg.sequence < x.sequence
               PROVE  FALSE
    BY DEF EntriesPassed
  <2>1. x \in Entries(i)
    BY <1>5 DEF Entries
  <2>2. CASE e \in Envelopes
    BY <2>1, <2>2 DEF OrderInv, EntriesPassed
  <2>3. CASE e \in Range(out)
    <3>1. x.sequence \in Seqs /\ Numbered(w, x.sequence) /\ t < x.sequence
      BY <1>4, <1>7, <2>1, <2>3, EntryFields
    <3> QED
      BY <1>6, <3>1 DEF Seqs
  <2> QED
    BY <1>8, <2>2, <2>3
<1>16. PerViewOrder'
  BY <1>5 DEF OrderInv, PerViewOrder
<1> QED
  BY <1>10, <1>11, <1>12, <1>14, <1>15, <1>16 DEF OrderInv
LEMMA OrderStep ==
  ASSUME F > 0, ConsensusInv, TypeOK', OrderInv, [Next]_vars
  PROVE  OrderInv'
<1>1. /\ TypeOK /\ TypeInv /\ ClaimInv /\ SlotInv /\ OfferInv /\ EntryInv
      /\ Ordered(Queue)
  BY DEF ConsensusInv, SafeInv, TypeInv, OrderInv
<1>2. NetTypeOK /\ NetTypeOK'
  <2>1. TypeOK
    BY <1>1
  <2> QED
    BY <2>1, TypeParts, PTL
<1>3. LogTypeOK
  BY <1>1, TypeParts
<1>4. Counting
  BY <1>1, SlotSteps
<1>5. Queue \in Seq(EnvelopeType) /\ Range(Queue) = Envelopes
  BY <1>2, QueueType
<1>6. CASE DeliverMessage
  BY <1>1, <1>4, <1>6, DeliverOrder
<1>7. CASE \E p \in Payloads : ProposeAccepted(p)
  <2>1. \A n \in Nodes : \A x \in Entries(n) : Numbered(x.view, x.sequence)
    <3> SUFFICES ASSUME NEW n \in Nodes, NEW x \in Entries(n)
                 PROVE  Numbered(x.view, x.sequence)
      OBVIOUS
    <3>1. x.view \in Views /\ x.sequence \in Seqs /\ x.payload \in Payload
      BY <1>3, EntryFields
    <3>2. Claimed(x.view, x.sequence, x.payload)
      BY DEF Claimed, Logged
    <3> QED
      BY <1>1, <3>1, <3>2 DEF ClaimInv, ClaimsNumbered
  <2> QED
    BY <1>1, <1>4, <1>7, <2>1, ProposeOrder
<1>8. CASE Tick
  <2>1. PICK out \in Seq(EnvelopeType) :
          Enqueue(out) /\ \A e \in Range(out) : ~AboutSlot(e.msg)
    BY <1>1, <1>8, TicksSendVotes
  <2>2. UNCHANGED inflight /\ UNCHANGED <<committed, slots>>
    BY <1>1, <1>8, TicksSendVotes
       DEF Tick, TickQuiet, TickCountdown, TickTimeout, nodeVars, logVars
  <2>3. Queue' = Queue \o out /\ Envelopes' = Envelopes \cup Range(out)
    BY <1>1, <1>2, <2>1, <2>2, QueueSteps, EnqueueEnvelopes
  <2>4. Ordered(out)
    BY <2>1, OneSlotOrdered DEF SameRound
  <2>5. \A d \in Range(Queue), e \in Range(out) : InOrder(d.msg, e.msg)
    BY <2>1 DEF InOrder
  <2>6. Ordered(Queue')
    BY <1>1, <1>5, <2>1, <2>3, <2>4, <2>5, ConcatOrdered
  <2> QED
    BY <1>1, <1>4, <2>1, <2>2, <2>3, <2>6, OrderKept
<1>9. CASE BeginStep \/ LoseMessage \/ ChangeFaults \/ UNCHANGED vars
           \/ \E p \in Payloads : ProposeRejected(p)
  <2>1. UNCHANGED nodeVars /\ Envelopes' \subseteq Envelopes
    BY <1>1, <1>9, ClusterSends
  <2>2. UNCHANGED <<committed, slots>>
    BY <2>1 DEF nodeVars
  <2>3. Ordered(Queue')
    <3>1. CASE BeginStep
      BY <1>1, <1>2, <3>1, QueueSteps DEF BeginStep
    <3>2. CASE LoseMessage
      BY <1>1, <1>2, <1>5, <3>2, QueueSteps, TailOrdered DEF LoseMessage
    <3>3. CASE ChangeFaults \/ UNCHANGED vars
               \/ \E p \in Payloads : ProposeRejected(p)
      <4>1. UNCHANGED <<inflight, pending>>
        BY <3>3 DEF ChangeFaults, SetFaults, vars, clusterVars, ProposeRejected
      <4> QED
        BY <1>1, <4>1 DEF Queue
    <3> QED
      BY <1>9, <3>1, <3>2, <3>3
  <2> QED
    BY <1>1, <1>4, <2>1, <2>2, <2>3, OrderKept
<1> QED
  BY <1>6, <1>7, <1>8, <1>9 DEF Next

LEMMA InitOrder == Init => OrderInv
<1> SUFFICES ASSUME Init
             PROVE  OrderInv
  OBVIOUS
<1>1. /\ inflight = <<>> /\ pending = <<>>
      /\ \A n \in Nodes : committed[n] = <<>>
      /\ \A n \in Nodes, s \in Seqs : slots[n][s] = NoSlot
  BY DEF Init, ClusterInit
<1>2. Envelopes = {} /\ Queue = <<>>
  BY <1>1, EmptyRange DEF Envelopes, Queue
<1>3. Ordered(Queue)
  BY <1>2 DEF Ordered
<1>4. MessagesNumbered /\ OffersOut /\ VotesPassed /\ EntriesPassed
  BY <1>2 DEF MessagesNumbered, OffersOut, VotesPassed, EntriesPassed
<1>5. PerViewOrder
  BY <1>1 DEF PerViewOrder
<1>6. NoStuckQuorum
  BY <1>1, NoVotesPassed DEF NoStuckQuorum, NotStuck
<1> QED
  BY <1>3, <1>4, <1>5, <1>6 DEF OrderInv

\* A node commits views in increasing order and the numbers of a view in
\* increasing order, each once, whatever is lost, for every cluster that
\* tolerates a fault: the rounds of a number never overtake those of another.
THEOREM CommitsInOrder ==
  ASSUME F > 0
  PROVE  Spec => []PerViewOrder
<1>1. Init => ConsensusInv /\ OrderInv
  BY InitConsensus, InitOrder
<1>2. ConsensusInv /\ OrderInv /\ [Next]_vars => (ConsensusInv /\ OrderInv)'
  BY ConsensusStep, OrderStep DEF ConsensusInv, SafeInv, TypeInv
<1>3. ConsensusInv /\ OrderInv => PerViewOrder
  BY DEF OrderInv
<1> QED
  BY <1>1, <1>2, <1>3, PTL DEF Spec

\* No slot is left with a commit quorum nobody looks at: where the cluster
\* tolerates a fault, a node's own vote never completes one.
THEOREM NoQuorumStuck ==
  ASSUME F > 0
  PROVE  Spec => []NoStuckQuorum
<1>1. Init => ConsensusInv /\ OrderInv
  BY InitConsensus, InitOrder
<1>2. ConsensusInv /\ OrderInv /\ [Next]_vars => (ConsensusInv /\ OrderInv)'
  BY ConsensusStep, OrderStep DEF ConsensusInv, SafeInv, TypeInv
<1>3. ConsensusInv /\ OrderInv => NoStuckQuorum
  BY DEF OrderInv
<1> QED
  BY <1>1, <1>2, <1>3, PTL DEF Spec
-----------------------------------------------------------------------------
(***************************************************************************)
(* What check_invariants looks at does not know views.  Its checks follow  *)
(* from the invariants above as long as all that honest nodes committed    *)
(* comes from one view; a new primary numbers on from its own log only.    *)
(***************************************************************************)
CommittedIn(v) == \A n \in HonestNodes : \A e \in Entries(n) : e.view = v

LEMMA HonestAreNodes == HonestNodes \subseteq Nodes
BY DEF HonestNodes

\* check_agreement passes: within a view whose primary never equivocates,
\* honest nodes commit one payload for a number.
THEOREM AgreementInOneView ==
  ASSUME NEW v \in Views, Primary(v) \in NeverEquivocates
  PROVE  Spec => [](CommittedIn(v) => Agreement)
<1>1. SafeInv => (CommittedIn(v) => Agreement)
  <2> SUFFICES ASSUME SafeInv, CommittedIn(v),
                      NEW i \in HonestNodes, NEW a \in Entries(i),
                      NEW j \in HonestNodes, NEW b \in Entries(j),
                      b.sequence = a.sequence
               PROVE  b.payload = a.payload
    BY DEF Agreement, CheckAgreement, Entries
  <2>1. a.view = v /\ b.view = v /\ i \in Nodes /\ j \in Nodes
    BY HonestAreNodes DEF CommittedIn
  <2>2. PerViewAgreement
    BY ClaimsAgree DEF SafeInv, TypeInv
  <2> QED
    BY <2>1, <2>2 DEF PerViewAgreement
<1> QED
  BY <1>1, InitSafe, SafeStep, PTL DEF Spec

\* check_integrity passes: no node commits a number of a view twice.
THEOREM IntegrityInOneView ==
  ASSUME NEW v \in Views
  PROVE  Spec => [](CommittedIn(v) => Integrity)
<1>1. ConsensusInv => (CommittedIn(v) => Integrity)
  <2> SUFFICES ASSUME ConsensusInv, CommittedIn(v), NEW n \in HonestNodes,
                      NEW l \in DOMAIN committed[n], NEW k \in 1 .. l - 1,
                      committed[n][k].sequence = committed[n][l].sequence
               PROVE  FALSE
    BY DEF Integrity, CheckIntegrity
  <2>1. n \in Nodes /\ LogTypeOK /\ EntriesOnce
    BY HonestAreNodes, TypeParts
       DEF ConsensusInv, SafeInv, TypeInv, EntryInv
  <2>2. DOMAIN committed[n] = 1 .. Len(committed[n]) /\ Len(committed[n]) \in Nat
    BY <2>1, LenProperties DEF LogTypeOK
  <2>3. k \in DOMAIN committed[n] /\ k \in 1 .. Len(committed[n])
        /\ l \in 1 .. Len(committed[n]) /\ k # l
    BY <2>2
  <2>4. committed[n][k].view = v /\ committed[n][l].view = v
    BY <2>3 DEF CommittedIn, Entries, EntriesOf
  <2> QED
    BY <2>1, <2>3, <2>4 DEF EntriesOnce
<1> QED
  BY <1>1, InitConsensus, ConsensusStep, PTL DEF Spec

\* Numbers that two honest nodes both committed come in the same order on
\* both, where the cluster tolerates a fault.
THEOREM TotalOrderInOneView ==
  ASSUME F > 0, NEW v \in Views
  PROVE  Spec => [](CommittedIn(v) => TotalOrder)
<1>1. TypeOK /\ PerViewOrder => (CommittedIn(v) => TotalOrder)
  <2> SUFFICES ASSUME TypeOK, PerViewOrder, CommittedIn(v),
                      NEW m \in HonestNodes, NEW n \in HonestNodes,
                      NEW a \in DOMAIN committed[m],
                      NEW b \in DOMAIN committed[m],
                      NEW c \in DOMAIN committed[n],
                      NEW d \in DOMAIN committed[n],
                      committed[m][a].sequence = committed[n][c].sequence,
                      committed[m][b].sequence = committed[n][d].sequence,
                      a < b
               PROVE  c <= d
    BY DEF TotalOrder, SameRelativeOrder
  <2>1. ASSUME NEW i \in HonestNodes, NEW k \in DOMAIN committed[i]
        PROVE  /\ i \in Nodes /\ k \in Nat
               /\ committed[i][k].view = v
               /\ committed[i][k].sequence \in Nat
    <3>1. i \in Nodes /\ LogTypeOK /\ committed[i][k] \in Entries(i)
      BY HonestAreNodes, TypeParts DEF Entries, EntriesOf
    <3>2. committed[i][k].sequence \in Seqs
      BY <3>1, EntryFields
    <3>3. k \in 1 .. Len(committed[i])
      BY <3>1, LenProperties DEF LogTypeOK
    <3> QED
      BY <3>1, <3>2, <3>3 DEF CommittedIn, Seqs
  <2>2. committed[m][a].sequence < committed[m][b].sequence
    <3>1. /\ m \in Nodes
          /\ committed[m][a].view = v /\ committed[m][b].view = v
      BY <2>1
    <3>2. v \in Nat
      BY DEF Views
    <3> QED
      BY <3>1, <3>2 DEF PerViewOrder
  <2>3. d < c => committed[n][d].sequence < committed[n][c].sequence
    <3>1. /\ n \in Nodes
          /\ committed[n][c].view = v /\ committed[n][d].view = v
      BY <2>1
    <3>2. v \in Nat
      BY DEF Views
    <3> QED
      BY <3>1, <3>2 DEF PerViewOrder
  <2>4. /\ committed[n][c].sequence \in Nat /\ committed[n][d].sequence \in Nat
        /\ c \in Nat /\ d \in Nat
    BY <2>1
  <2> QED
    BY <2>2, <2>3, <2>4
<1> QED
  BY <1>1, CommitsInOrder, TypeCorrect, PTL
=============================================================================
