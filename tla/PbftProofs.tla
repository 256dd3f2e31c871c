----------------------------- MODULE PbftProofs -----------------------------
(***************************************************************************)
(* Proofs about module Pbft, for every number of nodes, every set of fault *)
(* configurations and every value of the bounds: types, what a slot is     *)
(* claimed for, what a node holds of an undecided slot, and that a view is *)
(* only entered on the votes of a quorum.                                  *)
(***************************************************************************)
EXTENDS Pbft, SequenceTheorems, FiniteSetTheorems, TLAPS

-----------------------------------------------------------------------------
(* Lemmas about the operators *)

\* The primary of a view is a node.
LEMMA PrimaryIsNode == \A v \in Nat : Primary(v) \in Nodes
  BY SizeAssumption, SMT DEF Primary, Nodes

\* A peer of a node is another node.
LEMMA PeerIsOther ==
  \A i \in Nodes : \A k \in 1 .. N - 1 : Peer(i, k) \in Nodes \ {i}
  BY SizeAssumption, SMT DEF Peer, Nodes

\* A broadcast is a sequence of envelopes, all from the sender and none to it.
LEMMA BroadcastType ==
  ASSUME NEW i \in Nodes, NEW m \in Message
  PROVE  Broadcast(i, m) \in Seq(EnvelopeType)
<1>1. \A k \in 1 .. N - 1 : Envelope(i, Peer(i, k), m) \in EnvelopeType
  BY PeerIsOther DEF Envelope, EnvelopeType
<1>2. N - 1 \in Nat
  BY SizeAssumption
<1>3. Broadcast(i, m) \in [1 .. N - 1 -> EnvelopeType]
  BY <1>1 DEF Broadcast
<1> QED
  BY <1>2, <1>3, SeqDef

\* Tampering with a message yields a message.
LEMMA TamperedType ==
  ASSUME NEW e \in EnvelopeType, faults \in FaultConfig
  PROVE  Tampered(e) \in Message
<1>1. ASSUME NEW m \in Message
      PROVE  Equivocated(m, e.to) \in Message
  <2>1. CASE m.type = "PrePrepare"
    <3>1. /\ m \in [type : {"PrePrepare"}, view : Views, sequence : Seqs,
                    digest : Digest, payload : Payload]
          /\ m.payload \in Payload
      BY <2>1 DEF Message
    <3>2. Extended(m.payload) \in Payload
      BY <3>1 DEF Extended, Payload
    <3>3. DigestOf(Extended(m.payload)) \in Digest
      BY <3>2 DEF DigestOf, Digest
    <3> QED
      BY <3>1, <3>2, <3>3 DEF Equivocated, Message
  <2>2. CASE m.type # "PrePrepare"
    BY <2>2 DEF Equivocated, Message
  <2> QED
    BY <2>1, <2>2
<1>2. ASSUME NEW m \in Message
      PROVE  Corrupted(m) \in Message
  <2>1. CASE m.type = "PrePrepare"
    <3>1. /\ m \in [type : {"PrePrepare"}, view : Views, sequence : Seqs,
                    digest : Digest, payload : Payload]
          /\ FlipBits(m.digest) \in Digest
      BY <2>1 DEF Message, FlipBits, Digest
    <3> QED
      BY <2>1, <3>1 DEF Corrupted, Message
  <2>2. CASE m.type \in {"Prepare", "Commit"}
    <3>1. /\ m \in [type : {"Prepare", "Commit"}, view : Views,
                    sequence : Seqs, digest : Digest, replica : Nodes]
          /\ FlipBits(m.digest) \in Digest
      BY <2>2 DEF Message, FlipBits, Digest
    <3> QED
      BY <2>2, <3>1 DEF Corrupted, Message
  <2>3. CASE m.type \notin {"PrePrepare", "Prepare", "Commit"}
    BY <2>3 DEF Corrupted, Message
  <2> QED
    BY <2>1, <2>2, <2>3
<1>3. e.msg \in Message
  BY DEF EnvelopeType
<1> QED
  BY <1>1, <1>2, <1>3 DEF Tampered

\* No fault is a fault configuration.
LEMMA FaultsType ==
  ASSUME faults \in FaultConfigs \cup {NoFaults}
  PROVE  faults \in FaultConfig
<1>1. NoFaults \in FaultConfig
  BY DEF NoFaults, FaultConfig, Honest, Behaviour
<1> QED
  BY <1>1, FaultAssumption

-----------------------------------------------------------------------------
(***************************************************************************)
(* Type correctness.  TypeOK is not inductive: a tick that has started     *)
(* must not carry a node beyond MaxView, and the guard TickAllowed is only *)
(* evaluated when it starts.  TickBounded says what remains of it for the  *)
(* nodes the running tick has not reached.                                 *)
(***************************************************************************)
NetTypeOK ==
    /\ pending \in Seq(EnvelopeType)
    /\ inflight \in Seq(EnvelopeType)
    /\ ticking \in Nodes
    /\ faults \in FaultConfigs \cup {NoFaults}
    /\ drops \in 0 .. MaxDrops
    /\ faultChanges \in 0 .. MaxFaultChanges

LogTypeOK ==
    /\ slots \in [Nodes -> [Seqs -> SlotState]]
    /\ pendingPayloads \in [Nodes -> [Seqs -> Payload \cup {None}]]
    /\ committed \in [Nodes -> Seq(CommittedEntry)]
    /\ highestCommittedSeq \in [Nodes -> Nat]

ViewTypeOK ==
    /\ view \in [Nodes -> Views]
    /\ nextSequence \in [Nodes -> Nat \ {0}]
    /\ viewChangeTimeout \in [Nodes -> 0 .. VIEW_CHANGE_TIMEOUT]
    /\ viewChangeInProgress \in [Nodes -> BOOLEAN]
    /\ viewChangeVotes \in [Nodes -> SUBSET (Views \X Nodes)]

OutcomeOK == outcome \in [Payloads -> {"unsent", "accepted", "rejected"}]

TickBounded ==
    ticking # 0 =>
        /\ inflight = <<>>
        /\ \A i \in Nodes :
             i >= ticking /\ Monitors(i) /\ viewChangeTimeout[i] = 0
                => view[i] < MaxView

TypeInv == TypeOK /\ TickBounded

LEMMA TypeParts ==
  TypeOK <=> NetTypeOK /\ LogTypeOK /\ ViewTypeOK /\ OutcomeOK
  BY DEF TypeOK, NetTypeOK, LogTypeOK, ViewTypeOK, OutcomeOK

\* A slot a node may hold is in the type of slots.
LEMMA SlotTypes ==
  /\ NoSlot \in SlotState
  /\ \A v \in Views : PrePreparedSlot(v) \in SlotState
<1>1. NoSlot \in SlotState
  BY PbftAssumption DEF NoSlot, SlotState, Phase, Views
<1>2. ASSUME NEW v \in Views
      PROVE  PrePreparedSlot(v) \in SlotState
  <2>1. \A x \in SlotState :
          [x EXCEPT !.phase = "PrePrepared", !.view = v] \in SlotState
    BY DEF SlotState, Phase
  <2> QED
    BY <1>1, <2>1 DEF PrePreparedSlot
<1> QED
  BY <1>1, <1>2

\* The messages nodes send are messages.
LEMMA MessageTypes ==
  /\ \A v \in Views, s \in Seqs, p \in Payload :
       PrePrepareMsg(v, s, p) \in Message /\ DigestOf(p) \in Digest
  /\ \A v \in Views, s \in Seqs, d \in Digest, i \in Nodes :
       PrepareMsg(v, s, d, i) \in Message /\ CommitMsg(v, s, d, i) \in Message
  /\ \A v \in Views, i \in Nodes, last \in Nat :
       ViewChangeMsg(v, i, last) \in Message
  /\ \A v \in Views, next \in Nat \ {0} : NewViewMsg(v, next) \in Message
<1>1. \A p \in Payload : DigestOf(p) \in Digest
  BY DEF DigestOf, Digest
<1>2. \A v \in Views, s \in Seqs, p \in Payload :
        PrePrepareMsg(v, s, p) \in Message
  BY <1>1 DEF PrePrepareMsg, Message
<1>3. \A v \in Views, s \in Seqs, d \in Digest, i \in Nodes :
        PrepareMsg(v, s, d, i) \in Message /\ CommitMsg(v, s, d, i) \in Message
  BY DEF PrepareMsg, CommitMsg, Message
<1>4. \A v \in Views, i \in Nodes, last \in Nat :
        ViewChangeMsg(v, i, last) \in Message
  BY DEF ViewChangeMsg, Message
<1>5. \A v \in Views, next \in Nat \ {0} : NewViewMsg(v, next) \in Message
  BY DEF NewViewMsg, Message
<1> QED
  BY <1>1, <1>2, <1>3, <1>4, <1>5

\* A delivery keeps the network well-typed when the handler sends envelopes.
LEMMA ConsumeType ==
  ASSUME NetTypeOK, inflight # <<>>,
         NEW out \in Seq(EnvelopeType), Consume(out)
  PROVE  NetTypeOK'
<1>1. Tail(inflight) \in Seq(EnvelopeType)
  BY HeadTailProperties DEF NetTypeOK
<1>2. pending \o out \in Seq(EnvelopeType)
  BY ConcatProperties DEF NetTypeOK
<1> QED
  BY <1>1, <1>2 DEF NetTypeOK, Consume, Enqueue

\* So does a turn of a tick.
LEMMA TickTurnType ==
  ASSUME NetTypeOK, NEW i \in Nodes,
         NEW out \in Seq(EnvelopeType), TickTurn(i, out)
  PROVE  NetTypeOK'
<1>1. pending \o out \in Seq(EnvelopeType)
  BY ConcatProperties DEF NetTypeOK
<1>2. (ticking + 1) % N \in Nodes
  BY SizeAssumption DEF NetTypeOK, Nodes
<1> QED
  BY <1>1, <1>2 DEF NetTypeOK, TickTurn, Enqueue

\* What is delivered reaches a node, as a message.
LEMMA DeliveredType ==
  ASSUME NetTypeOK, Deliverable
  PROVE  /\ inflight # <<>>
         /\ Head(inflight) \in EnvelopeType
         /\ Head(inflight).to \in Nodes
         /\ Tampered(Head(inflight)) \in Message
<1>1. inflight # <<>> /\ Head(inflight) \in EnvelopeType
  BY HeadTailProperties DEF NetTypeOK, Deliverable
<1> QED
  BY <1>1, TamperedType, FaultsType DEF NetTypeOK, EnvelopeType

LEMMA InitType == Init => TypeInv
<1> SUFFICES ASSUME Init PROVE TypeInv
  OBVIOUS
<1>1. NetTypeOK
  BY SizeAssumption, FaultAssumption, EmptySeq
     DEF Init, ClusterInit, NetTypeOK, Nodes
<1>2. LogTypeOK
  BY SlotTypes, EmptySeq DEF Init, LogTypeOK
<1>3. ViewTypeOK /\ OutcomeOK
  BY PbftAssumption DEF Init, ViewTypeOK, OutcomeOK, Views
<1>4. TickBounded
  BY DEF Init, ClusterInit, TickBounded
<1> QED
  BY <1>1, <1>2, <1>3, <1>4, TypeParts DEF TypeInv

\* The client's proposal.
LEMMA ProposeType ==
  ASSUME TypeOK, NEW p \in Payloads, ProposeAccepted(p)
  PROVE  TypeOK'
<1>1. PICK i \in Asked : /\ Answer(ProposalTarget(i)) = "Accepted"
                         /\ Assign(ProposalTarget(i), <<p, 0>>)
  BY DEF ProposeAccepted
<1> DEFINE j == ProposalTarget(i)
           q == <<p, 0>>
           s == nextSequence[j]
<1>2. view \in [Nodes -> Views] /\ Views \subseteq Nat
  BY DEF TypeOK, Views
<1>3. j \in Nodes
  BY <1>1, <1>2, PrimaryIsNode DEF ProposalTarget, Asked
<1>4. q \in Payload /\ view[j] \in Views /\ s \in Seqs
  <2>1. q \in Payload /\ view[j] \in Views
    BY <1>2, <1>3 DEF Payload
  <2>2. s \in Nat \ {0} /\ s <= MaxSeq
    BY <1>1, <1>3, TypeParts DEF ViewTypeOK, Assign
  <2> HIDE DEF s
  <2> QED
    BY <2>1, <2>2, PbftAssumption DEF Seqs
<1>5. /\ Broadcast(j, PrePrepareMsg(view[j], s, q)) \in Seq(EnvelopeType)
      /\ Broadcast(j, PrepareMsg(view[j], s, DigestOf(q), j))
           \in Seq(EnvelopeType)
  BY <1>3, <1>4, MessageTypes, BroadcastType
<1>6. pending' \in Seq(EnvelopeType)
  BY <1>1, <1>5, ConcatProperties DEF Assign, Enqueue, TypeOK
<1>7. NetTypeOK'
  BY <1>6 DEF ProposeAccepted, TypeOK, NetTypeOK
<1>8. LogTypeOK'
  <2>1. slots' = [slots EXCEPT ![j][s] = PrePreparedSlot(view[j])]
    BY <1>1 DEF Assign
  <2>2. pendingPayloads' = [pendingPayloads EXCEPT ![j][s] = q]
    BY <1>1 DEF Assign
  <2>3. PrePreparedSlot(view[j]) \in SlotState
    BY <1>4, SlotTypes
  <2> HIDE DEF j, q, s
  <2>4. slots' \in [Nodes -> [Seqs -> SlotState]]
    BY <2>1, <2>3, <1>3, <1>4 DEF TypeOK
  <2>5. pendingPayloads' \in [Nodes -> [Seqs -> Payload \cup {None}]]
    BY <2>2, <1>3, <1>4 DEF TypeOK
  <2> QED
    BY <2>4, <2>5 DEF LogTypeOK, TypeOK, ProposeAccepted
<1>9. ViewTypeOK' /\ OutcomeOK'
  <2>1. nextSequence' = [nextSequence EXCEPT ![j] = s + 1]
    BY <1>1 DEF Assign
  <2>2. s + 1 \in Nat \ {0}
    BY <1>4 DEF Seqs
  <2> HIDE DEF j, q, s
  <2>3. nextSequence' \in [Nodes -> Nat \ {0}]
    BY <2>1, <2>2 DEF TypeOK
  <2>4. OutcomeOK'
    BY DEF ProposeAccepted, TypeOK, OutcomeOK
  <2> QED
    BY <2>3, <2>4 DEF ProposeAccepted, ViewTypeOK, TypeOK
<1> QED
  BY <1>7, <1>8, <1>9, TypeParts, PTL

\* What the type of a message says of its fields.
LEMMA MessageFields ==
  ASSUME NEW m \in Message
  PROVE  /\ m.type = "PrePrepare" =>
              /\ m.view \in Views
              /\ m.sequence \in Seqs
              /\ m.digest \in Digest
              /\ m.payload \in Payload
         /\ m.type \in {"Prepare", "Commit"} =>
              /\ m.view \in Views
              /\ m.sequence \in Seqs
              /\ m.digest \in Digest
              /\ m.replica \in Nodes
         /\ m.type = "ViewChange" => m.newView \in Views /\ m.replica \in Nodes
         /\ m.type = "NewView" =>
              m.view \in Views /\ m.nextSequence \in Nat \ {0}
  BY DEF Message

LEMMA HandlePrePrepareType ==
  ASSUME TypeOK, inflight # <<>>, NEW i \in Nodes, NEW m \in Message,
         HandlePrePrepare(i, m)
  PROVE  TypeOK'
<1> DEFINE out == Broadcast(i, PrepareMsg(m.view, m.sequence, m.digest, i))
<1>1. /\ m.view \in Views
      /\ m.sequence \in Seqs
      /\ m.digest \in Digest
      /\ m.payload \in Payload
  BY MessageFields DEF HandlePrePrepare, AcceptsPrePrepare
<1>2. out \in Seq(EnvelopeType)
  BY <1>1, MessageTypes, BroadcastType
<1>3. NetTypeOK'
  BY <1>2, ConsumeType, TypeParts DEF HandlePrePrepare
<1>4. PrePreparedSlot(m.view) \in SlotState
  BY <1>1, SlotTypes
<1>5. LogTypeOK'
  BY <1>1, <1>4, TypeParts DEF HandlePrePrepare, LogTypeOK
<1>6. ViewTypeOK' /\ OutcomeOK'
  BY PbftAssumption, TypeParts
     DEF HandlePrePrepare, ViewTypeOK, OutcomeOK, viewVars
<1> QED
  BY <1>3, <1>5, <1>6, TypeParts, PTL

LEMMA PrepareType ==
  ASSUME TypeOK, inflight # <<>>, NEW i \in Nodes, NEW m \in Message,
         RecordPrepare(i, m) \/ BecomePrepared(i, m)
  PROVE  TypeOK'
<1> DEFINE out == Broadcast(i, CommitMsg(m.view, m.sequence, m.digest, i))
<1>1. /\ m.view \in Views
      /\ m.sequence \in Seqs
      /\ m.digest \in Digest
      /\ m.replica \in Nodes
  BY MessageFields DEF RecordPrepare, BecomePrepared, AcceptsPrepare
<1>2. out \in Seq(EnvelopeType) /\ <<>> \in Seq(EnvelopeType)
  BY <1>1, MessageTypes, BroadcastType, EmptySeq
<1>3. NetTypeOK'
  BY <1>2, ConsumeType, TypeParts DEF RecordPrepare, BecomePrepared
<1>4. PrepareVoters(i, m) \in SUBSET Nodes
  <2>1. slots[i][m.sequence] \in SlotState
    BY <1>1, TypeParts DEF LogTypeOK
  <2> QED
    BY <1>1, <2>1 DEF PrepareVoters, SlotState
<1>5. slots' \in [Nodes -> [Seqs -> SlotState]]
  <2> DEFINE slot == slots[i][m.sequence]
  <2>1. slot \in SlotState
    BY <1>1 DEF TypeOK
  <2>2. CASE RecordPrepare(i, m)
    <3>1. [slot EXCEPT !.prepareVoters = PrepareVoters(i, m)] \in SlotState
      BY <2>1, <1>4 DEF SlotState
    <3> QED
      BY <2>2, <3>1, <1>1 DEF RecordPrepare, TypeOK
  <2>3. CASE BecomePrepared(i, m)
    <3> DEFINE new == [slot EXCEPT !.phase = "Prepared",
                                   !.prepareVoters = PrepareVoters(i, m),
                                   !.commitVoters = slot.commitVoters \cup {i}]
    <3>1. new \in SlotState
      BY <2>1, <1>4 DEF SlotState, Phase
    <3>2. slots' = [slots EXCEPT ![i][m.sequence] = new]
      BY <2>3 DEF BecomePrepared
    <3> HIDE DEF new
    <3> QED
      BY <3>1, <3>2, <1>1 DEF TypeOK
  <2> QED
    BY <2>2, <2>3
<1>6. LogTypeOK' /\ ViewTypeOK' /\ OutcomeOK'
  BY <1>5 DEF RecordPrepare, BecomePrepared, LogTypeOK, ViewTypeOK, OutcomeOK,
              TypeOK, viewVars
<1> QED
  BY <1>3, <1>6, TypeParts, PTL

LEMMA CommitType ==
  ASSUME TypeOK, inflight # <<>>, NEW i \in Nodes, NEW m \in Message,
         RecordCommit(i, m) \/ BecomeCommitted(i, m)
  PROVE  TypeOK'
<1>1. /\ m.sequence \in Seqs
      /\ m.replica \in Nodes
  BY MessageFields DEF RecordCommit, BecomeCommitted, AcceptsCommit
<1>2. <<>> \in Seq(EnvelopeType)
  BY EmptySeq
<1>3. NetTypeOK'
  BY <1>2, ConsumeType, TypeParts DEF RecordCommit, BecomeCommitted
<1>4. /\ slots \in [Nodes -> [Seqs -> SlotState]]
      /\ pendingPayloads \in [Nodes -> [Seqs -> Payload \cup {None}]]
      /\ committed \in [Nodes -> Seq(CommittedEntry)]
      /\ highestCommittedSeq \in [Nodes -> Nat]
      /\ view \in [Nodes -> Views]
  BY TypeParts DEF LogTypeOK, ViewTypeOK
<1>5. /\ slots[i][m.sequence] \in SlotState
      /\ CommitVoters(i, m) \in SUBSET Nodes
  BY <1>1, <1>4 DEF CommitVoters, SlotState
<1>6. CASE RecordCommit(i, m)
  <2>1. [slots[i][m.sequence] EXCEPT !.commitVoters = CommitVoters(i, m)]
          \in SlotState
    BY <1>5 DEF SlotState
  <2>2. slots' \in [Nodes -> [Seqs -> SlotState]]
    BY <1>1, <1>4, <1>6, <2>1 DEF RecordCommit
  <2>3. LogTypeOK' /\ ViewTypeOK' /\ OutcomeOK'
    BY <1>6, <2>2, TypeParts
       DEF RecordCommit, LogTypeOK, ViewTypeOK, OutcomeOK, viewVars
  <2> QED
    BY <1>3, <2>3, TypeParts, PTL
<1>7. CASE BecomeCommitted(i, m)
  <2> DEFINE s == m.sequence
             p == pendingPayloads[i][s]
             e == [sequence |-> s, payload |-> p, view |-> view[i]]
  <2>1. [slots[i][s] EXCEPT !.phase = "Committed",
                            !.commitVoters = CommitVoters(i, m)] \in SlotState
    BY <1>5 DEF SlotState, Phase
  <2>2. slots' \in [Nodes -> [Seqs -> SlotState]]
    BY <1>1, <1>4, <1>7, <2>1 DEF BecomeCommitted
  <2>3. pendingPayloads' \in [Nodes -> [Seqs -> Payload \cup {None}]]
    BY <1>1, <1>4, <1>7 DEF BecomeCommitted
  <2>4. highestCommittedSeq' \in [Nodes -> Nat]
    BY <1>1, <1>4, <1>7 DEF BecomeCommitted, Seqs
  <2>5. committed' \in [Nodes -> Seq(CommittedEntry)]
    <3>1. CASE p = None
      BY <1>4, <1>7, <3>1 DEF BecomeCommitted
    <3>2. CASE p # None
      <4>1. e \in CommittedEntry
        BY <1>1, <1>4, <3>2 DEF CommittedEntry
      <4>2. Append(committed[i], e) \in Seq(CommittedEntry)
        BY <1>4, <4>1, AppendProperties
      <4>3. committed' = [committed EXCEPT ![i] = Append(committed[i], e)]
        BY <1>7, <3>2 DEF BecomeCommitted
      <4> HIDE DEF e
      <4> QED
        BY <1>4, <4>2, <4>3
    <3> QED
      BY <3>1, <3>2
  <2>6. LogTypeOK' /\ ViewTypeOK' /\ OutcomeOK'
    BY <1>7, <2>2, <2>3, <2>4, <2>5, TypeParts
       DEF BecomeCommitted, LogTypeOK, ViewTypeOK, OutcomeOK, viewVars
  <2> QED
    BY <1>3, <2>6, TypeParts, PTL
<1> QED
  BY <1>6, <1>7

\* Entering a view leaves the log and the view variables well-typed.
LEMMA EnterNewViewType ==
  ASSUME TypeOK, NEW i \in Nodes, NEW v \in Views, NEW next \in Nat \ {0},
         EnterNewView(i, v, next)
  PROVE  /\ view' \in [Nodes -> Views]
         /\ nextSequence' \in [Nodes -> Nat \ {0}]
         /\ viewChangeTimeout' \in [Nodes -> 0 .. VIEW_CHANGE_TIMEOUT]
         /\ viewChangeInProgress' \in [Nodes -> BOOLEAN]
         /\ slots' \in [Nodes -> [Seqs -> SlotState]]
         /\ pendingPayloads' \in [Nodes -> [Seqs -> Payload \cup {None}]]
<1>1. /\ view' \in [Nodes -> Views]
      /\ nextSequence' \in [Nodes -> Nat \ {0}]
      /\ viewChangeTimeout' \in [Nodes -> 0 .. VIEW_CHANGE_TIMEOUT]
      /\ viewChangeInProgress' \in [Nodes -> BOOLEAN]
  BY PbftAssumption DEF EnterNewView, TypeOK
<1> DEFINE kept == [s \in Seqs |-> IF slots[i][s].phase = "Committed"
                                     THEN slots[i][s] ELSE NoSlot]
           cleared == [s \in Seqs |-> None]
<1>2. kept \in [Seqs -> SlotState]
  BY SlotTypes DEF TypeOK
<1>3. cleared \in [Seqs -> Payload \cup {None}]
  OBVIOUS
<1>4. /\ slots' = [slots EXCEPT ![i] = kept]
      /\ pendingPayloads' = [pendingPayloads EXCEPT ![i] = cleared]
  BY DEF EnterNewView
<1> HIDE DEF kept, cleared
<1>5. slots' \in [Nodes -> [Seqs -> SlotState]]
  BY <1>2, <1>4 DEF TypeOK
<1>6. pendingPayloads' \in [Nodes -> [Seqs -> Payload \cup {None}]]
  BY <1>3, <1>4 DEF TypeOK
<1> QED
  BY <1>1, <1>5, <1>6

LEMMA ViewChangeType ==
  ASSUME TypeOK, inflight # <<>>, NEW i \in Nodes, NEW m \in Message,
         JoinViewChange(i, m) \/ BecomePrimary(i, m)
  PROVE  TypeOK'
<1> DEFINE next == highestCommittedSeq[i] + 1
           lead == Broadcast(i, NewViewMsg(m.newView, next))
<1>1. m.newView \in Views /\ m.replica \in Nodes
  BY MessageFields DEF JoinViewChange, BecomePrimary, AcceptsViewChange
<1>2. highestCommittedSeq[i] \in Nat /\ next \in Nat \ {0}
  BY DEF TypeOK
<1>3. JoinMessages(i, m) \in Seq(EnvelopeType)
  BY <1>1, <1>2, MessageTypes, BroadcastType, EmptySeq DEF JoinMessages
<1>4. lead \in Seq(EnvelopeType)
  BY <1>1, <1>2, MessageTypes, BroadcastType
<1>5. JoinMessages(i, m) \o lead \in Seq(EnvelopeType)
  BY <1>3, <1>4, ConcatProperties
<1>6. NetTypeOK'
  BY <1>3, <1>5, ConsumeType, TypeParts DEF JoinViewChange, BecomePrimary
<1>7. viewChangeVotes' \in [Nodes -> SUBSET (Views \X Nodes)]
  <2>1. {<<m.newView, m.replica>>, <<m.newView, i>>} \subseteq Views \X Nodes
    BY <1>1
  <2>2. viewChangeVotes[i] \cup {<<m.newView, m.replica>>, <<m.newView, i>>}
          \in SUBSET (Views \X Nodes)
    BY <2>1 DEF TypeOK
  <2> QED
    BY <2>2 DEF JoinViewChange, BecomePrimary, RecordViewChange, TypeOK
<1>8. CASE JoinViewChange(i, m)
  <2>1. LogTypeOK' /\ ViewTypeOK' /\ OutcomeOK'
    BY <1>7, <1>8 DEF JoinViewChange, LogTypeOK, ViewTypeOK, OutcomeOK,
                      TypeOK, logVars
  <2> QED
    BY <1>6, <2>1, TypeParts, PTL
<1>9. CASE BecomePrimary(i, m)
  <2>1. EnterNewView(i, m.newView, next)
    BY <1>9 DEF BecomePrimary
  <2>2. LogTypeOK' /\ ViewTypeOK' /\ OutcomeOK'
    BY <1>1, <1>2, <1>7, <1>9, <2>1, EnterNewViewType
       DEF BecomePrimary, LogTypeOK, ViewTypeOK, OutcomeOK, TypeOK
  <2> QED
    BY <1>6, <2>2, TypeParts, PTL
<1> QED
  BY <1>8, <1>9

LEMMA HandleNewViewType ==
  ASSUME TypeOK, inflight # <<>>, NEW i \in Nodes, NEW m \in Message,
         HandleNewView(i, m)
  PROVE  TypeOK'
<1>1. m.view \in Views /\ m.nextSequence \in Nat \ {0}
  BY MessageFields DEF HandleNewView, AcceptsNewView
<1>2. NetTypeOK'
  BY EmptySeq, ConsumeType, TypeParts DEF HandleNewView
<1>3. LogTypeOK' /\ ViewTypeOK' /\ OutcomeOK'
  BY <1>1, EnterNewViewType
     DEF HandleNewView, LogTypeOK, ViewTypeOK, OutcomeOK, TypeOK
<1> QED
  BY <1>2, <1>3, TypeParts, PTL

\* Variables of the nodes left alone keep their types.
LEMMA NodesUnchangedType ==
  ASSUME TypeOK, NetTypeOK', UNCHANGED nodeVars, OutcomeOK'
  PROVE  TypeOK'
<1>1. LogTypeOK' /\ ViewTypeOK'
  BY DEF nodeVars, LogTypeOK, ViewTypeOK, TypeOK
<1> QED
  BY <1>1, TypeParts, PTL

LEMMA DeliverType ==
  ASSUME TypeOK, DeliverMessage
  PROVE  TypeOK'
<1> DEFINE i == Head(inflight).to
           m == Tampered(Head(inflight))
<1>1. Deliverable /\ HandleMessage(i, m)
  BY DEF DeliverMessage
<1>2. inflight # <<>> /\ i \in Nodes /\ m \in Message
  BY <1>1, DeliveredType, TypeParts
<1> HIDE DEF i, m
<1>3. CASE HandlePrePrepare(i, m)
  BY <1>2, <1>3, HandlePrePrepareType
<1>4. CASE RecordPrepare(i, m) \/ BecomePrepared(i, m)
  BY <1>2, <1>4, PrepareType
<1>5. CASE RecordCommit(i, m) \/ BecomeCommitted(i, m)
  BY <1>2, <1>5, CommitType
<1>6. CASE JoinViewChange(i, m) \/ BecomePrimary(i, m)
  BY <1>2, <1>6, ViewChangeType
<1>7. CASE HandleNewView(i, m)
  BY <1>2, <1>7, HandleNewViewType
<1>8. CASE Discard(i, m)
  <2>1. NetTypeOK'
    BY <1>2, <1>8, EmptySeq, ConsumeType, TypeParts DEF Discard
  <2>2. OutcomeOK'
    BY <1>8 DEF Discard, OutcomeOK, TypeOK
  <2> QED
    BY <1>8, <2>1, <2>2, NodesUnchangedType DEF Discard
<1> QED
  BY <1>1, <1>3, <1>4, <1>5, <1>6, <1>7, <1>8 DEF HandleMessage

\* The turn after that of node t belongs to the next node, if there is one.
LEMMA NextTurn ==
  \A t \in Nodes : (t + 1) % N # 0 => (t + 1) % N = t + 1
<1> TAKE t \in Nodes
<1>1. CASE t + 1 < N
  BY <1>1, SizeAssumption DEF Nodes
<1>2. CASE t + 1 = N
  BY <1>2, SizeAssumption DEF Nodes
<1> QED
  BY <1>1, <1>2, SizeAssumption DEF Nodes

\* The node whose turn it is may still time out within MaxView.
LEMMA TickRoom ==
  ASSUME TypeInv, Tick, NEW j \in Nodes, j >= ticking,
         Monitors(j), viewChangeTimeout[j] = 0
  PROVE  view[j] < MaxView
  BY DEF TypeInv, Tick, TickAllowed, TickBounded

LEMMA TickType ==
  ASSUME TypeInv, Tick
  PROVE  TypeInv'
<1>1. PICK i \in Nodes : TickQuiet(i) \/ TickCountdown(i) \/ TickTimeout(i)
  BY DEF Tick
<1> DEFINE v == view[i] + 1
           out == Broadcast(i, ViewChangeMsg(v, i, highestCommittedSeq[i]))
<1>2. TypeOK /\ i = ticking /\ inflight = <<>>
  BY <1>1 DEF TypeInv, TickQuiet, TickCountdown, TickTimeout, TickTurn
<1>3. <<>> \in Seq(EnvelopeType)
  BY EmptySeq
<1>4. TypeOK'
  <2>1. CASE TickQuiet(i)
    <3>1. NetTypeOK'
      BY <1>2, <1>3, <2>1, TickTurnType, TypeParts DEF TickQuiet
    <3>2. OutcomeOK'
      BY <1>2, <2>1 DEF TickQuiet, OutcomeOK, TypeOK
    <3> QED
      BY <1>2, <2>1, <3>1, <3>2, NodesUnchangedType DEF TickQuiet
  <2>2. CASE TickCountdown(i)
    <3>1. NetTypeOK'
      BY <1>2, <1>3, <2>2, TickTurnType, TypeParts DEF TickCountdown
    <3>2. LogTypeOK' /\ OutcomeOK'
      BY <1>2, <2>2, TypeParts
         DEF TickCountdown, LogTypeOK, OutcomeOK, logVars
    <3>3. ViewTypeOK'
      <4>1. \A k \in 0 .. VIEW_CHANGE_TIMEOUT :
              k > 0 => k - 1 \in 0 .. VIEW_CHANGE_TIMEOUT
        BY PbftAssumption
      <4> QED
        BY <1>2, <2>2, <4>1, TypeParts
           DEF TickCountdown, ViewTypeOK, viewVars
    <3> QED
      BY <3>1, <3>2, <3>3, TypeParts, PTL
  <2>3. CASE TickTimeout(i)
    <3>1. view[i] \in Views /\ view[i] < MaxView
      BY <1>2, <2>3, TickRoom, SizeAssumption
         DEF TypeOK, TickTimeout, Nodes
    <3>2. v \in Views
      BY <3>1, PbftAssumption DEF Views
    <3>3. out \in Seq(EnvelopeType)
      BY <1>2, <3>2, MessageTypes, BroadcastType DEF TypeOK
    <3>4. NetTypeOK'
      BY <1>2, <2>3, <3>3, TickTurnType, TypeParts DEF TickTimeout
    <3>5. viewChangeVotes' \in [Nodes -> SUBSET (Views \X Nodes)]
      <4>1. viewChangeVotes[i] \cup {<<v, i>>} \in SUBSET (Views \X Nodes)
        BY <1>2, <3>2 DEF TypeOK
      <4> HIDE DEF v
      <4> QED
        BY <1>2, <2>3, <4>1 DEF TickTimeout, TypeOK, v
    <3>6. LogTypeOK' /\ ViewTypeOK' /\ OutcomeOK'
      BY <1>2, <2>3, <3>5
         DEF TickTimeout, LogTypeOK, ViewTypeOK, OutcomeOK, TypeOK, logVars
    <3> QED
      BY <3>4, <3>6, TypeParts, PTL
  <2> QED
    BY <1>1, <2>1, <2>2, <2>3
<1>5. TickBounded'
  <2>1. inflight' = <<>> /\ ticking' = (ticking + 1) % N
    BY <1>1, <1>2 DEF TickQuiet, TickCountdown, TickTimeout, TickTurn
  <2>2. ASSUME NEW j \in Nodes, ticking' # 0, j >= ticking',
               Monitors(j)', viewChangeTimeout'[j] = 0
        PROVE  view'[j] < MaxView
    <3>1. j >= ticking /\ j # i
      BY <1>2, <2>1, <2>2, NextTurn DEF Nodes
    <3>2. /\ view' = view
          /\ viewChangeTimeout'[j] = viewChangeTimeout[j]
          /\ viewChangeInProgress'[j] = viewChangeInProgress[j]
      BY <1>1, <1>2, <3>1
         DEF TickQuiet, TickCountdown, TickTimeout, TypeOK, nodeVars, viewVars
    <3>3. Monitors(j) /\ viewChangeTimeout[j] = 0
      BY <2>2, <3>2 DEF Monitors
    <3> QED
      BY <3>1, <3>2, <3>3, TickRoom
  <2> QED
    BY <2>1, <2>2 DEF TickBounded
<1> QED
  BY <1>4, <1>5 DEF TypeInv

\* Outside a tick, TickBounded only speaks of the states it starts from.
LEMMA NotTicking ==
  ASSUME TypeInv, UNCHANGED ticking, ticking = 0
  PROVE  TickBounded'
  BY DEF TickBounded

LEMMA TypeStep == TypeInv /\ [Next]_vars => TypeInv'
<1> SUFFICES ASSUME TypeInv, [Next]_vars PROVE TypeInv'
  OBVIOUS
<1> USE DEF TypeInv
<1>1. ASSUME NEW p \in Payloads, ProposeAccepted(p)
      PROVE  TypeInv'
  BY <1>1, ProposeType, NotTicking DEF ProposeAccepted, Idle
<1>2. ASSUME NEW p \in Payloads, ProposeRejected(p)
      PROVE  TypeInv'
  <2>1. NetTypeOK' /\ OutcomeOK'
    BY <1>2 DEF ProposeRejected, NetTypeOK, OutcomeOK, TypeOK, clusterVars
  <2>2. TypeOK'
    BY <1>2, <2>1, NodesUnchangedType DEF ProposeRejected
  <2> QED
    BY <1>2, <2>2, NotTicking DEF ProposeRejected, Idle, clusterVars
<1>3. CASE BeginStep
  <2>1. NetTypeOK' /\ OutcomeOK'
    BY <1>3, EmptySeq DEF BeginStep, StartStep, NetTypeOK, OutcomeOK, TypeOK
  <2>2. TypeOK'
    BY <1>3, <2>1, NodesUnchangedType DEF BeginStep
  <2> QED
    BY <1>3, <2>2, NotTicking DEF BeginStep, StartStep, Idle
<1>4. ticking = 0 \/ inflight = <<>>
  BY DEF TickBounded
<1>5. CASE LoseMessage
  <2>1. Tail(inflight) \in Seq(EnvelopeType) /\ inflight # <<>>
    BY <1>5, HeadTailProperties DEF LoseMessage, Lose, TypeOK
  <2>2. drops' \in 0 .. MaxDrops
    BY <1>5, FaultAssumption DEF LoseMessage, Lose, TypeOK
  <2>3. NetTypeOK' /\ OutcomeOK'
    BY <1>5, <2>1, <2>2 DEF LoseMessage, Lose, NetTypeOK, OutcomeOK, TypeOK
  <2>4. TypeOK'
    BY <1>5, <2>3, NodesUnchangedType DEF LoseMessage
  <2> QED
    BY <1>4, <1>5, <2>1, <2>4, NotTicking DEF LoseMessage, Lose
<1>6. CASE DeliverMessage
  <2>1. TypeOK'
    BY <1>6, DeliverType
  <2>2. inflight # <<>> /\ UNCHANGED ticking
    BY <1>6 DEF DeliverMessage, Deliverable, HandleMessage, HandlePrePrepare,
                RecordPrepare, BecomePrepared, RecordCommit, BecomeCommitted,
                JoinViewChange, BecomePrimary, HandleNewView, Discard, Consume
  <2> QED
    BY <1>4, <2>1, <2>2, NotTicking
<1>7. CASE Tick
  BY <1>7, TickType
<1>8. CASE ChangeFaults
  <2>1. NetTypeOK' /\ OutcomeOK'
    BY <1>8, FaultAssumption
       DEF ChangeFaults, SetFaults, NetTypeOK, OutcomeOK, TypeOK
  <2>2. TypeOK'
    BY <1>8, <2>1, NodesUnchangedType DEF ChangeFaults
  <2> QED
    BY <1>8, <2>2, NotTicking DEF ChangeFaults, SetFaults, Idle
<1>9. CASE UNCHANGED vars
  <2>1. NetTypeOK' /\ OutcomeOK'
    BY <1>9 DEF vars, clusterVars, NetTypeOK, OutcomeOK, TypeOK
  <2>2. TypeOK'
    BY <1>9, <2>1, NodesUnchangedType DEF vars
  <2> QED
    BY <1>9, <2>2
       DEF vars, clusterVars, nodeVars, TickBounded, Monitors
<1> QED
  BY <1>1, <1>2, <1>3, <1>5, <1>6, <1>7, <1>8, <1>9 DEF Next

\* Every variable keeps its type, for every cluster size, every set of fault
\* configurations and every bound; views stay within the bound MaxView.
THEOREM TypeCorrect == Spec => []TypeOK
<1>1. TypeInv => TypeOK
  BY DEF TypeInv
<1> QED
  BY <1>1, InitType, TypeStep, PTL DEF Spec

-----------------------------------------------------------------------------
(***************************************************************************)
(* Agreement within a view.  Handlers compare neither digests nor senders, *)
(* so that two nodes agree only because every payload a node holds for a   *)
(* slot goes back to one assignment of the primary.  Claimed(v, s, p) says *)
(* that p stands for sequence number s of view v somewhere: in a           *)
(* pre-prepare under way, in an undecided slot or in a commit log.  Claims *)
(* are unique because a primary numbers beyond all of them, and stays      *)
(* there because it never re-enters a view.                                *)
(***************************************************************************)
Envelopes == Range(pending) \cup Range(inflight)

PrePrepared(e, v, s, p) ==
    /\ e.msg.type = "PrePrepare"
    /\ e.msg.view = v
    /\ e.msg.sequence = s
    /\ e.msg.payload = p

Logged(e, v, s, p) == e.view = v /\ e.sequence = s /\ e.payload = p

Claimed(v, s, p) ==
    \/ \E e \in Envelopes : PrePrepared(e, v, s, p)
    \/ \E i \in Nodes : view[i] = v /\ pendingPayloads[i][s] = p
    \/ \E i \in Nodes : \E e \in Entries(i) : Logged(e, v, s, p)

SentByPrimary ==
    \A e \in Envelopes :
        e.msg.type = "PrePrepare" => e.from = Primary(e.msg.view)

\* The primary of v has assigned number s in it, or has left it.
Numbered(v, s) ==
    \/ v < view[Primary(v)]
    \/ v = view[Primary(v)] /\ s < nextSequence[Primary(v)]

ClaimsNumbered ==
    \A v \in Views, s \in Seqs, p \in Payload :
        Claimed(v, s, p) => Numbered(v, s)

ClaimsUnique ==
    \A v \in Views, s \in Seqs, p, q \in Payload :
        /\ Claimed(v, s, p)
        /\ Claimed(v, s, q)
        /\ Primary(v) \in NeverEquivocates
        => p = q

ClaimsProposed ==
    \A v \in Views, s \in Seqs, p \in Payload :
        Claimed(v, s, p) /\ Primary(v) \in NeverEquivocates => p \in Proposed

ClaimInv == SentByPrimary /\ ClaimsNumbered /\ ClaimsUnique /\ ClaimsProposed

LEMMA HeadTailRange ==
  ASSUME NEW S, NEW s \in Seq(S), s # <<>>
  PROVE  Head(s) \in Range(s) /\ Range(Tail(s)) \subseteq Range(s)
<1>1. /\ Len(s) \in Nat /\ Len(s) >= 1
      /\ Head(s) = s[1]
      /\ Tail(s) \in Seq(S)
      /\ Len(Tail(s)) = Len(s) - 1
      /\ \A k \in 1 .. Len(Tail(s)) : Tail(s)[k] = s[k + 1]
  BY HeadTailProperties, LenProperties
<1>2. /\ Range(s) = {s[k] : k \in 1 .. Len(s)}
      /\ Range(Tail(s)) = {Tail(s)[k] : k \in 1 .. Len(Tail(s))}
  BY <1>1, RangeEquality
<1> QED
  BY <1>1, <1>2

\* All envelopes of a broadcast carry the message of the sender.
LEMMA BroadcastRange ==
  ASSUME NEW i, NEW m, NEW e \in Range(Broadcast(i, m))
  PROVE  e.from = i /\ e.msg = m
  BY DEF Broadcast, Envelope, Range

LEMMA EmptyRange == Range(<<>>) = {}
  BY DEF Range

\* A delivery puts nothing on the network but what the handler sends.
LEMMA ConsumeEnvelopes ==
  ASSUME TypeOK, inflight # <<>>,
         NEW out \in Seq(EnvelopeType), Consume(out)
  PROVE  Envelopes' \subseteq Envelopes \cup Range(out)
<1>1. Range(inflight') \subseteq Range(inflight)
  BY HeadTailRange DEF Consume, TypeOK
<1>2. Range(pending') = Range(pending) \cup Range(out)
  BY RangeConcatenation DEF Consume, Enqueue, TypeOK
<1> QED
  BY <1>1, <1>2 DEF Envelopes

LEMMA EnqueueEnvelopes ==
  ASSUME TypeOK, UNCHANGED inflight,
         NEW out \in Seq(EnvelopeType), Enqueue(out)
  PROVE  Envelopes' = Envelopes \cup Range(out)
<1>1. Range(pending') = Range(pending) \cup Range(out)
  BY RangeConcatenation DEF Enqueue, TypeOK
<1> QED
  BY <1>1 DEF Envelopes

\* Tampering leaves the kind and the slot of a message alone, and its payload
\* too unless the sender equivocates.
LEMMA TamperedSlot ==
  ASSUME TypeOK, NEW e \in EnvelopeType, e.msg.type = "PrePrepare"
  PROVE  /\ Tampered(e).view = e.msg.view
         /\ Tampered(e).sequence = e.msg.sequence
         /\ e.from \in NeverEquivocates
              => Tampered(e).payload = e.msg.payload
<1>1. e.msg \in [type : {"PrePrepare"}, view : Views, sequence : Seqs,
                 digest : Digest, payload : Payload]
  BY DEF EnvelopeType, Message
<1>2. ASSUME NEW m \in [type : {"PrePrepare"}, view : Views, sequence : Seqs,
                        digest : Digest, payload : Payload]
      PROVE  /\ Corrupted(m).view = m.view
             /\ Corrupted(m).sequence = m.sequence
             /\ Corrupted(m).payload = m.payload
  BY DEF Corrupted
<1>3. /\ Equivocated(e.msg, e.to) \in
           [type : {"PrePrepare"}, view : Views, sequence : Seqs,
            digest : Digest, payload : Payload]
      /\ Equivocated(e.msg, e.to).view = e.msg.view
      /\ Equivocated(e.msg, e.to).sequence = e.msg.sequence
  <2>1. Extended(e.msg.payload) \in Payload
    BY <1>1 DEF Extended, Payload
  <2>2. DigestOf(Extended(e.msg.payload)) \in Digest
    BY <2>1, MessageTypes DEF DigestOf, Digest
  <2> QED
    BY <1>1, <2>1, <2>2 DEF Equivocated
<1>4. e.from \in NeverEquivocates => ~faults.byzantine[e.from].equivocate
  <2>1. faults \in FaultConfigs \/ faults = NoFaults
    BY DEF TypeOK
  <2>2. e.from \in Nodes
    BY DEF EnvelopeType
  <2>3. ~NoFaults.byzantine[e.from].equivocate
    BY <2>2 DEF NoFaults, Honest
  <2> QED
    BY <2>1, <2>2, <2>3 DEF NeverEquivocates
<1> QED
  BY <1>1, <1>2, <1>3, <1>4 DEF Tampered

\* Tampering leaves the kind of a message alone.
LEMMA TamperedKind ==
  ASSUME NEW e \in EnvelopeType
  PROVE  Tampered(e).type = e.msg.type
<1>1. e.msg \in Message
  BY DEF EnvelopeType
<1>2. ASSUME NEW m \in Message
      PROVE  Corrupted(m).type = m.type
  BY DEF Corrupted, Message
<1>3. /\ Equivocated(e.msg, e.to).type = e.msg.type
      /\ Corrupted(Equivocated(e.msg, e.to)).type = e.msg.type
  <2>1. CASE e.msg.type = "PrePrepare"
    <3>1. e.msg \in [type : {"PrePrepare"}, view : Views, sequence : Seqs,
                     digest : Digest, payload : Payload]
      BY <1>1, <2>1 DEF Message
    <3>2. ASSUME NEW m \in [type : {"PrePrepare"}, view : Views,
                           sequence : Seqs, digest : Digest,
                           payload : Payload],
                 NEW d, NEW p
          PROVE  /\ [m EXCEPT !.payload = p, !.digest = d].type = m.type
                 /\ [[m EXCEPT !.payload = p, !.digest = d]
                        EXCEPT !.digest = FlipBits(d)].type = m.type
      OBVIOUS
    <3> QED
      BY <2>1, <3>1, <3>2 DEF Equivocated, Corrupted
  <2>2. CASE e.msg.type # "PrePrepare"
    BY <1>1, <1>2, <2>2 DEF Equivocated, Message
  <2> QED
    BY <2>1, <2>2
<1> QED
  BY <1>1, <1>2, <1>3 DEF Tampered

\* A number stays assigned: a primary only counts on, and leaves its view for
\* a later one.
LEMMA NumberedStays ==
  ASSUME TypeOK, TypeOK', NEW v \in Views, NEW s \in Seqs, Numbered(v, s),
         \A n \in Nodes : \/ view'[n] > view[n]
                          \/ /\ view'[n] = view[n]
                             /\ nextSequence'[n] >= nextSequence[n]
  PROVE  Numbered(v, s)'
<1>1. v \in Nat /\ s \in Nat /\ Primary(v) \in Nodes
  BY PrimaryIsNode DEF Views, Seqs
<1>2. ViewTypeOK /\ ViewTypeOK'
  BY TypeParts, PTL
<1>3. /\ view[Primary(v)] \in Nat /\ view'[Primary(v)] \in Nat
      /\ nextSequence[Primary(v)] \in Nat
      /\ nextSequence'[Primary(v)] \in Nat
  BY <1>1, <1>2 DEF ViewTypeOK, Views
<1> QED
  BY <1>1, <1>3 DEF Numbered

\* A step after which every claim goes back to a claim on the same slot, and
\* to the very same claim where the primary never equivocates.
LEMMA ClaimFrame ==
  ASSUME TypeOK, ClaimInv, Proposed \subseteq Proposed',
         \A e \in Envelopes' : e.msg.type = "PrePrepare" => e \in Envelopes,
         \A v \in Views, s \in Seqs, p \in Payload :
           Claimed(v, s, p)' => \E q \in Payload : Claimed(v, s, q),
         \A v \in Views, s \in Seqs, p \in Payload :
           Claimed(v, s, p)' /\ Primary(v) \in NeverEquivocates
             => Claimed(v, s, p),
         \A n \in Nodes : \/ view'[n] > view[n]
                          \/ /\ view'[n] = view[n]
                             /\ nextSequence'[n] >= nextSequence[n],
         TypeOK'
  PROVE  ClaimInv'
<1>1. SentByPrimary'
  BY DEF ClaimInv, SentByPrimary
<1>2. ClaimsUnique'
  BY DEF ClaimInv, ClaimsUnique
<1>3. ClaimsNumbered'
  BY NumberedStays DEF ClaimInv, ClaimsNumbered
<1>4. ClaimsProposed'
  BY DEF ClaimInv, ClaimsProposed
<1> QED
  BY <1>1, <1>2, <1>3, <1>4 DEF ClaimInv

\* A step that sends no pre-prepare, takes no payload on and logs only what
\* was claimed adds no claim.
LEMMA QuietStep ==
  ASSUME TypeOK, TypeOK', ClaimInv, Proposed \subseteq Proposed',
         \A e \in Envelopes' : e.msg.type = "PrePrepare" => e \in Envelopes,
         \A n \in Nodes : \A s \in Seqs, p \in Payload :
           pendingPayloads'[n][s] = p
             => pendingPayloads[n][s] = p /\ view'[n] = view[n],
         \A n \in Nodes : \A e \in Entries(n)' :
           e \in Entries(n) \/ Claimed(e.view, e.sequence, e.payload),
         \A n \in Nodes : \/ view'[n] > view[n]
                          \/ /\ view'[n] = view[n]
                             /\ nextSequence'[n] >= nextSequence[n]
  PROVE  ClaimInv'
<1>1. ASSUME NEW v \in Views, NEW s \in Seqs, NEW p \in Payload,
             Claimed(v, s, p)'
      PROVE  Claimed(v, s, p)
  <2>1. CASE \E e \in Envelopes' : PrePrepared(e, v, s, p)
    <3>1. PICK e \in Envelopes' : PrePrepared(e, v, s, p)
      BY <2>1
    <3> QED
      BY <3>1 DEF Claimed, PrePrepared
  <2>2. CASE \E i \in Nodes : view'[i] = v /\ pendingPayloads'[i][s] = p
    BY <2>2 DEF Claimed
  <2>3. CASE \E i \in Nodes : \E e \in Entries(i)' : Logged(e, v, s, p)
    <3> PICK i \in Nodes : \E e \in Entries(i)' : Logged(e, v, s, p)
      BY <2>3
    <3>1. PICK e \in Entries(i)' : Logged(e, v, s, p)
      OBVIOUS
    <3>2. \/ e \in Entries(i)
          \/ Claimed(e.view, e.sequence, e.payload)
      BY <3>1
    <3>3. e.view = v /\ e.sequence = s /\ e.payload = p
      BY <3>1 DEF Logged
    <3>4. CASE e \in Entries(i)
      BY <3>1, <3>4 DEF Claimed
    <3> QED
      BY <3>2, <3>3, <3>4
  <2> QED
    BY <1>1, <2>1, <2>2, <2>3 DEF Claimed, PrePrepared, Logged
<1>2. \A v \in Views, s \in Seqs, p \in Payload :
        Claimed(v, s, p)' => Claimed(v, s, p)
  BY <1>1
<1> HIDE DEF Claimed
<1> QED
  BY <1>2, ClaimFrame

\* A handler that sends no pre-prepare puts none on the network.
LEMMA QuietConsume ==
  ASSUME TypeOK, inflight # <<>>,
         NEW out \in Seq(EnvelopeType), Consume(out),
         \A e \in Range(out) : e.msg.type # "PrePrepare"
  PROVE  \A e \in Envelopes' : e.msg.type = "PrePrepare" => e \in Envelopes
  BY ConsumeEnvelopes

\* Nothing but Broadcast makes the messages of a handler.
LEMMA QuietBroadcast ==
  ASSUME NEW i, NEW m, m.type # "PrePrepare"
  PROVE  \A e \in Range(Broadcast(i, m)) : e.msg.type # "PrePrepare"
  BY BroadcastRange

\* A step that leaves views, payloads and logs of the nodes alone.
LEMMA QuietNodes ==
  ASSUME TypeOK, TypeOK', ClaimInv, Proposed \subseteq Proposed',
         \A e \in Envelopes' : e.msg.type = "PrePrepare" => e \in Envelopes,
         UNCHANGED <<view, nextSequence, pendingPayloads, committed>>
  PROVE  ClaimInv'
<1>1. \A n \in Nodes : Entries(n)' = Entries(n)
  BY DEF Entries, EntriesOf
<1>2. \A n \in Nodes : nextSequence[n] \in Nat
  BY DEF TypeOK
<1> HIDE DEF Entries, Envelopes
<1> QED
  BY <1>1, <1>2, QuietStep

\* The normal case, pre-prepares aside: a commit logs a payload that was
\* pending, and everything else leaves the claims alone.
LEMMA VoteClaims ==
  ASSUME TypeOK, TypeOK', ClaimInv, Proposed \subseteq Proposed',
         inflight # <<>>,
         NEW i \in Nodes, NEW m \in Message,
         \/ RecordPrepare(i, m) \/ BecomePrepared(i, m) \/ RecordCommit(i, m)
         \/ Discard(i, m)
  PROVE  ClaimInv'
<1> DEFINE out == Broadcast(i, CommitMsg(m.view, m.sequence, m.digest, i))
<1>1. <<>> \in Seq(EnvelopeType) /\ \A e \in Range(<<>>) : FALSE
  BY EmptySeq, EmptyRange
<1>2. \A e \in Envelopes' : e.msg.type = "PrePrepare" => e \in Envelopes
  <2>1. CASE BecomePrepared(i, m)
    <3>1. CommitMsg(m.view, m.sequence, m.digest, i) \in Message
      BY <2>1, MessageFields, MessageTypes
         DEF BecomePrepared, AcceptsPrepare
    <3>2. out \in Seq(EnvelopeType)
      BY <3>1, BroadcastType
    <3>3. \A e \in Range(out) : e.msg.type # "PrePrepare"
      BY QuietBroadcast DEF CommitMsg
    <3>4. Consume(out)
      BY <2>1 DEF BecomePrepared
    <3> HIDE DEF out
    <3> QED
      BY <3>2, <3>3, <3>4, QuietConsume
  <2>2. CASE ~BecomePrepared(i, m)
    <3>1. Consume(<<>>)
      BY <2>2 DEF RecordPrepare, RecordCommit, Discard
    <3> QED
      BY <1>1, <3>1, QuietConsume
  <2> QED
    BY <2>1, <2>2
<1>3. UNCHANGED <<view, nextSequence, pendingPayloads, committed>>
  BY DEF RecordPrepare, BecomePrepared, RecordCommit, Discard, viewVars,
         nodeVars
<1> QED
  BY <1>2, <1>3, QuietNodes

LEMMA CommitClaims ==
  ASSUME TypeOK, TypeOK', ClaimInv, Proposed \subseteq Proposed',
         inflight # <<>>,
         NEW i \in Nodes, NEW m \in Message, BecomeCommitted(i, m)
  PROVE  ClaimInv'
<1> DEFINE s == m.sequence
           p == pendingPayloads[i][s]
           new == [sequence |-> s, payload |-> p, view |-> view[i]]
<1>1. \A e \in Envelopes' : e.msg.type = "PrePrepare" => e \in Envelopes
  BY EmptySeq, EmptyRange, QuietConsume DEF BecomeCommitted
<1>2. UNCHANGED <<view, nextSequence>>
  BY DEF BecomeCommitted, viewVars
<1>3. s \in Seqs
  BY MessageFields DEF BecomeCommitted, AcceptsCommit
<1>4. \A n \in Nodes : \A t \in Seqs, q \in Payload :
        pendingPayloads'[n][t] = q => pendingPayloads[n][t] = q
  BY <1>3, PbftAssumption DEF BecomeCommitted, TypeOK
<1>5. ASSUME NEW n \in Nodes, NEW e \in Entries(n)'
      PROVE  e \in Entries(n) \/ Claimed(e.view, e.sequence, e.payload)
  <2>1. CASE committed'[n] = committed[n]
    BY <2>1, <1>5 DEF Entries, EntriesOf
  <2>2. CASE committed'[n] # committed[n]
    <3>1. n = i /\ committed'[n] = Append(committed[n], new)
      BY <2>2 DEF BecomeCommitted, TypeOK
    <3>2. /\ Len(Append(committed[n], new)) = Len(committed[n]) + 1
          /\ \A k \in 1 .. Len(committed[n]) + 1 :
               Append(committed[n], new)[k] =
                 IF k <= Len(committed[n]) THEN committed[n][k] ELSE new
      <4>1. committed[n] \in Seq(CommittedEntry)
        BY DEF TypeOK
      <4> HIDE DEF new
      <4> QED
        BY <4>1
    <3>3. e \in Entries(n) \/ e = new
      <4> HIDE DEF new
      <4> QED
        BY <1>5, <3>1, <3>2 DEF Entries, EntriesOf
    <3>4. Claimed(view[i], s, p)
      BY DEF Claimed
    <3> QED
      BY <3>3, <3>4
  <2> QED
    BY <2>1, <2>2
<1>6. \A n \in Nodes : nextSequence[n] \in Nat
  BY DEF TypeOK
<1> HIDE DEF Entries, Envelopes, Claimed
<1> QED
  BY <1>1, <1>2, <1>4, <1>5, <1>6, QuietStep

\* A node that enters a later view drops its undecided payloads.
LEMMA EnterClaims ==
  ASSUME TypeOK, TypeOK', ClaimInv, Proposed \subseteq Proposed',
         NEW i \in Nodes, NEW v \in Views, NEW next, v > view[i],
         EnterNewView(i, v, next), UNCHANGED committed,
         \A e \in Envelopes' : e.msg.type = "PrePrepare" => e \in Envelopes
  PROVE  ClaimInv'
<1> DEFINE cleared == [s \in Seqs |-> None]
<1>1. \A n \in Nodes : Entries(n)' = Entries(n)
  BY DEF Entries, EntriesOf
<1>2. /\ view'[i] = v
      /\ \A n \in Nodes \ {i} :
           view'[n] = view[n] /\ nextSequence'[n] = nextSequence[n]
  BY DEF EnterNewView, TypeOK
<1>3. ASSUME NEW n \in Nodes, NEW s \in Seqs, NEW p \in Payload,
             pendingPayloads'[n][s] = p
      PROVE  pendingPayloads[n][s] = p /\ view'[n] = view[n]
  <2>1. pendingPayloads' = [pendingPayloads EXCEPT ![i] = cleared]
    BY DEF EnterNewView
  <2>2. cleared[s] # p
    BY PbftAssumption
  <2> HIDE DEF cleared
  <2>3. n # i
    BY <1>3, <2>1, <2>2 DEF TypeOK
  <2> QED
    BY <1>2, <1>3, <2>1, <2>3 DEF TypeOK
<1>4. \A n \in Nodes : nextSequence[n] \in Nat
  BY DEF TypeOK
<1> HIDE DEF Entries, Envelopes, Claimed
<1> QED
  BY <1>1, <1>2, <1>3, <1>4, QuietStep

LEMMA ViewChangeClaims ==
  ASSUME TypeOK, TypeOK', ClaimInv, Proposed \subseteq Proposed',
         inflight # <<>>,
         NEW i \in Nodes, NEW m \in Message,
         JoinViewChange(i, m) \/ BecomePrimary(i, m) \/ HandleNewView(i, m)
  PROVE  ClaimInv'
<1> DEFINE next == highestCommittedSeq[i] + 1
           lead == Broadcast(i, NewViewMsg(m.newView, next))
<1>1. <<>> \in Seq(EnvelopeType) /\ \A e \in Range(<<>>) : FALSE
  BY EmptySeq, EmptyRange
<1>2. CASE HandleNewView(i, m)
  <2>1. m.view \in Views /\ m.view > view[i]
    BY <1>2, MessageFields DEF HandleNewView, AcceptsNewView
  <2>2. \A e \in Envelopes' : e.msg.type = "PrePrepare" => e \in Envelopes
    BY <1>1, <1>2, QuietConsume DEF HandleNewView
  <2>3. EnterNewView(i, m.view, m.nextSequence) /\ UNCHANGED committed
    BY <1>2 DEF HandleNewView
  <2> QED
    BY <2>1, <2>2, <2>3, EnterClaims
<1>3. ASSUME JoinViewChange(i, m) \/ BecomePrimary(i, m)
      PROVE  /\ m.newView \in Views /\ m.newView > view[i]
             /\ JoinMessages(i, m) \in Seq(EnvelopeType)
             /\ \A e \in Range(JoinMessages(i, m)) : e.msg.type # "PrePrepare"
  <2> DEFINE vote == ViewChangeMsg(m.newView, i, highestCommittedSeq[i])
  <2>1. m.newView \in Views /\ m.newView > view[i]
    BY <1>3, MessageFields
       DEF JoinViewChange, BecomePrimary, AcceptsViewChange
  <2>2. vote \in Message
    BY <2>1, MessageTypes DEF TypeOK
  <2>3. Broadcast(i, vote) \in Seq(EnvelopeType)
    BY <2>2, BroadcastType
  <2>4. \A e \in Range(Broadcast(i, vote)) : e.msg.type # "PrePrepare"
    BY QuietBroadcast DEF ViewChangeMsg
  <2> HIDE DEF vote
  <2> QED
    BY <1>1, <2>1, <2>3, <2>4 DEF JoinMessages, vote
<1>4. CASE JoinViewChange(i, m)
  <2>1. \A e \in Envelopes' : e.msg.type = "PrePrepare" => e \in Envelopes
    BY <1>3, <1>4, QuietConsume DEF JoinViewChange
  <2>2. UNCHANGED <<view, nextSequence, pendingPayloads, committed>>
    BY <1>4 DEF JoinViewChange, logVars
  <2> QED
    BY <2>1, <2>2, QuietNodes
<1>5. CASE BecomePrimary(i, m)
  <2>1. NewViewMsg(m.newView, next) \in Message
    <3>1. highestCommittedSeq[i] \in Nat
      BY DEF TypeOK
    <3>2. next \in Nat \ {0}
      BY <3>1
    <3> HIDE DEF next
    <3> QED
      BY <1>3, <1>5, <3>2, MessageTypes
  <2>2. lead \in Seq(EnvelopeType)
    BY <2>1, BroadcastType
  <2>3. \A e \in Range(lead) : e.msg.type # "PrePrepare"
    BY QuietBroadcast DEF NewViewMsg
  <2>4. Consume(JoinMessages(i, m) \o lead)
    BY <1>5 DEF BecomePrimary
  <2>5. EnterNewView(i, m.newView, next) /\ UNCHANGED committed
    BY <1>5 DEF BecomePrimary
  <2> HIDE DEF lead, next
  <2>6. /\ JoinMessages(i, m) \o lead \in Seq(EnvelopeType)
        /\ Range(JoinMessages(i, m) \o lead)
             = Range(JoinMessages(i, m)) \cup Range(lead)
    BY <1>3, <1>5, <2>2, ConcatProperties, RangeConcatenation
  <2>7. \A e \in Envelopes' : e.msg.type = "PrePrepare" => e \in Envelopes
    <3>1. \A e \in Range(JoinMessages(i, m) \o lead) :
            e.msg.type # "PrePrepare"
      BY <1>3, <1>5, <2>3, <2>6
    <3> QED
      BY <2>4, <2>6, <3>1, QuietConsume
  <2> QED
    BY <1>3, <1>5, <2>5, <2>7, EnterClaims
<1> QED
  BY <1>2, <1>4, <1>5

\* A backup takes on the payload of the pre-prepare it is delivered, which
\* is the primary's unless the primary equivocates.
LEMMA PrePrepareClaims ==
  ASSUME TypeOK, TypeOK', ClaimInv, Proposed \subseteq Proposed', Deliverable,
         NEW i \in Nodes, NEW m, m = Tampered(Head(inflight)), m \in Message,
         HandlePrePrepare(i, m)
  PROVE  ClaimInv'
<1> DEFINE e == Head(inflight)
           out == Broadcast(i, PrepareMsg(m.view, m.sequence, m.digest, i))
<1>1. inflight # <<>> /\ e \in EnvelopeType /\ e \in Envelopes
  BY DeliveredType, TypeParts, HeadTailRange DEF Envelopes, TypeOK
<1>2. m.type = "PrePrepare" /\ m.view = view[i]
  BY DEF HandlePrePrepare, AcceptsPrePrepare
<1>3. m.view \in Views /\ m.sequence \in Seqs /\ m.digest \in Digest
      /\ m.payload \in Payload
  BY <1>2, MessageFields
<1>4. e.msg.type = "PrePrepare"
  BY <1>1, <1>2, TamperedKind
<1>5. /\ m.view = e.msg.view
      /\ m.sequence = e.msg.sequence
      /\ e.from \in NeverEquivocates => m.payload = e.msg.payload
  BY <1>1, <1>4, TamperedSlot
<1>6. e.from = Primary(m.view)
  BY <1>1, <1>4, <1>5 DEF ClaimInv, SentByPrimary
<1>7. e.msg.payload \in Payload
  BY <1>1, <1>4, MessageFields DEF EnvelopeType
<1>8. \A x \in Envelopes' : x.msg.type = "PrePrepare" => x \in Envelopes
  <2>1. PrepareMsg(m.view, m.sequence, m.digest, i) \in Message
    BY <1>3, MessageTypes
  <2>2. out \in Seq(EnvelopeType)
    BY <2>1, BroadcastType
  <2>3. \A x \in Range(out) : x.msg.type # "PrePrepare"
    BY QuietBroadcast DEF PrepareMsg
  <2>4. Consume(out)
    BY DEF HandlePrePrepare
  <2> HIDE DEF out
  <2> QED
    BY <1>1, <2>2, <2>3, <2>4, QuietConsume
<1>9. UNCHANGED <<view, nextSequence, committed>>
  BY DEF HandlePrePrepare, viewVars
<1> HIDE DEF e
<1>10. /\ pendingPayloads'[i][m.sequence] = m.payload
          /\ \A n \in Nodes, s \in Seqs :
               ~(n = i /\ s = m.sequence)
                 => pendingPayloads'[n][s] = pendingPayloads[n][s]
  <2>1. pendingPayloads' =
          [pendingPayloads EXCEPT ![i][m.sequence] = m.payload]
    BY DEF HandlePrePrepare
  <2>2. pendingPayloads \in [Nodes -> [Seqs -> Payload \cup {None}]]
    BY TypeParts DEF LogTypeOK
  <2> QED
    BY <1>3, <2>1, <2>2
<1>11. ASSUME NEW v \in Views, NEW s \in Seqs, NEW p \in Payload,
              Claimed(v, s, p)'
       PROVE  \/ Claimed(v, s, p)
              \/ v = m.view /\ s = m.sequence /\ p = m.payload
  <2>1. CASE \E x \in Envelopes' : PrePrepared(x, v, s, p)
    <3>1. PICK x \in Envelopes' : PrePrepared(x, v, s, p)
      BY <2>1
    <3> QED
      BY <1>8, <3>1 DEF Claimed, PrePrepared
  <2>2. CASE \E n \in Nodes : view'[n] = v /\ pendingPayloads'[n][s] = p
    <3>1. PICK n \in Nodes : view'[n] = v /\ pendingPayloads'[n][s] = p
      BY <2>2
    <3>2. CASE n = i /\ s = m.sequence
      BY <1>2, <1>9, <1>10, <3>1, <3>2
    <3>3. CASE ~(n = i /\ s = m.sequence)
      <4>1. view[n] = v /\ pendingPayloads[n][s] = p
        BY <1>9, <1>10, <3>1, <3>3
      <4> QED
        BY <4>1 DEF Claimed
    <3> QED
      BY <3>2, <3>3
  <2>3. CASE \E n \in Nodes : \E x \in Entries(n)' : Logged(x, v, s, p)
    BY <1>9, <2>3 DEF Entries, EntriesOf, Claimed
  <2> QED
    BY <1>11, <2>1, <2>2, <2>3 DEF Claimed, PrePrepared, Logged
<1>12. Claimed(m.view, m.sequence, e.msg.payload)
  BY <1>1, <1>4, <1>5 DEF Claimed, PrePrepared
<1>13. \A v \in Views, s \in Seqs, p \in Payload :
         Claimed(v, s, p)' => \E q \in Payload : Claimed(v, s, q)
  BY <1>7, <1>11, <1>12
<1>14. \A v \in Views, s \in Seqs, p \in Payload :
         Claimed(v, s, p)' /\ Primary(v) \in NeverEquivocates
           => Claimed(v, s, p)
  BY <1>5, <1>6, <1>11, <1>12
<1>15. \A n \in Nodes : nextSequence[n] \in Nat
  BY DEF TypeOK
<1> HIDE DEF Claimed, Envelopes
<1> QED
  BY <1>8, <1>9, <1>13, <1>14, <1>15, ClaimFrame

\* The primary gives a payload a number beyond every claim on its view.
LEMMA ProposeClaims ==
  ASSUME TypeOK, TypeOK', ClaimInv, Proposed \subseteq Proposed',
         NEW c \in Payloads, ProposeAccepted(c)
  PROVE  ClaimInv'
<1>1. PICK i \in Asked : /\ Answer(ProposalTarget(i)) = "Accepted"
                         /\ Assign(ProposalTarget(i), <<c, 0>>)
  BY DEF ProposeAccepted
<1> DEFINE j == ProposalTarget(i)
           q == <<c, 0>>
           w == view[j]
           t == nextSequence[j]
           offer == Broadcast(j, PrePrepareMsg(w, t, q))
           vote == Broadcast(j, PrepareMsg(w, t, DigestOf(q), j))
<1>2. /\ view \in [Nodes -> Views]
      /\ nextSequence \in [Nodes -> Nat \ {0}]
      /\ Views \subseteq Nat
  <2>1. view \in [Nodes -> Views] /\ nextSequence \in [Nodes -> Nat \ {0}]
    BY DEF TypeOK
  <2> QED
    BY <2>1 DEF Views
<1>3. j \in Nodes
  BY <1>1, <1>2, PrimaryIsNode DEF ProposalTarget, Asked
<1>4. q \in Payload /\ w \in Views /\ t \in Seqs
  BY <1>1, <1>2, <1>3, PbftAssumption DEF Payload, Assign, Seqs
<1>5. Primary(w) = j
  BY <1>1 DEF Answer
<1>6. offer \o vote \in Seq(EnvelopeType)
      /\ Range(offer \o vote) = Range(offer) \cup Range(vote)
  <2>1. offer \in Seq(EnvelopeType) /\ vote \in Seq(EnvelopeType)
    BY <1>3, <1>4, MessageTypes, BroadcastType
  <2> HIDE DEF offer, vote
  <2> QED
    BY <2>1, ConcatProperties, RangeConcatenation
<1>7. /\ \A e \in Range(offer) : e.from = j /\ e.msg = PrePrepareMsg(w, t, q)
      /\ \A e \in Range(vote) : e.msg.type # "PrePrepare"
  BY BroadcastRange, QuietBroadcast DEF PrepareMsg
<1>8. Enqueue(offer \o vote) /\ UNCHANGED inflight
  BY <1>1 DEF Assign, ProposeAccepted
<1>9. ASSUME NEW e \in Envelopes', e.msg.type = "PrePrepare"
      PROVE  \/ e \in Envelopes
             \/ e.from = j /\ e.msg = PrePrepareMsg(w, t, q)
  <2> HIDE DEF offer, vote, j, w, t, q
  <2>1. Envelopes' = Envelopes \cup Range(offer \o vote)
    BY <1>6, <1>8, EnqueueEnvelopes
  <2> QED
    BY <1>6, <1>7, <1>9, <2>1
<1>10. UNCHANGED <<view, committed>>
  BY DEF ProposeAccepted
<1>11. /\ pendingPayloads' = [pendingPayloads EXCEPT ![j][t] = q]
       /\ nextSequence' = [nextSequence EXCEPT ![j] = t + 1]
  BY <1>1 DEF Assign
<1> HIDE DEF j, q
<1>12. ASSUME NEW v \in Views, NEW s \in Seqs, NEW p \in Payload,
              Claimed(v, s, p)'
       PROVE  Claimed(v, s, p) \/ (v = w /\ s = t /\ p = q)
  <2>1. CASE \E e \in Envelopes' : PrePrepared(e, v, s, p)
    <3>1. PICK e \in Envelopes' : PrePrepared(e, v, s, p)
      BY <2>1
    <3>2. CASE e \in Envelopes
      BY <3>1, <3>2 DEF Claimed
    <3>3. CASE e.msg = PrePrepareMsg(w, t, q)
      BY <3>1, <3>3 DEF PrePrepared, PrePrepareMsg
    <3> QED
      BY <1>9, <3>1, <3>2, <3>3 DEF PrePrepared
  <2>2. CASE \E n \in Nodes : view'[n] = v /\ pendingPayloads'[n][s] = p
    <3>1. PICK n \in Nodes : view'[n] = v /\ pendingPayloads'[n][s] = p
      BY <2>2
    <3>2. CASE n = j /\ s = t
      BY <1>3, <1>4, <1>10, <1>11, <3>1, <3>2 DEF TypeOK
    <3>3. CASE ~(n = j /\ s = t)
      <4>1. view[n] = v /\ pendingPayloads[n][s] = p
        BY <1>3, <1>4, <1>10, <1>11, <3>1, <3>3 DEF TypeOK
      <4> QED
        BY <4>1 DEF Claimed
    <3> QED
      BY <3>2, <3>3
  <2>3. CASE \E n \in Nodes : \E x \in Entries(n)' : Logged(x, v, s, p)
    BY <1>10, <2>3 DEF Entries, EntriesOf, Claimed
  <2> QED
    BY <1>12, <2>1, <2>2, <2>3 DEF Claimed, PrePrepared, Logged
<1>13. t \in Nat /\ w \in Nat /\ \A p \in Payload : ~Claimed(w, t, p)
  BY <1>3, <1>4, <1>5 DEF ClaimInv, ClaimsNumbered, Numbered, Seqs, Views
<1>14. SentByPrimary'
  <2> SUFFICES ASSUME NEW e \in Envelopes', e.msg.type = "PrePrepare"
               PROVE  e.from = Primary(e.msg.view)
    BY DEF SentByPrimary
  <2>1. CASE e \in Envelopes
    BY <2>1 DEF ClaimInv, SentByPrimary
  <2>2. CASE e.from = j /\ e.msg = PrePrepareMsg(w, t, q)
    BY <1>5, <2>2 DEF PrePrepareMsg
  <2> QED
    BY <1>9, <2>1, <2>2
<1> HIDE DEF w, t, Claimed
<1>15. ClaimsUnique'
  BY <1>12, <1>13 DEF ClaimInv, ClaimsUnique
<1>16. ClaimsNumbered'
  <2> SUFFICES ASSUME NEW v \in Views, NEW s \in Seqs, NEW p \in Payload,
                      Claimed(v, s, p)'
               PROVE  Numbered(v, s)'
    BY DEF ClaimsNumbered
  <2>1. CASE v = w /\ s = t
    <3>1. view'[j] = w /\ nextSequence'[j] = t + 1
      BY <1>2, <1>3, <1>10, <1>11 DEF w
    <3> QED
      BY <1>5, <1>13, <2>1, <3>1 DEF Numbered
  <2>2. CASE Claimed(v, s, p)
    <3>1. Numbered(v, s)
      BY <2>2 DEF ClaimInv, ClaimsNumbered
    <3>2. \A n \in Nodes : /\ view'[n] = view[n]
                           /\ nextSequence'[n] >= nextSequence[n]
      BY <1>2, <1>3, <1>10, <1>11, <1>13 DEF t
    <3> QED
      BY <3>1, <3>2, NumberedStays
  <2> QED
    BY <1>12, <2>1, <2>2
<1>17. ClaimsProposed'
  <2>1. q \in Proposed'
    BY DEF ProposeAccepted, Proposed, TypeOK, q
  <2> QED
    BY <1>12, <2>1 DEF ClaimInv, ClaimsProposed
<1> QED
  BY <1>14, <1>15, <1>16, <1>17 DEF ClaimInv

LEMMA InitClaims == Init => ClaimInv
<1> SUFFICES ASSUME Init PROVE ClaimInv
  OBVIOUS
<1>1. Envelopes = {}
  BY EmptyRange DEF Init, ClusterInit, Envelopes
<1>2. \A i \in Nodes : Entries(i) = {}
  BY DEF Init, Entries, EntriesOf
<1>3. \A v \in Views, s \in Seqs, p \in Payload : ~Claimed(v, s, p)
  BY <1>1, <1>2, PbftAssumption DEF Init, Claimed
<1> HIDE DEF Claimed
<1> QED
  BY <1>1, <1>3 DEF ClaimInv, SentByPrimary, ClaimsNumbered, ClaimsUnique,
                    ClaimsProposed

\* Nothing takes a proposal back.
LEMMA ProposedGrows ==
  ASSUME TypeOK, [Next]_vars
  PROVE  Proposed \subseteq Proposed'
<1>1. OutcomeOK
  BY TypeParts
<1>2. \A p \in Payloads : outcome'[p] = "unsent" => outcome[p] = "unsent"
  <2>1. CASE \E p \in Payloads : ProposeAccepted(p) \/ ProposeRejected(p)
    BY <1>1, <2>1 DEF ProposeAccepted, ProposeRejected, OutcomeOK
  <2>2. CASE ~ \E p \in Payloads : ProposeAccepted(p) \/ ProposeRejected(p)
    <3>1. UNCHANGED outcome
      BY <2>2
         DEF Next, BeginStep, LoseMessage, DeliverMessage, HandleMessage,
             HandlePrePrepare, RecordPrepare, BecomePrepared, RecordCommit,
             BecomeCommitted, JoinViewChange, BecomePrimary, HandleNewView,
             Discard, Tick, TickQuiet, TickCountdown, TickTimeout,
             ChangeFaults, vars
    <3> QED
      BY <3>1
  <2> QED
    BY <2>1, <2>2
<1> QED
  BY <1>2 DEF Proposed

LEMMA ClaimStep == TypeInv /\ TypeOK' /\ ClaimInv /\ [Next]_vars => ClaimInv'
<1> SUFFICES ASSUME TypeOK, TypeOK', TypeInv, ClaimInv, [Next]_vars,
                    Proposed \subseteq Proposed'
             PROVE  ClaimInv'
  BY ProposedGrows DEF TypeInv
<1>1. ASSUME NEW p \in Payloads, ProposeAccepted(p)
      PROVE  ClaimInv'
  BY <1>1, ProposeClaims
<1>2. CASE DeliverMessage
  <2> DEFINE i == Head(inflight).to
             m == Tampered(Head(inflight))
  <2>1. Deliverable /\ HandleMessage(i, m)
    BY <1>2 DEF DeliverMessage
  <2>2. inflight # <<>> /\ i \in Nodes /\ m \in Message
    BY <2>1, DeliveredType, TypeParts
  <2>3. m = Tampered(Head(inflight))
    OBVIOUS
  <2> HIDE DEF i, m
  <2>4. CASE HandlePrePrepare(i, m)
    BY <2>1, <2>2, <2>3, <2>4, PrePrepareClaims
  <2>5. CASE \/ RecordPrepare(i, m) \/ BecomePrepared(i, m)
             \/ RecordCommit(i, m) \/ Discard(i, m)
    BY <2>2, <2>5, VoteClaims
  <2>6. CASE BecomeCommitted(i, m)
    BY <2>2, <2>6, CommitClaims
  <2>7. CASE \/ JoinViewChange(i, m) \/ BecomePrimary(i, m)
             \/ HandleNewView(i, m)
    BY <2>2, <2>7, ViewChangeClaims
  <2> QED
    BY <2>1, <2>4, <2>5, <2>6, <2>7 DEF HandleMessage
<1>3. CASE Tick
  <2>1. PICK i \in Nodes : TickQuiet(i) \/ TickCountdown(i) \/ TickTimeout(i)
    BY <1>3 DEF Tick
  <2> DEFINE v == view[i] + 1
             vote == ViewChangeMsg(v, i, highestCommittedSeq[i])
             out == IF TickTimeout(i) THEN Broadcast(i, vote) ELSE <<>>
  <2>2. out \in Seq(EnvelopeType)
    <3>1. CASE TickTimeout(i)
      <4>1. view[i] < MaxView
        BY <1>3, <3>1, TickRoom, SizeAssumption
           DEF TickTimeout, TickTurn, TypeOK, Nodes
      <4>2. v \in Views /\ highestCommittedSeq[i] \in Nat
        <5>1. /\ view \in [Nodes -> Views] /\ i \in Nodes
              /\ highestCommittedSeq[i] \in Nat
          BY <1>3, <3>1, SizeAssumption
             DEF TypeOK, TickTimeout, TickTurn, Nodes
        <5> QED
          BY <4>1, <5>1, PbftAssumption DEF Views
      <4>3. vote \in Message
        BY <4>2, MessageTypes
      <4> QED
        BY <3>1, <4>3, BroadcastType
    <3>2. CASE ~TickTimeout(i)
      BY <3>2, EmptySeq
    <3> QED
      BY <3>1, <3>2
  <2>3. \A e \in Range(out) : e.msg.type # "PrePrepare"
    BY EmptyRange, QuietBroadcast DEF ViewChangeMsg
  <2>4. /\ Enqueue(out) /\ UNCHANGED inflight
        /\ UNCHANGED <<view, nextSequence, pendingPayloads, committed>>
    BY <2>1 DEF TickQuiet, TickCountdown, TickTimeout, TickTurn, nodeVars,
                viewVars, logVars
  <2> HIDE DEF out
  <2>5. \A e \in Envelopes' : e.msg.type = "PrePrepare" => e \in Envelopes
    BY <2>2, <2>3, <2>4, EnqueueEnvelopes
  <2> QED
    BY <2>4, <2>5, QuietNodes
<1>4. CASE BeginStep \/ LoseMessage \/ ChangeFaults \/ UNCHANGED vars
           \/ \E p \in Payloads : ProposeRejected(p)
  <2>1. Envelopes' \subseteq Envelopes
    <3>1. CASE BeginStep
      BY <3>1, EmptyRange DEF BeginStep, StartStep, Envelopes
    <3>2. CASE LoseMessage
      BY <3>2, HeadTailRange DEF LoseMessage, Lose, Envelopes, TypeOK
    <3>3. CASE ~BeginStep /\ ~LoseMessage
      BY <1>4, <3>3 DEF ChangeFaults, SetFaults, vars, clusterVars,
                        ProposeRejected, Envelopes
    <3> QED
      BY <3>1, <3>2, <3>3
  <2>2. UNCHANGED <<view, nextSequence, pendingPayloads, committed>>
    BY <1>4 DEF BeginStep, LoseMessage, ChangeFaults, vars, nodeVars,
                ProposeRejected
  <2> QED
    BY <2>1, <2>2, QuietNodes
<1> QED
  BY <1>1, <1>2, <1>3, <1>4 DEF Next

LEMMA ClaimsAgree == TypeOK /\ ClaimInv => PerViewAgreement
<1> SUFFICES ASSUME TypeOK, ClaimInv,
                    NEW i \in Nodes, NEW j \in Nodes,
                    NEW a \in Entries(i), NEW b \in Entries(j),
                    a.view = b.view, a.sequence = b.sequence,
                    Primary(a.view) \in NeverEquivocates
             PROVE  a.payload = b.payload
  BY DEF PerViewAgreement
<1>1. a \in CommittedEntry /\ b \in CommittedEntry
  <2>1. /\ committed[i] \in Seq(CommittedEntry)
        /\ committed[j] \in Seq(CommittedEntry)
    BY DEF TypeOK
  <2> QED
    BY <2>1, ElementOfSeq, LenProperties DEF Entries, EntriesOf
<1>2. /\ Claimed(a.view, a.sequence, a.payload)
      /\ Claimed(a.view, a.sequence, b.payload)
  BY DEF Claimed, Logged
<1> HIDE DEF Claimed
<1> QED
  BY <1>1, <1>2 DEF ClaimInv, ClaimsUnique, CommittedEntry

\* Two nodes never commit different payloads for one sequence number of one
\* view whose primary does not equivocate, for every cluster size, every loss,
\* isolation, partition and every other Byzantine behaviour fault.rs offers.
THEOREM ViewAgreement == Spec => []PerViewAgreement
<1>1. TypeInv => TypeOK
  BY DEF TypeInv
<1>2. TypeInv /\ TypeInv' /\ ClaimInv /\ [Next]_vars => ClaimInv'
  BY ClaimStep DEF TypeInv
<1>3. Init => TypeInv /\ ClaimInv
  BY InitType, InitClaims
<1> QED
  BY <1>1, <1>2, <1>3, TypeStep, ClaimsAgree, PTL DEF Spec

-----------------------------------------------------------------------------
(* Payloads of undecided slots *)

\* One slot of one node: the payload is there while the slot is undecided.
Undecided(slot) == slot.phase \in {"PrePrepared", "Prepared"}

\* A step that writes at most one slot and its payload keeps the invariant if
\* that slot satisfies it afterwards.
LEMMA OneSlotPayload ==
  ASSUME LogTypeOK, PayloadWhileUndecided,
         NEW i \in Nodes, NEW s \in Seqs, NEW slot, NEW p,
         slots' = [slots EXCEPT ![i][s] = slot],
         pendingPayloads' = [pendingPayloads EXCEPT ![i][s] = p],
         p # None <=> Undecided(slot)
  PROVE  PayloadWhileUndecided'
<1> SUFFICES ASSUME NEW n \in Nodes, NEW t \in Seqs
             PROVE  pendingPayloads'[n][t] # None
                      <=> slots'[n][t].phase \in {"PrePrepared", "Prepared"}
  BY DEF PayloadWhileUndecided
<1>1. CASE n = i /\ t = s
  BY <1>1 DEF LogTypeOK, Undecided
<1>2. CASE ~(n = i /\ t = s)
  <2>1. /\ slots'[n][t] = slots[n][t]
        /\ pendingPayloads'[n][t] = pendingPayloads[n][t]
    BY <1>2 DEF LogTypeOK
  <2> QED
    BY <2>1 DEF PayloadWhileUndecided
<1> QED
  BY <1>1, <1>2

LEMMA SlotPhases ==
  /\ NoSlot.phase = "Idle"
  /\ \A v : PrePreparedSlot(v).phase = "PrePrepared"
  BY DEF NoSlot, PrePreparedSlot

\* A node that enters a view keeps its committed slots and no payload.
LEMMA EnterPayload ==
  ASSUME LogTypeOK, PayloadWhileUndecided,
         NEW i \in Nodes, NEW v, NEW next, EnterNewView(i, v, next)
  PROVE  PayloadWhileUndecided'
<1> DEFINE kept == [s \in Seqs |-> IF slots[i][s].phase = "Committed"
                                     THEN slots[i][s] ELSE NoSlot]
           cleared == [s \in Seqs |-> None]
<1>1. /\ slots' = [slots EXCEPT ![i] = kept]
      /\ pendingPayloads' = [pendingPayloads EXCEPT ![i] = cleared]
  BY DEF EnterNewView
<1>2. \A s \in Seqs : kept[s].phase \in {"Committed", "Idle"} /\ cleared[s] = None
  BY SlotPhases
<1> HIDE DEF kept, cleared
<1> SUFFICES ASSUME NEW n \in Nodes, NEW t \in Seqs
             PROVE  pendingPayloads'[n][t] # None
                      <=> slots'[n][t].phase \in {"PrePrepared", "Prepared"}
  BY DEF PayloadWhileUndecided
<1>3. CASE n = i
  BY <1>1, <1>2, <1>3 DEF LogTypeOK
<1>4. CASE n # i
  BY <1>1, <1>4 DEF LogTypeOK, PayloadWhileUndecided
<1> QED
  BY <1>3, <1>4

LEMMA ProposePayload ==
  ASSUME TypeOK, PayloadWhileUndecided, NEW p \in Payloads, ProposeAccepted(p)
  PROVE  PayloadWhileUndecided'
<1>1. PICK i \in Asked : Assign(ProposalTarget(i), <<p, 0>>)
  BY DEF ProposeAccepted
<1> DEFINE j == ProposalTarget(i)
           s == nextSequence[j]
<1>2. j \in Nodes
  <2>1. view \in [Nodes -> Views] /\ Views \subseteq Nat
    BY TypeParts DEF ViewTypeOK, Views
  <2> QED
    BY <2>1, PrimaryIsNode DEF ProposalTarget, Asked
<1>3. s \in Seqs
  <2>1. s \in Nat \ {0} /\ s <= MaxSeq
    BY <1>1, <1>2, TypeParts DEF ViewTypeOK, Assign
  <2> HIDE DEF s
  <2> QED
    BY <2>1, PbftAssumption DEF Seqs
<1>4. /\ slots' = [slots EXCEPT ![j][s] = PrePreparedSlot(view[j])]
      /\ pendingPayloads' = [pendingPayloads EXCEPT ![j][s] = <<p, 0>>]
  BY <1>1 DEF Assign
<1>5. <<p, 0>> # None
  <2>1. <<p, 0>> \in Payload
    BY DEF Payload
  <2> QED
    BY <2>1, PbftAssumption
<1> HIDE DEF j, s
<1> QED
  BY <1>2, <1>3, <1>4, <1>5, SlotPhases, OneSlotPayload, TypeParts
     DEF Undecided

LEMMA PrePreparePayload ==
  ASSUME LogTypeOK, PayloadWhileUndecided,
         NEW i \in Nodes, NEW m \in Message, HandlePrePrepare(i, m)
  PROVE  PayloadWhileUndecided'
<1>1. m.sequence \in Seqs /\ m.payload # None
  BY MessageFields, PbftAssumption DEF HandlePrePrepare, AcceptsPrePrepare
<1>2. /\ slots' = [slots EXCEPT ![i][m.sequence] = PrePreparedSlot(m.view)]
      /\ pendingPayloads' =
           [pendingPayloads EXCEPT ![i][m.sequence] = m.payload]
  BY DEF HandlePrePrepare
<1> QED
  BY <1>1, <1>2, SlotPhases, OneSlotPayload DEF Undecided

\* A vote leaves a slot undecided; the commit quorum decides it and takes the
\* payload out.
LEMMA VotePayload ==
  ASSUME LogTypeOK, PayloadWhileUndecided,
         NEW i \in Nodes, NEW m \in Message,
         \/ RecordPrepare(i, m) \/ BecomePrepared(i, m)
         \/ RecordCommit(i, m) \/ BecomeCommitted(i, m)
  PROVE  PayloadWhileUndecided'
<1> DEFINE s == m.sequence
           slot == slots[i][s]
           p == pendingPayloads[i][s]
<1>1. s \in Seqs
  BY MessageFields DEF RecordPrepare, BecomePrepared, RecordCommit,
     BecomeCommitted, AcceptsPrepare, AcceptsCommit
<1>2. slot \in SlotState /\ (p # None <=> Undecided(slot))
  BY <1>1 DEF LogTypeOK, PayloadWhileUndecided, Undecided
<1>3. pendingPayloads = [pendingPayloads EXCEPT ![i][s] = p]
  BY <1>1 DEF LogTypeOK
<1>4. CASE RecordPrepare(i, m)
  <2> DEFINE new == [slot EXCEPT !.prepareVoters = PrepareVoters(i, m)]
  <2>1. Undecided(slot) <=> Undecided(new)
    BY <1>2 DEF Undecided, SlotState
  <2>2. slots' = [slots EXCEPT ![i][s] = new] /\ UNCHANGED pendingPayloads
    BY <1>4 DEF RecordPrepare
  <2> HIDE DEF new, s, slot, p
  <2> QED
    BY <1>1, <1>2, <1>3, <2>1, <2>2, OneSlotPayload
<1>5. CASE BecomePrepared(i, m)
  <2> DEFINE new == [slot EXCEPT !.phase = "Prepared",
                                 !.prepareVoters = PrepareVoters(i, m),
                                 !.commitVoters = slot.commitVoters \cup {i}]
  <2>1. Undecided(slot) /\ Undecided(new)
    BY <1>2, <1>5 DEF Undecided, SlotState, BecomePrepared, AcceptsPrepare
  <2>2. slots' = [slots EXCEPT ![i][s] = new] /\ UNCHANGED pendingPayloads
    BY <1>5 DEF BecomePrepared
  <2> HIDE DEF new, s, slot, p
  <2> QED
    BY <1>1, <1>2, <1>3, <2>1, <2>2, OneSlotPayload
<1>6. CASE RecordCommit(i, m)
  <2> DEFINE new == [slot EXCEPT !.commitVoters = CommitVoters(i, m)]
  <2>1. Undecided(slot) <=> Undecided(new)
    BY <1>2 DEF Undecided, SlotState
  <2>2. slots' = [slots EXCEPT ![i][s] = new] /\ UNCHANGED pendingPayloads
    BY <1>6 DEF RecordCommit
  <2> HIDE DEF new, s, slot, p
  <2> QED
    BY <1>1, <1>2, <1>3, <2>1, <2>2, OneSlotPayload
<1>7. CASE BecomeCommitted(i, m)
  <2> DEFINE new == [slot EXCEPT !.phase = "Committed",
                                 !.commitVoters = CommitVoters(i, m)]
  <2>1. ~Undecided(new)
    BY <1>2 DEF Undecided, SlotState
  <2>2. /\ slots' = [slots EXCEPT ![i][s] = new]
        /\ pendingPayloads' = [pendingPayloads EXCEPT ![i][s] = None]
    BY <1>7 DEF BecomeCommitted
  <2> HIDE DEF new, s, slot, p
  <2> QED
    BY <1>1, <2>1, <2>2, OneSlotPayload
<1> QED
  BY <1>4, <1>5, <1>6, <1>7

LEMMA InitPayload == Init => PayloadWhileUndecided
  BY SlotPhases DEF Init, PayloadWhileUndecided

LEMMA PayloadStep ==
  TypeInv /\ PayloadWhileUndecided /\ [Next]_vars => PayloadWhileUndecided'
<1> SUFFICES ASSUME TypeOK, LogTypeOK, PayloadWhileUndecided, [Next]_vars
             PROVE  PayloadWhileUndecided'
  BY TypeParts DEF TypeInv
<1>1. ASSUME NEW p \in Payloads, ProposeAccepted(p)
      PROVE  PayloadWhileUndecided'
  BY <1>1, ProposePayload
<1>2. CASE DeliverMessage
  <2> DEFINE i == Head(inflight).to
             m == Tampered(Head(inflight))
  <2>1. HandleMessage(i, m) /\ i \in Nodes /\ m \in Message
    BY <1>2, DeliveredType, TypeParts DEF DeliverMessage
  <2> HIDE DEF i, m
  <2>2. CASE HandlePrePrepare(i, m)
    BY <2>1, <2>2, PrePreparePayload
  <2>3. CASE \/ RecordPrepare(i, m) \/ BecomePrepared(i, m)
             \/ RecordCommit(i, m) \/ BecomeCommitted(i, m)
    BY <2>1, <2>3, VotePayload
  <2>4. CASE BecomePrimary(i, m) \/ HandleNewView(i, m)
    BY <2>1, <2>4, EnterPayload DEF BecomePrimary, HandleNewView
  <2>5. CASE JoinViewChange(i, m) \/ Discard(i, m)
    BY <2>5 DEF JoinViewChange, Discard, nodeVars, logVars,
                PayloadWhileUndecided
  <2> QED
    BY <2>1, <2>2, <2>3, <2>4, <2>5 DEF HandleMessage
<1>3. CASE ~DeliverMessage /\ ~\E p \in Payloads : ProposeAccepted(p)
  <2>1. UNCHANGED <<slots, pendingPayloads>>
    BY <1>3 DEF Next, ProposeRejected, BeginStep, LoseMessage, Tick,
                TickQuiet, TickCountdown, TickTimeout, ChangeFaults, vars,
                nodeVars, logVars
  <2> QED
    BY <2>1 DEF PayloadWhileUndecided
<1> QED
  BY <1>1, <1>2, <1>3

\* The commit of a slot always finds its payload, and no payload outlives its
\* slot, however views change and votes arrive.
THEOREM PayloadKept == Spec => []PayloadWhileUndecided
  BY InitType, TypeStep, InitPayload, PayloadStep, PTL DEF Spec

-----------------------------------------------------------------------------
(* What each step puts on the network *)

\* The message m, sent by node i to another node.
SentBy(e, i, m) == e.from = i /\ e.to \in Nodes \ {i} /\ e.msg = m

LEMMA BroadcastSends ==
  ASSUME NEW i \in Nodes, NEW m, NEW e \in Range(Broadcast(i, m))
  PROVE  SentBy(e, i, m)
<1>1. PICK k \in 1 .. N - 1 : e = Envelope(i, Peer(i, k), m)
  BY DEF Broadcast, Range
<1> QED
  BY <1>1, PeerIsOther DEF Envelope, SentBy

\* A backup answers a pre-prepare with its prepare vote.
LEMMA PrePrepareSends ==
  ASSUME TypeOK, inflight # <<>>, NEW i \in Nodes, NEW m \in Message,
         HandlePrePrepare(i, m), NEW e \in Envelopes'
  PROVE  \/ e \in Envelopes
         \/ SentBy(e, i, PrepareMsg(m.view, m.sequence, m.digest, i))
<1> DEFINE vote == PrepareMsg(m.view, m.sequence, m.digest, i)
<1>1. vote \in Message
  BY MessageFields, MessageTypes DEF HandlePrePrepare, AcceptsPrePrepare
<1>2. Consume(Broadcast(i, vote))
  BY DEF HandlePrePrepare
<1> HIDE DEF vote
<1>3. e \in Envelopes \cup Range(Broadcast(i, vote))
  BY <1>1, <1>2, BroadcastType, ConsumeEnvelopes
<1> QED
  BY <1>3, BroadcastSends DEF vote

\* A node that becomes Prepared sends its commit vote.
LEMMA PreparedSends ==
  ASSUME TypeOK, inflight # <<>>, NEW i \in Nodes, NEW m \in Message,
         BecomePrepared(i, m), NEW e \in Envelopes'
  PROVE  \/ e \in Envelopes
         \/ SentBy(e, i, CommitMsg(m.view, m.sequence, m.digest, i))
<1> DEFINE vote == CommitMsg(m.view, m.sequence, m.digest, i)
<1>1. vote \in Message
  BY MessageFields, MessageTypes DEF BecomePrepared, AcceptsPrepare
<1>2. Consume(Broadcast(i, vote))
  BY DEF BecomePrepared
<1> HIDE DEF vote
<1>3. e \in Envelopes \cup Range(Broadcast(i, vote))
  BY <1>1, <1>2, BroadcastType, ConsumeEnvelopes
<1> QED
  BY <1>3, BroadcastSends DEF vote

\* A handler that sends nothing.
LEMMA SilentSends ==
  ASSUME TypeOK, inflight # <<>>, Consume(<<>>)
  PROVE  Envelopes' \subseteq Envelopes
  BY EmptySeq, EmptyRange, ConsumeEnvelopes

\* A node that joins a view change sends its own vote, once it has one.
LEMMA JoinSends ==
  ASSUME TypeOK, NEW i \in Nodes, NEW m \in Message, AcceptsViewChange(i, m)
  PROVE  /\ JoinMessages(i, m) \in Seq(EnvelopeType)
         /\ \A e \in Range(JoinMessages(i, m)) :
              SentBy(e, i, ViewChangeMsg(m.newView, i, highestCommittedSeq[i]))
<1> DEFINE vote == ViewChangeMsg(m.newView, i, highestCommittedSeq[i])
<1>1. vote \in Message
  BY MessageFields, MessageTypes, TypeParts DEF AcceptsViewChange, LogTypeOK
<1> HIDE DEF vote
<1>2. /\ Broadcast(i, vote) \in Seq(EnvelopeType)
      /\ \A e \in Range(Broadcast(i, vote)) : SentBy(e, i, vote)
  BY <1>1, BroadcastType, BroadcastSends
<1>3. JoinMessages(i, m) \in {<<>>, Broadcast(i, vote)}
  BY DEF JoinMessages, vote
<1>4. <<>> \in Seq(EnvelopeType) /\ Range(<<>>) = {}
  BY EmptySeq, EmptyRange
<1> QED
  BY <1>2, <1>3, <1>4 DEF vote

LEMMA JoinViewChangeSends ==
  ASSUME TypeOK, inflight # <<>>, NEW i \in Nodes, NEW m \in Message,
         JoinViewChange(i, m), NEW e \in Envelopes'
  PROVE  \/ e \in Envelopes
         \/ SentBy(e, i, ViewChangeMsg(m.newView, i, highestCommittedSeq[i]))
<1>1. AcceptsViewChange(i, m) /\ Consume(JoinMessages(i, m))
  BY DEF JoinViewChange
<1> QED
  BY <1>1, JoinSends, ConsumeEnvelopes

\* The new primary also announces the view.
LEMMA BecomePrimarySends ==
  ASSUME TypeOK, inflight # <<>>, NEW i \in Nodes, NEW m \in Message,
         BecomePrimary(i, m), NEW e \in Envelopes'
  PROVE  \/ e \in Envelopes
         \/ SentBy(e, i, ViewChangeMsg(m.newView, i, highestCommittedSeq[i]))
         \/ SentBy(e, i, NewViewMsg(m.newView, highestCommittedSeq[i] + 1))
<1> DEFINE lead == NewViewMsg(m.newView, highestCommittedSeq[i] + 1)
           out == Broadcast(i, lead)
<1>1. AcceptsViewChange(i, m) /\ Consume(JoinMessages(i, m) \o out)
  BY DEF BecomePrimary
<1>2. lead \in Message
  BY <1>1, MessageFields, MessageTypes, TypeParts
     DEF AcceptsViewChange, LogTypeOK
<1> HIDE DEF lead
<1>3. out \in Seq(EnvelopeType) /\ \A x \in Range(out) : SentBy(x, i, lead)
  BY <1>2, BroadcastType, BroadcastSends
<1> HIDE DEF out
<1>4. /\ JoinMessages(i, m) \o out \in Seq(EnvelopeType)
      /\ Range(JoinMessages(i, m) \o out)
           = Range(JoinMessages(i, m)) \cup Range(out)
  BY <1>1, <1>3, JoinSends, ConcatProperties, RangeConcatenation
<1>5. e \in Envelopes \cup Range(JoinMessages(i, m) \o out)
  BY <1>1, <1>4, ConsumeEnvelopes
<1> QED
  BY <1>1, <1>3, <1>4, <1>5, JoinSends DEF lead

\* A tick sends at most the view-change vote of the node that times out.
LEMMA TickSends ==
  ASSUME TypeInv, Tick, NEW i \in Nodes,
         TickQuiet(i) \/ TickCountdown(i) \/ TickTimeout(i),
         NEW e \in Envelopes'
  PROVE  \/ e \in Envelopes
         \/ /\ TickTimeout(i)
            /\ SentBy(e, i, ViewChangeMsg(view[i] + 1, i, highestCommittedSeq[i]))
<1> DEFINE vote == ViewChangeMsg(view[i] + 1, i, highestCommittedSeq[i])
<1>1. TypeOK
  BY DEF TypeInv
<1>2. CASE TickTimeout(i)
  <2>1. view[i] < MaxView
    BY <1>2, TickRoom, SizeAssumption DEF TickTimeout, TickTurn, Nodes
  <2>2. view[i] + 1 \in Views
    BY <1>1, <2>1, TypeParts, PbftAssumption DEF ViewTypeOK, Views
  <2>3. vote \in Message
    BY <1>1, <2>2, MessageTypes, TypeParts DEF LogTypeOK
  <2>4. Enqueue(Broadcast(i, vote)) /\ UNCHANGED inflight
    BY <1>2 DEF TickTimeout, TickTurn
  <2> HIDE DEF vote
  <2>5. e \in Envelopes \cup Range(Broadcast(i, vote))
    BY <1>1, <2>3, <2>4, BroadcastType, EnqueueEnvelopes
  <2> QED
    BY <1>2, <2>5, BroadcastSends DEF vote
<1>3. CASE ~TickTimeout(i)
  <2>1. Enqueue(<<>>) /\ UNCHANGED inflight
    BY <1>3 DEF TickQuiet, TickCountdown, TickTurn
  <2> QED
    BY <1>1, <2>1, EmptySeq, EmptyRange, EnqueueEnvelopes
<1> QED
  BY <1>2, <1>3

\* A primary sends the payload it numbers and its own prepare vote.
LEMMA ProposeSends ==
  ASSUME TypeOK, NEW p \in Payloads, ProposeAccepted(p)
  PROVE  \E j \in Nodes : \E w \in Views, t \in Seqs :
           /\ w = view[j] /\ t = nextSequence[j] /\ Primary(w) = j
           /\ Assign(j, <<p, 0>>)
           /\ \A e \in Envelopes' :
                \/ e \in Envelopes
                \/ SentBy(e, j, PrePrepareMsg(w, t, <<p, 0>>))
                \/ SentBy(e, j, PrepareMsg(w, t, DigestOf(<<p, 0>>), j))
<1>1. PICK i \in Asked : /\ Answer(ProposalTarget(i)) = "Accepted"
                         /\ Assign(ProposalTarget(i), <<p, 0>>)
  BY DEF ProposeAccepted
<1> DEFINE j == ProposalTarget(i)
           w == view[j]
           t == nextSequence[j]
           offer == PrePrepareMsg(w, t, <<p, 0>>)
           vote == PrepareMsg(w, t, DigestOf(<<p, 0>>), j)
<1>2. view \in [Nodes -> Views] /\ nextSequence \in [Nodes -> Nat \ {0}]
  BY TypeParts DEF ViewTypeOK
<1>3. j \in Nodes /\ Primary(w) = j
  <2>1. Views \subseteq Nat
    BY DEF Views
  <2> QED
    BY <1>1, <1>2, <2>1, PrimaryIsNode DEF ProposalTarget, Asked, Answer
<1>4. <<p, 0>> \in Payload /\ w \in Views /\ t \in Seqs
  <2>1. <<p, 0>> \in Payload /\ w \in Views
    BY <1>2, <1>3 DEF Payload
  <2>2. t \in Nat \ {0} /\ t <= MaxSeq
    BY <1>1, <1>2, <1>3 DEF Assign
  <2> HIDE DEF t
  <2> QED
    BY <2>1, <2>2, PbftAssumption DEF Seqs
<1>5. offer \in Message /\ vote \in Message
  BY <1>3, <1>4, MessageTypes
<1>6. Enqueue(Broadcast(j, offer) \o Broadcast(j, vote)) /\ UNCHANGED inflight
  BY <1>1 DEF Assign, ProposeAccepted
<1> HIDE DEF j, w, t, offer, vote
<1>7. /\ Broadcast(j, offer) \o Broadcast(j, vote) \in Seq(EnvelopeType)
      /\ Range(Broadcast(j, offer) \o Broadcast(j, vote))
           = Range(Broadcast(j, offer)) \cup Range(Broadcast(j, vote))
  <2>1. /\ Broadcast(j, offer) \in Seq(EnvelopeType)
        /\ Broadcast(j, vote) \in Seq(EnvelopeType)
    BY <1>3, <1>5, BroadcastType
  <2> QED
    BY <2>1, ConcatProperties, RangeConcatenation
<1>8. \A e \in Envelopes' : \/ e \in Envelopes
                            \/ SentBy(e, j, offer)
                            \/ SentBy(e, j, vote)
  BY <1>3, <1>6, <1>7, EnqueueEnvelopes, BroadcastSends
<1> QED
  BY <1>1, <1>3, <1>4, <1>8 DEF j, w, t, offer, vote

\* The other steps of the cluster only move or lose messages.
LEMMA ClusterSends ==
  ASSUME TypeOK,
         \/ BeginStep \/ LoseMessage \/ ChangeFaults \/ UNCHANGED vars
         \/ \E p \in Payloads : ProposeRejected(p)
  PROVE  /\ Envelopes' \subseteq Envelopes
         /\ UNCHANGED nodeVars
<1>1. CASE BeginStep
  BY <1>1, EmptyRange DEF BeginStep, StartStep, Envelopes, nodeVars
<1>2. CASE LoseMessage
  BY <1>2, HeadTailRange, TypeParts
     DEF LoseMessage, Lose, Envelopes, NetTypeOK, nodeVars
<1>3. CASE ~BeginStep /\ ~LoseMessage
  BY <1>3 DEF ChangeFaults, SetFaults, vars, clusterVars, ProposeRejected,
              Envelopes, nodeVars
<1> QED
  BY <1>1, <1>2, <1>3

-----------------------------------------------------------------------------
(* View changes *)

\* What the messages say of themselves.
LEMMA MessageKinds ==
  /\ \A v, s, p : PrePrepareMsg(v, s, p).type = "PrePrepare"
  /\ \A v, s, d, i : /\ PrepareMsg(v, s, d, i).type = "Prepare"
                     /\ CommitMsg(v, s, d, i).type = "Commit"
  BY DEF PrePrepareMsg, PrepareMsg, CommitMsg

LEMMA NotSuspiciousStep ==
  TypeInv /\ PrimaryNotSuspicious /\ [Next]_vars => PrimaryNotSuspicious'
<1> SUFFICES ASSUME TypeOK, ViewTypeOK, PrimaryNotSuspicious, [Next]_vars
             PROVE  PrimaryNotSuspicious'
  BY TypeParts DEF TypeInv
<1>1. CASE Tick
  BY <1>1 DEF Tick, TickQuiet, TickCountdown, TickTimeout, Monitors, nodeVars,
              viewVars, PrimaryNotSuspicious, ViewTypeOK
<1>2. CASE DeliverMessage
  <2> DEFINE i == Head(inflight).to
             m == Tampered(Head(inflight))
  <2>1. HandleMessage(i, m) /\ i \in Nodes /\ m \in Message
    BY <1>2, DeliveredType, TypeParts DEF DeliverMessage
  <2> HIDE DEF i, m
  <2>2. CASE BecomePrimary(i, m) \/ HandleNewView(i, m)
    <3>1. /\ viewChangeInProgress' = [viewChangeInProgress EXCEPT ![i] = FALSE]
          /\ \A n \in Nodes \ {i} : view'[n] = view[n]
      BY <2>1, <2>2 DEF BecomePrimary, HandleNewView, EnterNewView, ViewTypeOK
    <3> QED
      BY <2>1, <3>1 DEF PrimaryNotSuspicious, ViewTypeOK
  <2>3. CASE ~(BecomePrimary(i, m) \/ HandleNewView(i, m))
    <3>1. UNCHANGED <<view, viewChangeInProgress>>
      BY <2>1, <2>3
         DEF HandleMessage, HandlePrePrepare, RecordPrepare, BecomePrepared,
             RecordCommit, BecomeCommitted, JoinViewChange, Discard, nodeVars,
             viewVars
    <3> QED
      BY <3>1 DEF PrimaryNotSuspicious
  <2> QED
    BY <2>2, <2>3
<1>3. CASE ~Tick /\ ~DeliverMessage
  <2>1. UNCHANGED <<view, viewChangeInProgress>>
    BY <1>3 DEF Next, ProposeAccepted, ProposeRejected, BeginStep, LoseMessage,
                ChangeFaults, vars, nodeVars, viewVars
  <2> QED
    BY <2>1 DEF PrimaryNotSuspicious
<1> QED
  BY <1>1, <1>2, <1>3

\* propose never answers NotLeader(None), in any cluster and any schedule.
THEOREM PrimariesNotSuspicious == Spec => []PrimaryNotSuspicious
<1>1. Init => PrimaryNotSuspicious
  BY DEF Init, PrimaryNotSuspicious
<1> QED
  BY <1>1, InitType, TypeStep, NotSuspiciousStep, PTL DEF Spec

-----------------------------------------------------------------------------
(***************************************************************************)
(* The quorum behind a view.  A vote that a node counts is one its sender  *)
(* recorded for itself before it sent it, and a recorded vote is never     *)
(* withdrawn.                                                              *)
(***************************************************************************)
Voted(v, r) == <<v, r>> \in viewChangeVotes[r]

OwnVoters(v) == {r \in Nodes : Voted(v, r)}

SentVotesRecorded ==
    \A e \in Envelopes :
        e.msg.type = "ViewChange" => Voted(e.msg.newView, e.msg.replica)

CountedVotesRecorded ==
    \A i \in Nodes : \A v \in Views, r \in Nodes :
        <<v, r>> \in viewChangeVotes[i] => Voted(v, r)

AnnouncedViewsVoted ==
    \A e \in Envelopes :
        e.msg.type = "NewView" =>
            Cardinality(OwnVoters(e.msg.view)) >= Quorum

VotesInv ==
    /\ SentVotesRecorded
    /\ CountedVotesRecorded
    /\ AnnouncedViewsVoted
    /\ NewViewQuorum

\* The fault framework leaves the messages of a view change alone.
LEMMA TamperedViewChange ==
  ASSUME NEW e \in EnvelopeType,
         Tampered(e).type \in {"ViewChange", "NewView"}
  PROVE  Tampered(e) = e.msg
<1>1. e.msg \in Message /\ e.msg.type \in {"ViewChange", "NewView"}
  BY TamperedKind DEF EnvelopeType
<1> QED
  BY <1>1 DEF Tampered, Equivocated, Corrupted

LEMMA QuorumIsNat == Quorum \in Nat
  BY SizeAssumption DEF Quorum, F

\* There are finitely many nodes.
LEMMA NodesFinite == IsFiniteSet(Nodes)
<1>1. 0 \in Int /\ N - 1 \in Int
  BY SizeAssumption
<1>2. IsFiniteSet(0 .. N - 1)
  BY <1>1, FS_Interval
<1> QED
  BY <1>2 DEF Nodes

\* Recorded votes only add to the nodes that voted for a view.
LEMMA VotersGrow ==
  ASSUME ViewTypeOK, NEW v,
         \A n \in Nodes : viewChangeVotes[n] \subseteq viewChangeVotes'[n]
  PROVE  /\ OwnVoters(v) \subseteq OwnVoters(v)'
         /\ Cardinality(OwnVoters(v)) >= Quorum
              => Cardinality(OwnVoters(v)') >= Quorum
<1>1. OwnVoters(v) \subseteq OwnVoters(v)' /\ OwnVoters(v)' \subseteq Nodes
  BY DEF OwnVoters, Voted
<1>2. IsFiniteSet(Nodes)
  BY NodesFinite
<1>3. /\ IsFiniteSet(OwnVoters(v)')
      /\ Cardinality(OwnVoters(v)) <= Cardinality(OwnVoters(v)')
      /\ Cardinality(OwnVoters(v)) \in Nat
      /\ Cardinality(OwnVoters(v)') \in Nat
  BY <1>1, <1>2, FS_Subset, FS_CardinalityType
<1> QED
  BY <1>1, <1>3, QuorumIsNat

\* What is on the network are envelopes.
LEMMA EnvelopesTyped == NetTypeOK => Envelopes \subseteq EnvelopeType
<1> SUFFICES ASSUME NetTypeOK, NEW e \in Envelopes PROVE e \in EnvelopeType
  OBVIOUS
<1>1. CASE e \in Range(pending)
  <2>1. PICK k \in 1 .. Len(pending) : e = pending[k]
    BY <1>1, RangeEquality DEF NetTypeOK
  <2> QED
    BY <2>1, ElementOfSeq DEF NetTypeOK
<1>2. CASE e \in Range(inflight)
  <2>1. PICK k \in 1 .. Len(inflight) : e = inflight[k]
    BY <1>2, RangeEquality DEF NetTypeOK
  <2> QED
    BY <2>1, ElementOfSeq DEF NetTypeOK
<1> QED
  BY <1>1, <1>2 DEF Envelopes

LEMMA EnvelopeFields ==
  ASSUME NetTypeOK, NEW e \in Envelopes
  PROVE  e \in EnvelopeType /\ e.msg \in Message
  BY EnvelopesTyped DEF EnvelopeType

\* A step that adds only votes that are recorded as their voters' own, sends
\* only such votes, and enters or announces only views a quorum voted for.
LEMMA VotesFrame ==
  ASSUME TypeOK, TypeOK', VotesInv,
         \A n \in Nodes : viewChangeVotes[n] \subseteq viewChangeVotes'[n],
         \A n \in Nodes : \A v \in Views, r \in Nodes :
           <<v, r>> \in viewChangeVotes'[n] =>
             <<v, r>> \in viewChangeVotes[n] \/ Voted(v, r)',
         \A e \in Envelopes' :
           \/ e \in Envelopes
           \/ e.msg.type = "ViewChange" /\ Voted(e.msg.newView, e.msg.replica)'
           \/ /\ e.msg.type = "NewView"
              /\ Cardinality(OwnVoters(e.msg.view)') >= Quorum
           \/ e.msg.type \notin {"ViewChange", "NewView"},
         \A n \in Nodes, w \in Views :
           view'[n] = w /\ view[n] # w => Cardinality(OwnVoters(w)') >= Quorum
  PROVE  VotesInv'
<1>1. \A v, r : Voted(v, r) /\ r \in Nodes => Voted(v, r)'
  BY DEF Voted
<1>2. CountedVotesRecorded'
  BY <1>1 DEF VotesInv, CountedVotesRecorded
<1>3. SentVotesRecorded'
  <2> SUFFICES ASSUME NEW e \in Envelopes', e.msg.type = "ViewChange"
               PROVE  Voted(e.msg.newView, e.msg.replica)'
    BY DEF SentVotesRecorded
  <2>1. CASE e \in Envelopes
    <3>1. e.msg.replica \in Nodes
      BY <2>1, EnvelopeFields, MessageFields, TypeParts
    <3>2. Voted(e.msg.newView, e.msg.replica)
      BY <2>1 DEF VotesInv, SentVotesRecorded
    <3> QED
      BY <1>1, <3>1, <3>2
  <2> QED
    BY <2>1
<1>4. AnnouncedViewsVoted'
  <2> SUFFICES ASSUME NEW e \in Envelopes', e.msg.type = "NewView"
               PROVE  Cardinality(OwnVoters(e.msg.view)') >= Quorum
    BY DEF AnnouncedViewsVoted
  <2>1. CASE e \in Envelopes
    <3>1. Cardinality(OwnVoters(e.msg.view)) >= Quorum
      BY <2>1 DEF VotesInv, AnnouncedViewsVoted
    <3> QED
      BY <3>1, VotersGrow, TypeParts
  <2> QED
    BY <2>1
<1>5. NewViewQuorum'
  <2>1. ASSUME NEW n \in Nodes, NEW w \in Views, view'[n] = w, w > 0
        PROVE  Cardinality(OwnVoters(w)') >= Quorum
    <3>1. CASE view[n] = w
      <4>1. Cardinality(OwnVoters(w)) >= Quorum
        BY <2>1, <3>1 DEF VotesInv, NewViewQuorum, OwnVoters, Voted
      <4> QED
        BY <4>1, VotersGrow, TypeParts
    <3>2. CASE view[n] # w
      BY <2>1, <3>2
    <3> QED
      BY <3>1, <3>2
  <2>2. ViewTypeOK'
    BY TypeParts, PTL
  <2> QED
    BY <2>1, <2>2 DEF NewViewQuorum, OwnVoters, Voted, ViewTypeOK
<1> QED
  BY <1>2, <1>3, <1>4, <1>5 DEF VotesInv

\* Recording a vote that was sent, and joining with a vote of one's own.
LEMMA RecordedVotes ==
  ASSUME TypeOK, VotesInv, NEW i \in Nodes, NEW m \in Message,
         AcceptsViewChange(i, m), RecordViewChange(i, m),
         Voted(m.newView, m.replica)
  PROVE  /\ \A n \in Nodes : viewChangeVotes[n] \subseteq viewChangeVotes'[n]
         /\ Voted(m.newView, i)'
         /\ \A n \in Nodes : \A v \in Views, r \in Nodes :
              <<v, r>> \in viewChangeVotes'[n] =>
                <<v, r>> \in viewChangeVotes[n] \/ Voted(v, r)'
         /\ VotersAfter(i, m) \subseteq OwnVoters(m.newView)'
<1>1. m.newView \in Views /\ m.replica \in Nodes
  BY MessageFields DEF AcceptsViewChange
<1>2. viewChangeVotes \in [Nodes -> SUBSET (Views \X Nodes)]
  BY TypeParts DEF ViewTypeOK
<1>3. /\ viewChangeVotes'[i] = viewChangeVotes[i]
             \cup {<<m.newView, m.replica>>, <<m.newView, i>>}
      /\ \A n \in Nodes \ {i} : viewChangeVotes'[n] = viewChangeVotes[n]
  BY <1>2 DEF RecordViewChange
<1>4. \A v, r : Voted(v, r) /\ r \in Nodes => Voted(v, r)'
  BY <1>3 DEF Voted
<1>5. Voted(m.newView, i)' /\ Voted(m.newView, m.replica)'
  BY <1>1, <1>3, <1>4 DEF Voted
<1>6. ASSUME NEW r \in VotersAfter(i, m)
      PROVE  r \in OwnVoters(m.newView)'
  <2>1. CASE r \in {m.replica, i}
    BY <1>1, <1>5, <2>1 DEF OwnVoters
  <2>2. CASE r \in Voters(i, m.newView)
    <3>1. r \in Nodes /\ Voted(m.newView, r)
      BY <1>1, <2>2 DEF Voters, VotesInv, CountedVotesRecorded
    <3> QED
      BY <1>4, <3>1 DEF OwnVoters
  <2> QED
    BY <2>1, <2>2 DEF VotersAfter
<1>7. \A n \in Nodes : viewChangeVotes[n] \subseteq viewChangeVotes'[n]
  BY <1>3
<1>8. ASSUME NEW n \in Nodes, NEW v \in Views, NEW r \in Nodes,
             <<v, r>> \in viewChangeVotes'[n]
      PROVE  <<v, r>> \in viewChangeVotes[n] \/ Voted(v, r)'
  BY <1>3, <1>5, <1>8
<1> QED
  BY <1>5, <1>6, <1>7, <1>8

LEMMA JoinVotes ==
  ASSUME TypeOK, TypeOK', VotesInv, inflight # <<>>,
         NEW i \in Nodes, NEW m \in Message, JoinViewChange(i, m),
         Voted(m.newView, m.replica)
  PROVE  VotesInv'
<1>1. AcceptsViewChange(i, m) /\ RecordViewChange(i, m) /\ UNCHANGED view
  BY DEF JoinViewChange
<1>2. \A e \in Envelopes' :
        \/ e \in Envelopes
        \/ e.msg.type = "ViewChange" /\ Voted(e.msg.newView, e.msg.replica)'
  <2> SUFFICES ASSUME NEW e \in Envelopes', e \notin Envelopes
               PROVE  /\ e.msg.type = "ViewChange"
                      /\ Voted(e.msg.newView, e.msg.replica)'
    OBVIOUS
  <2>1. e.msg = ViewChangeMsg(m.newView, i, highestCommittedSeq[i])
    BY JoinViewChangeSends DEF SentBy
  <2>2. /\ e.msg.type = "ViewChange"
        /\ e.msg.newView = m.newView
        /\ e.msg.replica = i
    BY <2>1 DEF ViewChangeMsg
  <2> QED
    BY <1>1, <2>2, RecordedVotes
<1> QED
  BY <1>1, <1>2, RecordedVotes, VotesFrame

\* The votes a new primary counts are those of a quorum.
LEMMA LeadVotes ==
  ASSUME TypeOK, TypeOK', VotesInv, inflight # <<>>,
         NEW i \in Nodes, NEW m \in Message, BecomePrimary(i, m),
         Voted(m.newView, m.replica)
  PROVE  VotesInv'
<1>1. /\ AcceptsViewChange(i, m) /\ RecordViewChange(i, m)
      /\ Cardinality(VotersAfter(i, m)) >= Quorum
      /\ EnterNewView(i, m.newView, highestCommittedSeq[i] + 1)
  BY DEF BecomePrimary, LeadsAfter
<1>2. Cardinality(OwnVoters(m.newView)') >= Quorum
  <2>1. /\ VotersAfter(i, m) \subseteq OwnVoters(m.newView)'
        /\ OwnVoters(m.newView)' \subseteq Nodes
    BY <1>1, RecordedVotes DEF OwnVoters
  <2>2. IsFiniteSet(Nodes)
    BY NodesFinite
  <2>3. /\ Cardinality(VotersAfter(i, m)) <= Cardinality(OwnVoters(m.newView)')
        /\ Cardinality(VotersAfter(i, m)) \in Nat
        /\ Cardinality(OwnVoters(m.newView)') \in Nat
    BY <2>1, <2>2, FS_Subset, FS_CardinalityType
  <2> QED
    BY <1>1, <2>3, QuorumIsNat
<1>3. \A e \in Envelopes' :
        \/ e \in Envelopes
        \/ e.msg.type = "ViewChange" /\ Voted(e.msg.newView, e.msg.replica)'
        \/ /\ e.msg.type = "NewView"
           /\ Cardinality(OwnVoters(e.msg.view)') >= Quorum
  <2> SUFFICES ASSUME NEW e \in Envelopes', e \notin Envelopes
               PROVE  \/ /\ e.msg.type = "ViewChange"
                         /\ Voted(e.msg.newView, e.msg.replica)'
                      \/ /\ e.msg.type = "NewView"
                         /\ Cardinality(OwnVoters(e.msg.view)') >= Quorum
    OBVIOUS
  <2>1. \/ e.msg = ViewChangeMsg(m.newView, i, highestCommittedSeq[i])
        \/ e.msg = NewViewMsg(m.newView, highestCommittedSeq[i] + 1)
    BY BecomePrimarySends DEF SentBy
  <2>2. CASE e.msg = ViewChangeMsg(m.newView, i, highestCommittedSeq[i])
    <3>1. /\ e.msg.type = "ViewChange"
          /\ e.msg.newView = m.newView
          /\ e.msg.replica = i
      BY <2>2 DEF ViewChangeMsg
    <3> QED
      BY <1>1, <3>1, RecordedVotes
  <2>3. CASE e.msg = NewViewMsg(m.newView, highestCommittedSeq[i] + 1)
    <3>1. e.msg.type = "NewView" /\ e.msg.view = m.newView
      BY <2>3 DEF NewViewMsg
    <3> QED
      BY <1>2, <3>1
  <2> QED
    BY <2>1, <2>2, <2>3
<1>4. \A n \in Nodes, w \in Views :
        view'[n] = w /\ view[n] # w => Cardinality(OwnVoters(w)') >= Quorum
  <2>1. \A n \in Nodes, w \in Views :
          view'[n] = w /\ view[n] # w => w = m.newView
    BY <1>1, TypeParts DEF EnterNewView, ViewTypeOK
  <2> QED
    BY <1>2, <2>1
<1> QED
  BY <1>1, <1>3, <1>4, RecordedVotes, VotesFrame

LEMMA FollowVotes ==
  ASSUME TypeOK, TypeOK', VotesInv, inflight # <<>>,
         NEW i \in Nodes, NEW m \in Message, HandleNewView(i, m),
         Cardinality(OwnVoters(m.view)) >= Quorum
  PROVE  VotesInv'
<1>1. /\ UNCHANGED viewChangeVotes
      /\ \A n \in Nodes, w \in Views :
           view'[n] = w /\ view[n] # w => w = m.view
  BY TypeParts DEF HandleNewView, EnterNewView, ViewTypeOK
<1>2. Cardinality(OwnVoters(m.view)') >= Quorum
  BY <1>1 DEF OwnVoters, Voted
<1>3. Envelopes' \subseteq Envelopes
  BY SilentSends DEF HandleNewView
<1> QED
  BY <1>1, <1>2, <1>3, VotesFrame

\* A step that touches neither views nor votes and sends no message of the
\* view change.
LEMMA VotesUntouched ==
  ASSUME TypeOK, TypeOK', VotesInv, UNCHANGED <<view, viewChangeVotes>>,
         \A e \in Envelopes' :
           e \in Envelopes \/ e.msg.type \notin {"ViewChange", "NewView"}
  PROVE  VotesInv'
  BY VotesFrame

LEMMA DeliverVotes ==
  ASSUME TypeOK, TypeOK', VotesInv, DeliverMessage
  PROVE  VotesInv'
<1> DEFINE e == Head(inflight)
           i == e.to
           m == Tampered(e)
<1>1. Deliverable /\ HandleMessage(i, m)
  BY DEF DeliverMessage
<1>2. inflight # <<>> /\ e \in EnvelopeType /\ i \in Nodes /\ m \in Message
  BY <1>1, DeliveredType, TypeParts
<1>3. e \in Envelopes
  BY <1>2, HeadTailRange, TypeParts DEF NetTypeOK, Envelopes
<1>4. m.type \in {"ViewChange", "NewView"} => m = e.msg
  BY <1>2, TamperedViewChange
<1> HIDE DEF e, i, m
<1>5. m.type = "ViewChange" => Voted(m.newView, m.replica)
  BY <1>3, <1>4 DEF VotesInv, SentVotesRecorded
<1>6. m.type = "NewView" => Cardinality(OwnVoters(m.view)) >= Quorum
  BY <1>3, <1>4 DEF VotesInv, AnnouncedViewsVoted
<1>7. CASE HandlePrePrepare(i, m)
  <2>1. \A x \in Envelopes' : x \in Envelopes \/ x.msg.type = "Prepare"
    <3> SUFFICES ASSUME NEW x \in Envelopes', x \notin Envelopes
                 PROVE  x.msg.type = "Prepare"
      OBVIOUS
    <3>1. x.msg = PrepareMsg(m.view, m.sequence, m.digest, i)
      BY <1>2, <1>7, PrePrepareSends DEF SentBy
    <3> QED
      BY <3>1, MessageKinds
  <2> QED
    BY <1>7, <2>1, VotesUntouched DEF HandlePrePrepare, viewVars
<1>8. CASE BecomePrepared(i, m)
  <2>1. \A x \in Envelopes' : x \in Envelopes \/ x.msg.type = "Commit"
    <3> SUFFICES ASSUME NEW x \in Envelopes', x \notin Envelopes
                 PROVE  x.msg.type = "Commit"
      OBVIOUS
    <3>1. x.msg = CommitMsg(m.view, m.sequence, m.digest, i)
      BY <1>2, <1>8, PreparedSends DEF SentBy
    <3> QED
      BY <3>1, MessageKinds
  <2> QED
    BY <1>8, <2>1, VotesUntouched DEF BecomePrepared, viewVars
<1>9. CASE \/ RecordPrepare(i, m) \/ RecordCommit(i, m)
           \/ BecomeCommitted(i, m) \/ Discard(i, m)
  <2>1. Consume(<<>>) /\ UNCHANGED <<view, viewChangeVotes>>
    BY <1>9 DEF RecordPrepare, RecordCommit, BecomeCommitted, Discard,
                viewVars, nodeVars
  <2> QED
    BY <1>2, <2>1, SilentSends, VotesUntouched
<1>10. CASE JoinViewChange(i, m)
  BY <1>2, <1>5, <1>10, JoinVotes DEF JoinViewChange, AcceptsViewChange
<1>11. CASE BecomePrimary(i, m)
  BY <1>2, <1>5, <1>11, LeadVotes DEF BecomePrimary, AcceptsViewChange
<1>12. CASE HandleNewView(i, m)
  BY <1>2, <1>6, <1>12, FollowVotes DEF HandleNewView, AcceptsNewView
<1> QED
  BY <1>1, <1>7, <1>8, <1>9, <1>10, <1>11, <1>12 DEF HandleMessage

LEMMA TickVotes ==
  ASSUME TypeInv, TypeOK', VotesInv, Tick
  PROVE  VotesInv'
<1>1. PICK i \in Nodes : TickQuiet(i) \/ TickCountdown(i) \/ TickTimeout(i)
  BY DEF Tick
<1>2. TypeOK /\ viewChangeVotes \in [Nodes -> SUBSET (Views \X Nodes)]
  BY TypeParts DEF TypeInv, ViewTypeOK
<1>3. CASE TickTimeout(i)
  <2> DEFINE v == view[i] + 1
             vote == ViewChangeMsg(v, i, highestCommittedSeq[i])
  <2>1. /\ viewChangeVotes' =
             [viewChangeVotes EXCEPT ![i] = viewChangeVotes[i] \cup {<<v, i>>}]
        /\ UNCHANGED view
    BY <1>3 DEF TickTimeout
  <2>2. PICK w : w = v
    OBVIOUS
  <2>3. /\ viewChangeVotes'[i] = viewChangeVotes[i] \cup {<<w, i>>}
        /\ \A n \in Nodes \ {i} : viewChangeVotes'[n] = viewChangeVotes[n]
    BY <1>2, <2>1, <2>2
  <2>4. Voted(w, i)'
    BY <2>3 DEF Voted
  <2>5. \A n \in Nodes : viewChangeVotes[n] \subseteq viewChangeVotes'[n]
    BY <2>3
  <2>6. ASSUME NEW n \in Nodes, NEW u \in Views, NEW r \in Nodes,
               <<u, r>> \in viewChangeVotes'[n]
        PROVE  <<u, r>> \in viewChangeVotes[n] \/ Voted(u, r)'
    BY <2>3, <2>4, <2>6
  <2>7. ASSUME NEW e \in Envelopes', e \notin Envelopes
        PROVE  e.msg.type = "ViewChange" /\ Voted(e.msg.newView, e.msg.replica)'
    <3>1. e.msg = ViewChangeMsg(w, i, highestCommittedSeq[i])
      BY <1>1, <2>2, <2>7, TickSends DEF SentBy
    <3>2. e.msg.type = "ViewChange" /\ e.msg.newView = w /\ e.msg.replica = i
      BY <3>1 DEF ViewChangeMsg
    <3> QED
      BY <2>4, <3>2
  <2> QED
    BY <1>2, <2>1, <2>5, <2>6, <2>7, VotesFrame
<1>4. CASE ~TickTimeout(i)
  <2>1. UNCHANGED <<view, viewChangeVotes>>
    BY <1>1, <1>4 DEF TickQuiet, TickCountdown, nodeVars, viewVars
  <2>2. Envelopes' \subseteq Envelopes
    BY <1>1, <1>4, TickSends
  <2> QED
    BY <1>2, <2>1, <2>2, VotesUntouched
<1> QED
  BY <1>3, <1>4

LEMMA InitVotes == Init => VotesInv
<1> SUFFICES ASSUME Init PROVE VotesInv
  OBVIOUS
<1>1. Envelopes = {}
  BY EmptyRange DEF Init, ClusterInit, Envelopes
<1>2. \A n \in Nodes : viewChangeVotes[n] = {} /\ ~(view[n] > 0)
  BY DEF Init
<1> QED
  BY <1>1, <1>2
     DEF VotesInv, SentVotesRecorded, CountedVotesRecorded,
         AnnouncedViewsVoted, NewViewQuorum

LEMMA VotesStep == TypeInv /\ TypeOK' /\ VotesInv /\ [Next]_vars => VotesInv'
<1> SUFFICES ASSUME TypeOK, TypeOK', TypeInv, VotesInv, [Next]_vars
             PROVE  VotesInv'
  BY DEF TypeInv
<1>1. ASSUME NEW p \in Payloads, ProposeAccepted(p)
      PROVE  VotesInv'
  <2>1. \A e \in Envelopes' :
          e \in Envelopes \/ e.msg.type \in {"PrePrepare", "Prepare"}
    <3> SUFFICES ASSUME NEW e \in Envelopes', e \notin Envelopes
                 PROVE  e.msg.type \in {"PrePrepare", "Prepare"}
      OBVIOUS
    <3>1. \E j, w, t : \/ e.msg = PrePrepareMsg(w, t, <<p, 0>>)
                       \/ e.msg = PrepareMsg(w, t, DigestOf(<<p, 0>>), j)
      BY <1>1, ProposeSends DEF SentBy
    <3> QED
      BY <3>1, MessageKinds
  <2>2. UNCHANGED <<view, viewChangeVotes>>
    BY <1>1 DEF ProposeAccepted
  <2> QED
    BY <2>1, <2>2, VotesUntouched
<1>2. CASE DeliverMessage
  BY <1>2, DeliverVotes
<1>3. CASE Tick
  BY <1>3, TickVotes
<1>4. CASE \/ BeginStep \/ LoseMessage \/ ChangeFaults \/ UNCHANGED vars
           \/ \E p \in Payloads : ProposeRejected(p)
  BY <1>4, ClusterSends, VotesUntouched DEF nodeVars
<1> QED
  BY <1>1, <1>2, <1>3, <1>4 DEF Next

\* A node enters a view only after a quorum of nodes voted for it themselves,
\* whatever is lost, repeated or tampered with.
THEOREM ViewsNeedQuorum == Spec => []NewViewQuorum
<1>1. TypeInv => TypeOK
  BY DEF TypeInv
<1>2. VotesInv => NewViewQuorum
  BY DEF VotesInv
<1> QED
  BY <1>1, <1>2, InitType, TypeStep, InitVotes, VotesStep, PTL DEF Spec
=============================================================================
