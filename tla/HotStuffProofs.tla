--------------------------- MODULE HotStuffProofs ---------------------------
(***************************************************************************)
(* Proofs about module HotStuff, for every number of nodes, every set of   *)
(* fault configurations and every value of the bounds: types, payloads and *)
(* the quorums that views are entered with.                                *)
(***************************************************************************)
EXTENDS HotStuff, SequenceTheorems, FiniteSetTheorems, TLAPS

-----------------------------------------------------------------------------
(* Lemmas about the operators *)

\* The leader of a view is a node.
LEMMA LeaderIsNode == \A v \in Nat : Leader(v) \in Nodes
  BY SizeAssumption, SMT DEF Leader, Nodes

\* A peer of a node is another node.
LEMMA PeerIsOther ==
  \A i \in Nodes : \A k \in 1 .. N - 1 : Peer(i, k) \in Nodes \ {i}
  BY SizeAssumption, SMT DEF Peer, Nodes

\* There are finitely many nodes.
LEMMA NodesFinite == IsFiniteSet(Nodes)
<1>1. 0 \in Int /\ N - 1 \in Int
  BY SizeAssumption
<1>2. IsFiniteSet(0 .. N - 1)
  BY <1>1, FS_Interval
<1> QED
  BY <1>2 DEF Nodes

\* A broadcast, or a message to one node, is a sequence of envelopes.
LEMMA SendType ==
  ASSUME NEW i \in Nodes, NEW m \in Message
  PROVE  /\ Broadcast(i, m) \in Seq(EnvelopeType)
         /\ \A j \in Nodes : To(i, j, m) \in Seq(EnvelopeType)
<1>1. \A j \in Nodes : Envelope(i, j, m) \in EnvelopeType
  BY DEF Envelope, EnvelopeType
<1>2. N - 1 \in Nat
  BY SizeAssumption
<1>3. Broadcast(i, m) \in [1 .. N - 1 -> EnvelopeType]
  BY <1>1, PeerIsOther DEF Broadcast
<1>4. ASSUME NEW j \in Nodes
      PROVE  To(i, j, m) \in Seq(EnvelopeType)
  BY <1>1 DEF To
<1> QED
  BY <1>2, <1>3, <1>4, SeqDef

\* Tampering with a message yields a message.
LEMMA TamperedType ==
  ASSUME NEW e \in EnvelopeType, faults \in FaultConfig
  PROVE  Tampered(e) \in Message
<1>1. ASSUME NEW m \in Message
      PROVE  Equivocated(m, e.to) \in Message
  <2>1. CASE m.type = "Propose"
    <3>1. /\ m \in [type : {"Propose"}, view : Views, sequence : Seqs,
                    digest : Digest, payload : Payload]
          /\ m.payload \in Payload
      BY <2>1 DEF Message
    <3>2. Extended(m.payload) \in Payload
      BY <3>1 DEF Extended, Payload
    <3>3. DigestOf(Extended(m.payload)) \in Digest
      BY <3>2 DEF DigestOf, Digest
    <3> QED
      BY <3>1, <3>2, <3>3 DEF Equivocated, Message
  <2>2. CASE m.type # "Propose"
    BY <2>2 DEF Equivocated, Message
  <2> QED
    BY <2>1, <2>2
<1>2. ASSUME NEW m \in Message
      PROVE  Corrupted(m) \in Message
  <2>1. CASE m.type = "Propose"
    <3>1. /\ m \in [type : {"Propose"}, view : Views, sequence : Seqs,
                    digest : Digest, payload : Payload]
          /\ FlipBits(m.digest) \in Digest
      BY <2>1 DEF Message, FlipBits, Digest
    <3> QED
      BY <2>1, <3>1 DEF Corrupted, Message
  <2>2. CASE m.type = "Vote"
    <3>1. /\ m \in [type : {"Vote"}, view : Views, sequence : Seqs,
                    digest : Digest, phase : PhaseTag, voter : Nodes]
          /\ FlipBits(m.digest) \in Digest
      BY <2>2 DEF Message, FlipBits, Digest
    <3> QED
      BY <2>2, <3>1 DEF Corrupted, Message
  <2>3. CASE m.type = "QuorumCertificate"
    <3>1. /\ m \in [type : {"QuorumCertificate"}, view : Views,
                    sequence : Seqs, digest : Digest, phase : PhaseTag,
                    voteCount : Nat]
          /\ FlipBits(m.digest) \in Digest
      BY <2>3 DEF Message, FlipBits, Digest
    <3> QED
      BY <2>3, <3>1 DEF Corrupted, Message
  <2>4. CASE m.type \notin {"Propose", "Vote", "QuorumCertificate"}
    BY <2>4 DEF Corrupted, Message
  <2> QED
    BY <2>1, <2>2, <2>3, <2>4
<1>3. e.msg \in Message
  BY DEF EnvelopeType
<1> QED
  BY <1>1, <1>2, <1>3 DEF Tampered

\* No fault is a fault configuration.
LEMMA FaultsType ==
  ASSUME faults \in FaultConfigs \cup {NoFaults}
  PROVE  faults \in FaultConfig
<1>1. NoFaults \in FaultConfig
  BY DEF NoFaults, FaultConfig, Honest, Behaviour
<1> QED
  BY <1>1, FaultAssumption

\* The phase after that of a vote, and the slots a node starts from.
LEMMA PhaseTypes ==
  /\ \A t \in PhaseTag : NextPhase(t) \in Phase /\ NextPhase(t) # "Idle"
  /\ \A t \in PhaseTag \ {"Commit"} : NextPhase(t) \in PhaseTag
  BY DEF PhaseTag, Phase, NextPhase

LEMMA SlotTypes ==
  /\ NoSlot \in SlotState
  /\ \A v \in Views : \A voted \in SUBSET Nodes :
       PrepareSlot(v, voted) \in SlotState
<1>1. NoSlot \in SlotState
  BY HotStuffAssumption DEF NoSlot, SlotState, Phase, Views
<1>2. ASSUME NEW v \in Views, NEW voted \in SUBSET Nodes
      PROVE  PrepareSlot(v, voted) \in SlotState
  BY DEF PrepareSlot, SlotState, Phase, PhaseTag
<1> QED
  BY <1>1, <1>2

\* The messages nodes send are messages.
LEMMA MessageTypes ==
  /\ \A v \in Views, s \in Seqs, p \in Payload :
       ProposeMsg(v, s, p) \in Message
  /\ \A v \in Views, s \in Seqs, d \in Digest, t \in PhaseTag, i \in Nodes :
       VoteMsg(v, s, d, t, i) \in Message
  /\ \A v \in Views, s \in Seqs, d \in Digest, t \in PhaseTag, k \in Nat :
       QCMsg(v, s, d, t, k) \in Message
  /\ \A v \in Views, i \in Nodes : NewViewMsg(v, i) \in Message
<1>1. ASSUME NEW v \in Views, NEW s \in Seqs, NEW p \in Payload
      PROVE  ProposeMsg(v, s, p) \in Message
  <2>1. DigestOf(p) \in Digest
    BY DEF DigestOf, Digest
  <2> QED
    BY <2>1 DEF ProposeMsg, Message
<1>2. ASSUME NEW v \in Views, NEW s \in Seqs, NEW d \in Digest,
             NEW t \in PhaseTag
      PROVE  /\ \A i \in Nodes : VoteMsg(v, s, d, t, i) \in Message
             /\ \A k \in Nat : QCMsg(v, s, d, t, k) \in Message
  BY DEF VoteMsg, QCMsg, Message
<1>3. \A v \in Views, i \in Nodes : NewViewMsg(v, i) \in Message
  BY DEF NewViewMsg, Message
<1> QED
  BY <1>1, <1>2, <1>3

\* What the type of a message says of its fields.
LEMMA MessageFields ==
  ASSUME NEW m \in Message
  PROVE  /\ m.type = "Propose" =>
              /\ m.view \in Views
              /\ m.sequence \in Seqs
              /\ m.digest \in Digest
              /\ m.payload \in Payload
         /\ m.type = "Vote" =>
              /\ m.view \in Views
              /\ m.sequence \in Seqs
              /\ m.digest \in Digest
              /\ m.phase \in PhaseTag
              /\ m.voter \in Nodes
         /\ m.type = "QuorumCertificate" =>
              /\ m.view \in Views
              /\ m.sequence \in Seqs
              /\ m.digest \in Digest
              /\ m.phase \in PhaseTag
         /\ m.type = "NewView" => m.newView \in Views /\ m.replica \in Nodes
  BY DEF Message

-----------------------------------------------------------------------------
(***************************************************************************)
(* Type correctness.  TypeOK is not inductive: a tick that has started     *)
(* must not carry a node beyond MaxView, and the guard TickAllowed is only *)
(* evaluated when it starts.  TickBounded says what remains of it for the  *)
(* nodes the running tick has not reached.                                 *)
(***************************************************************************)
NetTypeOK ==
    /\ pending \in Seq(EnvelopeType)
    /\ inflight \in Seq(EnvelopeType)
    /\ ticking \in Nodes
    /\ faults \in FaultConfigs \cup {NoFaults}
    /\ drops \in 0 .. MaxDrops
    /\ faultChanges \in 0 .. MaxFaultChanges

LogTypeOK ==
    /\ slots \in [Nodes -> [Seqs -> SlotState]]
    /\ pendingPayloads \in [Nodes -> [Seqs -> Payload \cup {None}]]
    /\ committed \in [Nodes -> Seq(CommittedEntry)]

ViewTypeOK ==
    /\ view \in [Nodes -> Views]
    /\ nextSequence \in [Nodes -> 1 .. MaxSeq + 1]
    /\ highestQC \in [Nodes -> QC]
    /\ viewChangeTimeout \in [Nodes -> 0 .. VIEW_CHANGE_TIMEOUT]
    /\ newViewMessages \in [Nodes -> SUBSET (Views \X Nodes)]

OutcomeOK == outcome \in [Payloads -> {"unsent", "accepted", "rejected"}]

TickBounded ==
    ticking # 0 =>
        /\ inflight = <<>>
        /\ \A i \in Nodes :
             i >= ticking /\ Monitors(i) /\ viewChangeTimeout[i] = 0
                => view[i] < MaxView

TypeInv == TypeOK /\ TickBounded

LEMMA TypeParts ==
  TypeOK <=> NetTypeOK /\ LogTypeOK /\ ViewTypeOK /\ OutcomeOK
  BY DEF TypeOK, NetTypeOK, LogTypeOK, ViewTypeOK, OutcomeOK

\* A delivery keeps the network well-typed when the handler sends envelopes.
LEMMA ConsumeType ==
  ASSUME NetTypeOK, inflight # <<>>,
         NEW out \in Seq(EnvelopeType), Consume(out)
  PROVE  NetTypeOK'
<1>1. Tail(inflight) \in Seq(EnvelopeType)
  BY HeadTailProperties DEF NetTypeOK
<1>2. pending \o out \in Seq(EnvelopeType)
  BY ConcatProperties DEF NetTypeOK
<1> QED
  BY <1>1, <1>2 DEF NetTypeOK, Consume, Enqueue

\* So does a turn of a tick.
LEMMA TickTurnType ==
  ASSUME NetTypeOK, NEW i \in Nodes,
         NEW out \in Seq(EnvelopeType), TickTurn(i, out)
  PROVE  NetTypeOK'
<1>1. pending \o out \in Seq(EnvelopeType)
  BY ConcatProperties DEF NetTypeOK
<1>2. (ticking + 1) % N \in Nodes
  BY SizeAssumption DEF NetTypeOK, Nodes
<1> QED
  BY <1>1, <1>2 DEF NetTypeOK, TickTurn, Enqueue

\* What is delivered reaches a node, as a message.
LEMMA DeliveredType ==
  ASSUME NetTypeOK, Deliverable
  PROVE  /\ inflight # <<>>
         /\ Head(inflight) \in EnvelopeType
         /\ Head(inflight).to \in Nodes
         /\ Tampered(Head(inflight)) \in Message
<1>1. inflight # <<>> /\ Head(inflight) \in EnvelopeType
  BY HeadTailProperties DEF NetTypeOK, Deliverable
<1> QED
  BY <1>1, TamperedType, FaultsType DEF NetTypeOK, EnvelopeType

LEMMA InitType == Init => TypeInv
<1> SUFFICES ASSUME Init PROVE TypeInv
  OBVIOUS
<1>1. NetTypeOK
  BY SizeAssumption, FaultAssumption, EmptySeq
     DEF Init, ClusterInit, NetTypeOK, Nodes
<1>2. LogTypeOK
  BY SlotTypes, EmptySeq DEF Init, LogTypeOK
<1>3. ViewTypeOK /\ OutcomeOK
  BY HotStuffAssumption DEF Init, ViewTypeOK, OutcomeOK, Views, QC, PhaseTag
<1>4. TickBounded
  BY DEF Init, ClusterInit, TickBounded
<1> QED
  BY <1>1, <1>2, <1>3, <1>4, TypeParts DEF TypeInv

\* The client's proposal.
LEMMA ProposeType ==
  ASSUME TypeOK, NEW p \in Payloads, ProposeAccepted(p)
  PROVE  TypeOK'
<1>1. PICK i \in Asked : /\ Accepts(ProposalTarget(i))
                         /\ Assign(ProposalTarget(i), <<p, 0>>)
  BY DEF ProposeAccepted
<1> DEFINE j == ProposalTarget(i)
           q == <<p, 0>>
           s == nextSequence[j]
<1>2. view \in [Nodes -> Views] /\ Views \subseteq Nat
  BY DEF TypeOK, Views
<1>3. j \in Nodes
  BY <1>1, <1>2, LeaderIsNode DEF ProposalTarget, Asked
<1>4. q \in Payload /\ view[j] \in Views /\ s \in Seqs /\ s + 1 \in 1 .. MaxSeq + 1
  <2>1. q \in Payload /\ view[j] \in Views
    BY <1>2, <1>3 DEF Payload
  <2>2. s \in 1 .. MaxSeq + 1 /\ s <= MaxSeq
    BY <1>1, <1>3, TypeParts DEF ViewTypeOK, Assign
  <2> HIDE DEF s
  <2> QED
    BY <2>1, <2>2, HotStuffAssumption DEF Seqs
<1>5. Broadcast(j, ProposeMsg(view[j], s, q)) \in Seq(EnvelopeType)
  BY <1>3, <1>4, MessageTypes, SendType
<1>6. pending' \in Seq(EnvelopeType)
  BY <1>1, <1>5, ConcatProperties DEF Assign, Enqueue, TypeOK
<1>7. NetTypeOK'
  BY <1>6 DEF ProposeAccepted, TypeOK, NetTypeOK
<1>8. LogTypeOK'
  <2>1. slots' = [slots EXCEPT ![j][s] = PrepareSlot(view[j], {j})]
    BY <1>1 DEF Assign
  <2>2. pendingPayloads' = [pendingPayloads EXCEPT ![j][s] = q]
    BY <1>1 DEF Assign
  <2>3. PrepareSlot(view[j], {j}) \in SlotState
    BY <1>3, <1>4, SlotTypes
  <2> HIDE DEF j, q, s
  <2>4. slots' \in [Nodes -> [Seqs -> SlotState]]
    BY <2>1, <2>3, <1>3, <1>4 DEF TypeOK
  <2>5. pendingPayloads' \in [Nodes -> [Seqs -> Payload \cup {None}]]
    BY <2>2, <1>3, <1>4 DEF TypeOK
  <2> QED
    BY <2>4, <2>5 DEF LogTypeOK, TypeOK, ProposeAccepted
<1>9. ViewTypeOK' /\ OutcomeOK'
  <2>1. nextSequence' = [nextSequence EXCEPT ![j] = s + 1]
    BY <1>1 DEF Assign
  <2> HIDE DEF j, q, s
  <2>3. nextSequence' \in [Nodes -> 1 .. MaxSeq + 1]
    BY <1>4, <2>1 DEF TypeOK
  <2>4. OutcomeOK'
    BY DEF ProposeAccepted, TypeOK, OutcomeOK
  <2> QED
    BY <2>3, <2>4 DEF ProposeAccepted, ViewTypeOK, TypeOK
<1> QED
  BY <1>7, <1>8, <1>9, TypeParts, PTL

\* What entering a view leaves to a node.
LEMMA KeptTypes ==
  ASSUME TypeOK, NEW i \in Nodes
  PROVE  /\ KeptSlots(i) \in [Seqs -> SlotState]
         /\ NoPayloads \in [Seqs -> Payload \cup {None}]
<1>1. slots[i] \in [Seqs -> SlotState]
  BY DEF TypeOK
<1> QED
  BY <1>1, SlotTypes DEF KeptSlots, NoPayloads

LEMMA HandleProposeType ==
  ASSUME TypeOK, inflight # <<>>, NEW i \in Nodes, NEW m \in Message,
         HandlePropose(i, m)
  PROVE  TypeOK'
<1> DEFINE s == m.sequence
           leader == Leader(m.view)
           out == To(i, leader, VoteMsg(m.view, s, m.digest, "Prepare", i))
           keptSlots == IF m.view > view[i] THEN KeptSlots(i) ELSE slots[i]
           keptPayloads == IF m.view > view[i] THEN NoPayloads
                           ELSE pendingPayloads[i]
           newSlots == [keptSlots EXCEPT ![s] = PrepareSlot(m.view, {})]
           newPayloads == [keptPayloads EXCEPT ![s] = m.payload]
<1>1. /\ m.view \in Views
      /\ s \in Seqs
      /\ m.digest \in Digest
      /\ m.payload \in Payload
  BY MessageFields DEF HandlePropose, AcceptsPropose
<1>2. out \in Seq(EnvelopeType)
  <2>1. leader \in Nodes
    BY <1>1, LeaderIsNode DEF Views
  <2> QED
    BY <1>1, <2>1, MessageTypes, SendType DEF PhaseTag
<1>3. NetTypeOK'
  BY <1>2, ConsumeType, TypeParts DEF HandlePropose
<1>4. newSlots \in [Seqs -> SlotState]
  <2>1. keptSlots \in [Seqs -> SlotState]
    BY KeptTypes DEF TypeOK
  <2>2. PrepareSlot(m.view, {}) \in SlotState
    BY <1>1, SlotTypes
  <2> HIDE DEF keptSlots
  <2> QED
    BY <2>1, <2>2
<1>5. newPayloads \in [Seqs -> Payload \cup {None}]
  <2>1. keptPayloads \in [Seqs -> Payload \cup {None}]
    BY KeptTypes DEF TypeOK
  <2> HIDE DEF keptPayloads
  <2> QED
    BY <1>1, <2>1
<1>6. /\ slots' = [slots EXCEPT ![i] = newSlots]
      /\ pendingPayloads' = [pendingPayloads EXCEPT ![i] = newPayloads]
      /\ view' = [view EXCEPT ![i] = m.view]
      /\ viewChangeTimeout' =
           [viewChangeTimeout EXCEPT ![i] = VIEW_CHANGE_TIMEOUT]
      /\ UNCHANGED <<nextSequence, newViewMessages, committed, highestQC,
                     outcome>>
  BY DEF HandlePropose
<1> HIDE DEF newSlots, newPayloads
<1>7. LogTypeOK'
  <2>1. slots' \in [Nodes -> [Seqs -> SlotState]]
    BY <1>4, <1>6 DEF TypeOK
  <2>2. pendingPayloads' \in [Nodes -> [Seqs -> Payload \cup {None}]]
    BY <1>5, <1>6 DEF TypeOK
  <2> QED
    BY <1>6, <2>1, <2>2 DEF TypeOK, LogTypeOK
<1>8. ViewTypeOK' /\ OutcomeOK'
  BY <1>1, <1>6, HotStuffAssumption, TypeParts DEF ViewTypeOK, OutcomeOK
<1> QED
  BY <1>3, <1>7, <1>8, TypeParts, PTL

\* The leader's slot with one more vote, or certified.
LEMMA VoteTypes ==
  ASSUME TypeOK, NEW i \in Nodes, NEW m \in Message, AcceptsVote(i, m)
  PROVE  /\ m.view \in Views
         /\ m.sequence \in Seqs
         /\ m.digest \in Digest
         /\ m.phase \in PhaseTag
         /\ slots[i][m.sequence] \in SlotState
         /\ VotersAfter(i, m) \in SUBSET Nodes
         /\ [slots[i][m.sequence] EXCEPT !.voters[m.phase] = VotersAfter(i, m)]
              \in SlotState
         /\ Certified(i, m) \in SlotState
<1> DEFINE slot == slots[i][m.sequence]
<1>1. /\ m.view \in Views
      /\ m.sequence \in Seqs
      /\ m.digest \in Digest
      /\ m.phase \in PhaseTag
      /\ m.voter \in Nodes
  BY MessageFields DEF AcceptsVote
<1>2. slot \in SlotState
  BY <1>1 DEF TypeOK
<1>3. slot.voters \in [PhaseTag -> SUBSET Nodes]
  BY <1>2 DEF SlotState
<1>4. VotersAfter(i, m) \in SUBSET Nodes
  BY <1>1, <1>3 DEF VotersAfter
<1>5. [slot EXCEPT !.voters[m.phase] = VotersAfter(i, m)] \in SlotState
  <2>1. [slot.voters EXCEPT ![m.phase] = VotersAfter(i, m)]
          \in [PhaseTag -> SUBSET Nodes]
    BY <1>3, <1>4
  <2> QED
    BY <1>2, <2>1 DEF SlotState
<1>6. Certified(i, m) \in SlotState
  <2> DEFINE next == NextPhase(m.phase)
             voters == [t \in PhaseTag |->
                          CASE t = m.phase -> VotersAfter(i, m)
                            [] t = next -> slot.voters[t] \cup {i}
                            [] OTHER -> slot.voters[t]]
  <2>1. voters \in [PhaseTag -> SUBSET Nodes]
    BY <1>3, <1>4
  <2>2. next \in Phase
    BY <1>1, PhaseTypes
  <2>3. Certified(i, m) = [slot EXCEPT !.phase = next, !.voters = voters]
    BY DEF Certified
  <2> HIDE DEF next, voters
  <2> QED
    BY <1>2, <2>1, <2>2, <2>3 DEF SlotState
<1> QED
  BY <1>1, <1>2, <1>4, <1>5, <1>6

\* Deciding a slot logs its payload, if it is there, and drops it.
LEMMA DecideType ==
  ASSUME TypeOK, NEW i \in Nodes, NEW s \in Seqs, Decide(i, s)
  PROVE  /\ pendingPayloads' \in [Nodes -> [Seqs -> Payload \cup {None}]]
         /\ committed' \in [Nodes -> Seq(CommittedEntry)]
<1> DEFINE p == pendingPayloads[i][s]
           e == [sequence |-> s, payload |-> p, view |-> view[i]]
<1>1. /\ pendingPayloads \in [Nodes -> [Seqs -> Payload \cup {None}]]
      /\ committed \in [Nodes -> Seq(CommittedEntry)]
      /\ view \in [Nodes -> Views]
  BY DEF TypeOK
<1>2. pendingPayloads' \in [Nodes -> [Seqs -> Payload \cup {None}]]
  BY <1>1 DEF Decide
<1>3. committed' \in [Nodes -> Seq(CommittedEntry)]
  <2>1. CASE p = None
    BY <1>1, <2>1 DEF Decide
  <2>2. CASE p # None
    <3>1. e \in CommittedEntry
      BY <1>1, <2>2 DEF CommittedEntry
    <3>2. Append(committed[i], e) \in Seq(CommittedEntry)
      BY <1>1, <3>1, AppendProperties
    <3>3. committed' = [committed EXCEPT ![i] = Append(committed[i], e)]
      BY <2>2 DEF Decide
    <3> HIDE DEF e
    <3> QED
      BY <1>1, <3>2, <3>3
  <2> QED
    BY <2>1, <2>2
<1> QED
  BY <1>2, <1>3

LEMMA VoteType ==
  ASSUME TypeOK, inflight # <<>>, NEW i \in Nodes, NEW m \in Message,
         RecordVote(i, m) \/ FormQC(i, m)
  PROVE  TypeOK'
<1> DEFINE count == Cardinality(VotersAfter(i, m))
           out == Broadcast(i, QCMsg(m.view, m.sequence, m.digest, m.phase,
                                     count))
<1>1. AcceptsVote(i, m)
  BY DEF RecordVote, FormQC
<1>2. /\ m.view \in Views
      /\ m.sequence \in Seqs
      /\ m.digest \in Digest
      /\ m.phase \in PhaseTag
      /\ VotersAfter(i, m) \in SUBSET Nodes
      /\ [slots[i][m.sequence] EXCEPT !.voters[m.phase] = VotersAfter(i, m)]
           \in SlotState
      /\ Certified(i, m) \in SlotState
  BY <1>1, VoteTypes
<1>3. count \in Nat
  <2>1. IsFiniteSet(Nodes)
    BY NodesFinite
  <2> QED
    BY <1>2, <2>1, FS_Subset, FS_CardinalityType
<1>4. out \in Seq(EnvelopeType) /\ <<>> \in Seq(EnvelopeType)
  BY <1>2, <1>3, MessageTypes, SendType, EmptySeq
<1>5. NetTypeOK'
  BY <1>4, ConsumeType, TypeParts DEF RecordVote, FormQC
<1>6. slots' \in [Nodes -> [Seqs -> SlotState]]
  <2>1. slots \in [Nodes -> [Seqs -> SlotState]]
    BY DEF TypeOK
  <2>2. CASE RecordVote(i, m)
    <3> DEFINE new == [slots[i][m.sequence] EXCEPT
                         !.voters[m.phase] = VotersAfter(i, m)]
    <3>1. slots' = [slots EXCEPT ![i][m.sequence] = new]
      BY <2>2 DEF RecordVote
    <3>2. new \in SlotState
      BY <1>2
    <3> HIDE DEF new
    <3> QED
      BY <1>2, <2>1, <3>1, <3>2
  <2>3. CASE FormQC(i, m)
    BY <1>2, <2>1, <2>3 DEF FormQC
  <2> QED
    BY <2>2, <2>3
<1>7. /\ pendingPayloads' \in [Nodes -> [Seqs -> Payload \cup {None}]]
      /\ committed' \in [Nodes -> Seq(CommittedEntry)]
  <2>1. CASE RecordVote(i, m)
    BY <2>1 DEF RecordVote, TypeOK
  <2>2. CASE FormQC(i, m)
    BY <1>2, <2>2, DecideType DEF FormQC, TypeOK
  <2> QED
    BY <2>1, <2>2
<1>8. ViewTypeOK' /\ OutcomeOK'
  <2>1. highestQC' \in [Nodes -> QC]
    <3>1. [view |-> m.view, phase |-> m.phase] \in QC
      BY <1>2 DEF QC
    <3> QED
      BY <3>1 DEF RecordVote, FormQC, TypeOK
  <2> QED
    BY <2>1, TypeParts
       DEF RecordVote, FormQC, ViewTypeOK, OutcomeOK, viewVars
<1>9. LogTypeOK'
  BY <1>6, <1>7 DEF LogTypeOK
<1> QED
  BY <1>5, <1>8, <1>9, TypeParts, PTL

LEMMA QCType ==
  ASSUME TypeOK, inflight # <<>>, NEW i \in Nodes, NEW m \in Message,
         IgnoreQC(i, m) \/ FollowQC(i, m) \/ DecideByQC(i, m)
  PROVE  TypeOK'
<1> DEFINE s == m.sequence
           next == NextPhase(m.phase)
           leader == Leader(m.view)
           out == To(i, leader, VoteMsg(m.view, s, m.digest, next, i))
<1>1. /\ m.view \in Views
      /\ s \in Seqs
      /\ m.digest \in Digest
      /\ m.phase \in PhaseTag
  BY MessageFields DEF IgnoreQC, FollowQC, DecideByQC, AcceptsQC
<1>2. highestQC' \in [Nodes -> QC]
  <2>1. [view |-> m.view, phase |-> m.phase] \in QC
    BY <1>1 DEF QC
  <2>2. NoteQC(i, m)
    BY DEF IgnoreQC, FollowQC, DecideByQC
  <2> QED
    BY <2>1, <2>2 DEF NoteQC, TypeOK
<1>3. ViewTypeOK' /\ OutcomeOK'
  BY <1>2, TypeParts
     DEF IgnoreQC, FollowQC, DecideByQC, ViewTypeOK, OutcomeOK, viewVars
<1>4. slots[i][s] \in SlotState
  BY <1>1 DEF TypeOK
<1>5. slots \in [Nodes -> [Seqs -> SlotState]]
  BY DEF TypeOK
<1>6. CASE IgnoreQC(i, m)
  <2>1. NetTypeOK' /\ LogTypeOK'
    BY <1>6, EmptySeq, ConsumeType, TypeParts DEF IgnoreQC, LogTypeOK, logVars
  <2> QED
    BY <1>3, <2>1, TypeParts, PTL
<1>7. CASE FollowQC(i, m)
  <2>1. next \in PhaseTag /\ next \in Phase
    BY <1>1, <1>7, PhaseTypes DEF FollowQC
  <2>2. out \in Seq(EnvelopeType)
    <3>1. leader \in Nodes
      BY <1>1, LeaderIsNode DEF Views
    <3> QED
      BY <1>1, <2>1, <3>1, MessageTypes, SendType
  <2>3. NetTypeOK'
    BY <1>7, <2>2, ConsumeType, TypeParts DEF FollowQC
  <2>4. slots' \in [Nodes -> [Seqs -> SlotState]]
    <3> DEFINE new == [slots[i][s] EXCEPT !.phase = next]
    <3>1. new \in SlotState
      BY <1>4, <2>1 DEF SlotState
    <3>2. slots' = [slots EXCEPT ![i][s] = new] \/ slots' = slots
      BY <1>7 DEF FollowQC
    <3> HIDE DEF new, s
    <3> QED
      BY <1>1, <1>5, <3>1, <3>2
  <2>5. LogTypeOK'
    BY <1>7, <2>4 DEF FollowQC, LogTypeOK, TypeOK
  <2> QED
    BY <1>3, <2>3, <2>5, TypeParts, PTL
<1>8. CASE DecideByQC(i, m)
  <2>1. NetTypeOK'
    BY <1>8, EmptySeq, ConsumeType, TypeParts DEF DecideByQC
  <2>2. slots' \in [Nodes -> [Seqs -> SlotState]]
    <3> DEFINE new == [slots[i][s] EXCEPT !.phase = "Decided"]
    <3>1. new \in SlotState
      BY <1>4 DEF SlotState, Phase
    <3>2. slots' = [slots EXCEPT ![i][s] = new]
      BY <1>8 DEF DecideByQC
    <3> HIDE DEF new, s
    <3> QED
      BY <1>1, <1>5, <3>1, <3>2
  <2>3. LogTypeOK'
    BY <1>1, <1>8, <2>2, DecideType DEF DecideByQC, LogTypeOK
  <2> QED
    BY <1>3, <2>1, <2>3, TypeParts, PTL
<1> QED
  BY <1>6, <1>7, <1>8

LEMMA NewViewType ==
  ASSUME TypeOK, inflight # <<>>, NEW i \in Nodes, NEW m \in Message,
         CollectNewView(i, m) \/ BecomeLeader(i, m)
  PROVE  TypeOK'
<1>1. m.newView \in Views /\ m.replica \in Nodes
  BY MessageFields DEF CollectNewView, BecomeLeader, AcceptsNewView
<1>2. NetTypeOK'
  BY EmptySeq, ConsumeType, TypeParts DEF CollectNewView, BecomeLeader
<1>3. newViewMessages' \in [Nodes -> SUBSET (Views \X Nodes)]
  <2>1. newViewMessages[i] \cup {<<m.newView, m.replica>>}
          \in SUBSET (Views \X Nodes)
    BY <1>1 DEF TypeOK
  <2>2. RecordNewView(i, m)
    BY DEF CollectNewView, BecomeLeader
  <2>3. newViewMessages \in [Nodes -> SUBSET (Views \X Nodes)]
    BY DEF TypeOK
  <2> QED
    BY <2>1, <2>2, <2>3 DEF RecordNewView
<1>4. CASE CollectNewView(i, m)
  <2>1. LogTypeOK' /\ ViewTypeOK' /\ OutcomeOK'
    BY <1>3, <1>4, TypeParts
       DEF CollectNewView, LogTypeOK, ViewTypeOK, OutcomeOK, logVars
  <2> QED
    BY <1>2, <2>1, TypeParts, PTL
<1>5. CASE BecomeLeader(i, m)
  <2>1. ViewTypeOK' /\ OutcomeOK'
    BY <1>1, <1>3, <1>5, HotStuffAssumption, TypeParts
       DEF BecomeLeader, ViewTypeOK, OutcomeOK
  <2>2. LogTypeOK'
    BY <1>5, KeptTypes, TypeParts DEF BecomeLeader, LogTypeOK
  <2> QED
    BY <1>2, <2>1, <2>2, TypeParts, PTL
<1> QED
  BY <1>4, <1>5

\* Variables of the nodes left alone keep their types.
LEMMA NodesUnchangedType ==
  ASSUME TypeOK, NetTypeOK', UNCHANGED nodeVars, OutcomeOK'
  PROVE  TypeOK'
<1>1. LogTypeOK' /\ ViewTypeOK'
  BY DEF nodeVars, LogTypeOK, ViewTypeOK, TypeOK
<1> QED
  BY <1>1, TypeParts, PTL

LEMMA DeliverType ==
  ASSUME TypeOK, DeliverMessage
  PROVE  TypeOK'
<1> DEFINE i == Head(inflight).to
           m == Tampered(Head(inflight))
<1>1. Deliverable /\ HandleMessage(i, m)
  BY DEF DeliverMessage
<1>2. inflight # <<>> /\ i \in Nodes /\ m \in Message
  BY <1>1, DeliveredType, TypeParts
<1> HIDE DEF i, m
<1>3. CASE HandlePropose(i, m)
  BY <1>2, <1>3, HandleProposeType
<1>4. CASE RecordVote(i, m) \/ FormQC(i, m)
  BY <1>2, <1>4, VoteType
<1>5. CASE IgnoreQC(i, m) \/ FollowQC(i, m) \/ DecideByQC(i, m)
  BY <1>2, <1>5, QCType
<1>6. CASE CollectNewView(i, m) \/ BecomeLeader(i, m)
  BY <1>2, <1>6, NewViewType
<1>7. CASE Discard(i, m)
  <2>1. NetTypeOK'
    BY <1>2, <1>7, EmptySeq, ConsumeType, TypeParts DEF Discard
  <2>2. OutcomeOK'
    BY <1>7 DEF Discard, OutcomeOK, TypeOK
  <2> QED
    BY <1>7, <2>1, <2>2, NodesUnchangedType DEF Discard
<1> QED
  BY <1>1, <1>3, <1>4, <1>5, <1>6, <1>7 DEF HandleMessage

\* The turn after that of node t belongs to the next node, if there is one.
LEMMA NextTurn ==
  \A t \in Nodes : (t + 1) % N # 0 => (t + 1) % N = t + 1
<1> TAKE t \in Nodes
<1>1. CASE t + 1 < N
  BY <1>1, SizeAssumption DEF Nodes
<1>2. CASE t + 1 = N
  BY <1>2, SizeAssumption DEF Nodes
<1> QED
  BY <1>1, <1>2, SizeAssumption DEF Nodes

\* The node whose turn it is may still time out within MaxView.
LEMMA TickRoom ==
  ASSUME TypeInv, Tick, NEW j \in Nodes, j >= ticking,
         Monitors(j), viewChangeTimeout[j] = 0
  PROVE  view[j] < MaxView
  BY DEF TypeInv, Tick, TickAllowed, TickBounded

LEMMA TickType ==
  ASSUME TypeInv, Tick
  PROVE  TypeInv'
<1>1. PICK i \in Nodes : TickQuiet(i) \/ TickCountdown(i) \/ TickTimeout(i)
  BY DEF Tick
<1> DEFINE v == view[i] + 1
           leader == Leader(v)
           out == IF viewChangeTimeout[i] = 0
                  THEN To(i, leader, NewViewMsg(v, i)) ELSE <<>>
<1>2. TypeOK /\ i = ticking /\ inflight = <<>>
  BY <1>1 DEF TypeInv, TickQuiet, TickCountdown, TickTimeout, TickTurn
<1>3. <<>> \in Seq(EnvelopeType)
  BY EmptySeq
<1>4. TypeOK'
  <2>1. CASE TickQuiet(i)
    <3>1. NetTypeOK'
      BY <1>2, <1>3, <2>1, TickTurnType, TypeParts DEF TickQuiet
    <3>2. OutcomeOK'
      BY <1>2, <2>1 DEF TickQuiet, OutcomeOK, TypeOK
    <3> QED
      BY <1>2, <2>1, <3>1, <3>2, NodesUnchangedType DEF TickQuiet
  <2>2. CASE TickCountdown(i)
    <3>1. NetTypeOK'
      BY <1>2, <1>3, <2>2, TickTurnType, TypeParts DEF TickCountdown
    <3>2. LogTypeOK' /\ OutcomeOK'
      BY <1>2, <2>2, TypeParts
         DEF TickCountdown, LogTypeOK, OutcomeOK, logVars
    <3>3. ViewTypeOK'
      <4>1. \A k \in 0 .. VIEW_CHANGE_TIMEOUT :
              k > 0 => k - 1 \in 0 .. VIEW_CHANGE_TIMEOUT
        BY HotStuffAssumption
      <4> QED
        BY <1>2, <2>2, <4>1, TypeParts
           DEF TickCountdown, ViewTypeOK, viewVars
    <3> QED
      BY <3>1, <3>2, <3>3, TypeParts, PTL
  <2>3. CASE TickTimeout(i)
    <3>1. view[i] \in Views /\ view[i] < MaxView
      BY <1>2, <2>3, TickRoom, SizeAssumption DEF TypeOK, TickTimeout, Nodes
    <3>2. v \in Views
      BY <3>1, HotStuffAssumption DEF Views
    <3>3. To(i, leader, NewViewMsg(v, i)) \in Seq(EnvelopeType)
      <4>1. leader \in Nodes
        BY <3>2, LeaderIsNode DEF Views
      <4> QED
        BY <3>2, <4>1, MessageTypes, SendType
    <3>4. NetTypeOK'
      BY <1>2, <2>3, <3>3, TickTurnType, TypeParts DEF TickTimeout
    <3>5. newViewMessages' \in [Nodes -> SUBSET (Views \X Nodes)]
      <4>1. newViewMessages[i] \cup {<<v, i>>} \in SUBSET (Views \X Nodes)
        BY <1>2, <3>2 DEF TypeOK
      <4> HIDE DEF v
      <4> QED
        BY <1>2, <2>3, <4>1 DEF TickTimeout, TypeOK, v
    <3>6. viewChangeTimeout' \in [Nodes -> 0 .. VIEW_CHANGE_TIMEOUT]
      BY <1>2, <2>3, HotStuffAssumption DEF TickTimeout, TypeOK
    <3>7. LogTypeOK' /\ ViewTypeOK' /\ OutcomeOK'
      BY <1>2, <2>3, <3>5, <3>6
         DEF TickTimeout, LogTypeOK, ViewTypeOK, OutcomeOK, TypeOK, logVars
    <3> QED
      BY <3>4, <3>7, TypeParts, PTL
  <2> QED
    BY <1>1, <2>1, <2>2, <2>3
<1>5. TickBounded'
  <2>1. inflight' = <<>> /\ ticking' = (ticking + 1) % N
    BY <1>1, <1>2 DEF TickQuiet, TickCountdown, TickTimeout, TickTurn
  <2>2. ASSUME NEW j \in Nodes, ticking' # 0, j >= ticking',
               Monitors(j)', viewChangeTimeout'[j] = 0
        PROVE  view'[j] < MaxView
    <3>1. j >= ticking /\ j # i
      BY <1>2, <2>1, <2>2, NextTurn DEF Nodes
    <3>2. view' = view /\ viewChangeTimeout'[j] = viewChangeTimeout[j]
      BY <1>1, <1>2, <3>1
         DEF TickQuiet, TickCountdown, TickTimeout, TypeOK, nodeVars, viewVars
    <3>3. Monitors(j) /\ viewChangeTimeout[j] = 0
      BY <2>2, <3>2 DEF Monitors
    <3> QED
      BY <3>1, <3>2, <3>3, TickRoom
  <2> QED
    BY <2>1, <2>2 DEF TickBounded
<1> QED
  BY <1>4, <1>5 DEF TypeInv

\* Outside a tick, TickBounded only speaks of the states it starts from.
LEMMA NotTicking ==
  ASSUME TypeInv, UNCHANGED ticking, ticking = 0
  PROVE  TickBounded'
  BY DEF TickBounded

LEMMA TypeStep == TypeInv /\ [Next]_vars => TypeInv'
<1> SUFFICES ASSUME TypeInv, [Next]_vars PROVE TypeInv'
  OBVIOUS
<1> USE DEF TypeInv
<1>1. ASSUME NEW p \in Payloads, ProposeAccepted(p)
      PROVE  TypeInv'
  BY <1>1, ProposeType, NotTicking DEF ProposeAccepted, Idle
<1>2. ASSUME NEW p \in Payloads, ProposeRejected(p)
      PROVE  TypeInv'
  <2>1. NetTypeOK' /\ OutcomeOK'
    BY <1>2 DEF ProposeRejected, NetTypeOK, OutcomeOK, TypeOK, clusterVars
  <2>2. TypeOK'
    BY <1>2, <2>1, NodesUnchangedType DEF ProposeRejected
  <2> QED
    BY <1>2, <2>2, NotTicking DEF ProposeRejected, Idle, clusterVars
<1>3. CASE BeginStep
  <2>1. NetTypeOK' /\ OutcomeOK'
    BY <1>3, EmptySeq DEF BeginStep, StartStep, NetTypeOK, OutcomeOK, TypeOK
  <2>2. TypeOK'
    BY <1>3, <2>1, NodesUnchangedType DEF BeginStep
  <2> QED
    BY <1>3, <2>2, NotTicking DEF BeginStep, StartStep, Idle
<1>4. ticking = 0 \/ inflight = <<>>
  BY DEF TickBounded
<1>5. CASE LoseMessage
  <2>1. Tail(inflight) \in Seq(EnvelopeType) /\ inflight # <<>>
    BY <1>5, HeadTailProperties DEF LoseMessage, Lose, TypeOK
  <2>2. drops' \in 0 .. MaxDrops
    BY <1>5, FaultAssumption DEF LoseMessage, Lose, TypeOK
  <2>3. NetTypeOK' /\ OutcomeOK'
    BY <1>5, <2>1, <2>2 DEF LoseMessage, Lose, NetTypeOK, OutcomeOK, TypeOK
  <2>4. TypeOK'
    BY <1>5, <2>3, NodesUnchangedType DEF LoseMessage
  <2> QED
    BY <1>4, <1>5, <2>1, <2>4, NotTicking DEF LoseMessage, Lose
<1>6. CASE DeliverMessage
  <2>1. TypeOK'
    BY <1>6, DeliverType
  <2>2. inflight # <<>> /\ UNCHANGED ticking
    BY <1>6 DEF DeliverMessage, Deliverable, HandleMessage, HandlePropose,
                RecordVote, FormQC, IgnoreQC, FollowQC, DecideByQC,
                CollectNewView, BecomeLeader, Discard, Consume
  <2> QED
    BY <1>4, <2>1, <2>2, NotTicking
<1>7. CASE Tick
  BY <1>7, TickType
<1>8. CASE ChangeFaults
  <2>1. NetTypeOK' /\ OutcomeOK'
    BY <1>8, FaultAssumption
       DEF ChangeFaults, SetFaults, NetTypeOK, OutcomeOK, TypeOK
  <2>2. TypeOK'
    BY <1>8, <2>1, NodesUnchangedType DEF ChangeFaults
  <2> QED
    BY <1>8, <2>2, NotTicking DEF ChangeFaults, SetFaults, Idle
<1>9. CASE UNCHANGED vars
  <2>1. NetTypeOK' /\ OutcomeOK'
    BY <1>9 DEF vars, clusterVars, NetTypeOK, OutcomeOK, TypeOK
  <2>2. TypeOK'
    BY <1>9, <2>1, NodesUnchangedType DEF vars
  <2> QED
    BY <1>9, <2>2
       DEF vars, clusterVars, nodeVars, TickBounded, Monitors
<1> QED
  BY <1>1, <1>2, <1>3, <1>5, <1>6, <1>7, <1>8, <1>9 DEF Next

\* Every variable keeps its type, for every cluster size, every set of fault
\* configurations and every bound; views stay within the bound MaxView.
THEOREM TypeCorrect == Spec => []TypeOK
<1>1. TypeInv => TypeOK
  BY DEF TypeInv
<1> QED
  BY <1>1, InitType, TypeStep, PTL DEF Spec

-----------------------------------------------------------------------------
(* Payloads of undecided slots *)

\* One slot of one node: the payload is there while the slot is undecided.
Undecided(slot) == slot.phase \in PhaseTag

\* The slots of a node and their payloads go together.
Paired(nodeSlots, payloads) ==
    \A s \in Seqs : payloads[s] # None <=> Undecided(nodeSlots[s])

\* A step that writes the slots and payloads of one node keeps the invariant
\* if they go together afterwards.
LEMMA OneNodePayload ==
  ASSUME LogTypeOK, PayloadWhileUndecided,
         NEW i \in Nodes, NEW ss, NEW ps,
         slots' = [slots EXCEPT ![i] = ss],
         pendingPayloads' = [pendingPayloads EXCEPT ![i] = ps],
         Paired(ss, ps)
  PROVE  PayloadWhileUndecided'
<1> SUFFICES ASSUME NEW n \in Nodes, NEW t \in Seqs
             PROVE  pendingPayloads'[n][t] # None
                      <=> slots'[n][t].phase \in PhaseTag
  BY DEF PayloadWhileUndecided
<1>1. CASE n = i
  BY <1>1 DEF LogTypeOK, Paired, Undecided
<1>2. CASE n # i
  BY <1>2 DEF LogTypeOK, PayloadWhileUndecided
<1> QED
  BY <1>1, <1>2

\* So does one that writes one slot and its payload.
LEMMA OneSlotPayload ==
  ASSUME LogTypeOK, PayloadWhileUndecided,
         NEW i \in Nodes, NEW s \in Seqs, NEW slot, NEW p,
         slots' = [slots EXCEPT ![i][s] = slot],
         pendingPayloads' = [pendingPayloads EXCEPT ![i][s] = p],
         p # None <=> Undecided(slot)
  PROVE  PayloadWhileUndecided'
<1> DEFINE ss == [slots[i] EXCEPT ![s] = slot]
           ps == [pendingPayloads[i] EXCEPT ![s] = p]
<1>1. /\ slots' = [slots EXCEPT ![i] = ss]
      /\ pendingPayloads' = [pendingPayloads EXCEPT ![i] = ps]
  OBVIOUS
<1>2. Paired(ss, ps)
  BY DEF LogTypeOK, PayloadWhileUndecided, Paired, Undecided
<1> HIDE DEF ss, ps
<1> QED
  BY <1>1, <1>2, OneNodePayload

\* A node that enters a view keeps its decided slots and no payload.
LEMMA KeptPaired == \A i \in Nodes : Paired(KeptSlots(i), NoPayloads)
  BY DEF Paired, KeptSlots, NoPayloads, Undecided, NoSlot, PhaseTag

LEMMA SlotPhases ==
  /\ NoSlot.phase = "Idle"
  /\ \A v, voted : PrepareSlot(v, voted).phase = "Prepare"
  /\ \A v, voted : Undecided(PrepareSlot(v, voted))
  BY DEF NoSlot, PrepareSlot, Undecided, PhaseTag

LEMMA ProposePayload ==
  ASSUME TypeOK, PayloadWhileUndecided, NEW p \in Payloads, ProposeAccepted(p)
  PROVE  PayloadWhileUndecided'
<1>1. PICK i \in Asked : Assign(ProposalTarget(i), <<p, 0>>)
  BY DEF ProposeAccepted
<1> DEFINE j == ProposalTarget(i)
           s == nextSequence[j]
<1>2. j \in Nodes
  <2>1. view \in [Nodes -> Views] /\ Views \subseteq Nat
    BY TypeParts DEF ViewTypeOK, Views
  <2> QED
    BY <2>1, LeaderIsNode DEF ProposalTarget, Asked
<1>3. s \in Seqs
  <2>1. s \in 1 .. MaxSeq + 1 /\ s <= MaxSeq
    BY <1>1, <1>2, TypeParts DEF ViewTypeOK, Assign
  <2> HIDE DEF s
  <2> QED
    BY <2>1, HotStuffAssumption DEF Seqs
<1>4. /\ slots' = [slots EXCEPT ![j][s] = PrepareSlot(view[j], {j})]
      /\ pendingPayloads' = [pendingPayloads EXCEPT ![j][s] = <<p, 0>>]
  BY <1>1 DEF Assign
<1>5. <<p, 0>> # None
  <2>1. <<p, 0>> \in Payload
    BY DEF Payload
  <2> QED
    BY <2>1, HotStuffAssumption
<1> HIDE DEF j, s
<1> QED
  BY <1>2, <1>3, <1>4, <1>5, SlotPhases, OneSlotPayload, TypeParts

LEMMA HandleProposePayload ==
  ASSUME LogTypeOK, PayloadWhileUndecided,
         NEW i \in Nodes, NEW m \in Message, HandlePropose(i, m)
  PROVE  PayloadWhileUndecided'
<1> DEFINE s == m.sequence
           enters == m.view > view[i]
           keptSlots == IF enters THEN KeptSlots(i) ELSE slots[i]
           keptPayloads == IF enters THEN NoPayloads ELSE pendingPayloads[i]
           ss == [keptSlots EXCEPT ![s] = PrepareSlot(m.view, {})]
           ps == [keptPayloads EXCEPT ![s] = m.payload]
<1>1. m.sequence \in Seqs /\ m.payload # None
  BY MessageFields, HotStuffAssumption DEF HandlePropose, AcceptsPropose
<1>2. /\ slots' = [slots EXCEPT ![i] = ss]
      /\ pendingPayloads' = [pendingPayloads EXCEPT ![i] = ps]
  BY DEF HandlePropose
<1>3. /\ DOMAIN keptSlots = Seqs
      /\ DOMAIN keptPayloads = Seqs
      /\ Paired(keptSlots, keptPayloads)
  <2>1. CASE enters
    BY <2>1, KeptPaired DEF KeptSlots, NoPayloads
  <2>2. CASE ~enters
    BY <2>2 DEF LogTypeOK, PayloadWhileUndecided, Paired, Undecided
  <2> QED
    BY <2>1, <2>2
<1> HIDE DEF keptSlots, keptPayloads
<1>4. Paired(ss, ps)
  BY <1>1, <1>3, SlotPhases DEF Paired
<1> HIDE DEF ss, ps
<1> QED
  BY <1>2, <1>4, OneNodePayload

\* Deciding an undecided slot takes its payload out.
LEMMA DecidePayload ==
  ASSUME LogTypeOK, PayloadWhileUndecided,
         NEW i \in Nodes, NEW s \in Seqs, Decide(i, s), NEW slot,
         slots' = [slots EXCEPT ![i][s] = slot], slot.phase = "Decided"
  PROVE  PayloadWhileUndecided'
<1>1. pendingPayloads' = [pendingPayloads EXCEPT ![i][s] = None]
  BY DEF Decide
<1>2. ~Undecided(slot)
  BY DEF Undecided, PhaseTag
<1> QED
  BY <1>1, <1>2, OneSlotPayload

\* Rewriting a slot without changing whether it is undecided keeps its payload.
LEMMA SamePayload ==
  ASSUME LogTypeOK, PayloadWhileUndecided,
         NEW i \in Nodes, NEW s \in Seqs, NEW slot,
         slots' = [slots EXCEPT ![i][s] = slot],
         Undecided(slot) <=> Undecided(slots[i][s]),
         UNCHANGED pendingPayloads
  PROVE  PayloadWhileUndecided'
<1> DEFINE p == pendingPayloads[i][s]
<1>1. pendingPayloads' = [pendingPayloads EXCEPT ![i][s] = p]
  BY DEF LogTypeOK
<1>2. p # None <=> Undecided(slot)
  BY DEF PayloadWhileUndecided, Undecided
<1> HIDE DEF p
<1> QED
  BY <1>1, <1>2, OneSlotPayload

LEMMA VotePayload ==
  ASSUME TypeOK, LogTypeOK, PayloadWhileUndecided,
         NEW i \in Nodes, NEW m \in Message,
         RecordVote(i, m) \/ FormQC(i, m)
  PROVE  PayloadWhileUndecided'
<1> DEFINE s == m.sequence
           slot == slots[i][s]
           next == NextPhase(m.phase)
<1>1. AcceptsVote(i, m)
  BY DEF RecordVote, FormQC
<1>2. s \in Seqs /\ m.phase \in PhaseTag /\ slot \in SlotState
  BY <1>1, VoteTypes
<1>3. CASE RecordVote(i, m)
  <2> DEFINE new == [slot EXCEPT !.voters[m.phase] = VotersAfter(i, m)]
  <2>1. Undecided(new) <=> Undecided(slot)
    BY <1>2 DEF Undecided, SlotState
  <2>2. slots' = [slots EXCEPT ![i][s] = new] /\ UNCHANGED pendingPayloads
    BY <1>3 DEF RecordVote
  <2> HIDE DEF new, s
  <2> QED
    BY <1>2, <2>1, <2>2, SamePayload
<1>4. CASE FormQC(i, m)
  <2>1. slots' = [slots EXCEPT ![i][s] = Certified(i, m)]
    BY <1>4 DEF FormQC
  <2>2. Certified(i, m).phase = next
    BY <1>2 DEF Certified, SlotState
  <2>3. CASE m.phase = "Commit"
    <3>1. Decide(i, s) /\ next = "Decided"
      BY <1>4, <2>3 DEF FormQC, NextPhase
    <3> HIDE DEF s
    <3> QED
      BY <1>2, <2>1, <2>2, <3>1, DecidePayload
  <2>4. CASE m.phase # "Commit"
    <3>1. Undecided(Certified(i, m)) /\ Undecided(slot)
      BY <1>1, <1>2, <2>2, <2>4, PhaseTypes DEF AcceptsVote, Undecided
    <3>2. UNCHANGED pendingPayloads
      BY <1>4, <2>4 DEF FormQC
    <3> HIDE DEF s
    <3> QED
      BY <1>2, <2>1, <3>1, <3>2, SamePayload
  <2> QED
    BY <2>3, <2>4
<1> QED
  BY <1>3, <1>4

LEMMA QCPayload ==
  ASSUME LogTypeOK, PayloadWhileUndecided,
         NEW i \in Nodes, NEW m \in Message,
         FollowQC(i, m) \/ DecideByQC(i, m)
  PROVE  PayloadWhileUndecided'
<1> DEFINE s == m.sequence
           next == NextPhase(m.phase)
<1>1. s \in Seqs /\ m.phase \in PhaseTag
  BY MessageFields DEF FollowQC, DecideByQC, AcceptsQC
<1>2. slots[i][s] \in SlotState
  BY <1>1 DEF LogTypeOK
<1>3. CASE FollowQC(i, m)
  <2> DEFINE new == [slots[i][s] EXCEPT !.phase = next]
  <2>1. UNCHANGED pendingPayloads
    BY <1>3 DEF FollowQC
  <2>2. CASE slots[i][s].phase = m.phase
    <3>1. slots' = [slots EXCEPT ![i][s] = new]
      BY <1>3, <2>2 DEF FollowQC
    <3>2. Undecided(new) /\ Undecided(slots[i][s])
      BY <1>1, <1>2, <1>3, <2>2, PhaseTypes
         DEF FollowQC, Undecided, SlotState
    <3> HIDE DEF s, new
    <3> QED
      BY <1>1, <2>1, <3>1, <3>2, SamePayload
  <2>3. CASE slots[i][s].phase # m.phase
    <3>1. UNCHANGED slots
      BY <1>3, <2>3 DEF FollowQC
    <3> QED
      BY <2>1, <3>1 DEF PayloadWhileUndecided
  <2> QED
    BY <2>2, <2>3
<1>4. CASE DecideByQC(i, m)
  <2> DEFINE new == [slots[i][s] EXCEPT !.phase = "Decided"]
  <2>1. slots' = [slots EXCEPT ![i][s] = new] /\ Decide(i, s)
    BY <1>4 DEF DecideByQC
  <2>2. new.phase = "Decided"
    BY <1>2 DEF SlotState
  <2> HIDE DEF s, new
  <2> QED
    BY <1>1, <2>1, <2>2, DecidePayload
<1> QED
  BY <1>3, <1>4

LEMMA InitPayload == Init => PayloadWhileUndecided
  BY SlotPhases DEF Init, PayloadWhileUndecided, PhaseTag

LEMMA PayloadStep ==
  TypeInv /\ PayloadWhileUndecided /\ [Next]_vars => PayloadWhileUndecided'
<1> SUFFICES ASSUME TypeOK, LogTypeOK, PayloadWhileUndecided, [Next]_vars
             PROVE  PayloadWhileUndecided'
  BY TypeParts DEF TypeInv
<1>1. ASSUME NEW p \in Payloads, ProposeAccepted(p)
      PROVE  PayloadWhileUndecided'
  BY <1>1, ProposePayload
<1>2. CASE DeliverMessage
  <2> DEFINE i == Head(inflight).to
             m == Tampered(Head(inflight))
  <2>1. HandleMessage(i, m) /\ i \in Nodes /\ m \in Message
    BY <1>2, DeliveredType, TypeParts DEF DeliverMessage
  <2> HIDE DEF i, m
  <2>2. CASE HandlePropose(i, m)
    BY <2>1, <2>2, HandleProposePayload
  <2>3. CASE RecordVote(i, m) \/ FormQC(i, m)
    BY <2>1, <2>3, VotePayload
  <2>4. CASE FollowQC(i, m) \/ DecideByQC(i, m)
    BY <2>1, <2>4, QCPayload
  <2>5. CASE BecomeLeader(i, m)
    BY <2>1, <2>5, KeptPaired, OneNodePayload DEF BecomeLeader
  <2>6. CASE IgnoreQC(i, m) \/ CollectNewView(i, m) \/ Discard(i, m)
    BY <2>6 DEF IgnoreQC, CollectNewView, Discard, nodeVars, logVars,
                PayloadWhileUndecided
  <2> QED
    BY <2>1, <2>2, <2>3, <2>4, <2>5, <2>6 DEF HandleMessage
<1>3. CASE ~DeliverMessage /\ ~\E p \in Payloads : ProposeAccepted(p)
  <2>1. UNCHANGED <<slots, pendingPayloads>>
    BY <1>3 DEF Next, ProposeRejected, BeginStep, LoseMessage, Tick,
                TickQuiet, TickCountdown, TickTimeout, ChangeFaults, vars,
                nodeVars, logVars
  <2> QED
    BY <2>1 DEF PayloadWhileUndecided
<1> QED
  BY <1>1, <1>2, <1>3

\* A slot is never decided without its payload, so that no decision is left
\* unlogged, however views change and certificates arrive.
THEOREM PayloadKept == Spec => []PayloadWhileUndecided
  BY InitType, TypeStep, InitPayload, PayloadStep, PTL DEF Spec

-----------------------------------------------------------------------------
(* What each step puts on the network *)

Envelopes == Range(pending) \cup Range(inflight)

\* The message m, sent by node i to some node.
Sent(e, i, m) == e.from = i /\ e.to \in Nodes /\ e.msg = m

LEMMA EmptyRange == Range(<<>>) = {}
  BY DEF Range

LEMMA SendRange ==
  ASSUME NEW i \in Nodes, NEW m, NEW j \in Nodes
  PROVE  /\ \A e \in Range(Broadcast(i, m)) : Sent(e, i, m) /\ e.to # i
         /\ \A e \in Range(To(i, j, m)) : Sent(e, i, m)
<1>1. ASSUME NEW e \in Range(Broadcast(i, m))
      PROVE  Sent(e, i, m) /\ e.to # i
  <2>1. PICK k \in 1 .. N - 1 : e = Envelope(i, Peer(i, k), m)
    BY DEF Broadcast, Range
  <2> QED
    BY <2>1, PeerIsOther DEF Envelope, Sent
<1>2. ASSUME NEW e \in Range(To(i, j, m))
      PROVE  Sent(e, i, m)
  <2>1. e = Envelope(i, j, m)
    BY <1>2 DEF To, Range
  <2> QED
    BY <2>1 DEF Envelope, Sent
<1> QED
  BY <1>1, <1>2

LEMMA HeadTailRange ==
  ASSUME NEW S, NEW s \in Seq(S), s # <<>>
  PROVE  Head(s) \in Range(s) /\ Range(Tail(s)) \subseteq Range(s)
<1>1. /\ Len(s) \in Nat /\ Len(s) >= 1
      /\ Head(s) = s[1]
      /\ Tail(s) \in Seq(S)
      /\ Len(Tail(s)) = Len(s) - 1
      /\ \A k \in 1 .. Len(Tail(s)) : Tail(s)[k] = s[k + 1]
  BY HeadTailProperties, LenProperties
<1>2. /\ Range(s) = {s[k] : k \in 1 .. Len(s)}
      /\ Range(Tail(s)) = {Tail(s)[k] : k \in 1 .. Len(Tail(s))}
  BY <1>1, RangeEquality
<1> QED
  BY <1>1, <1>2

\* A delivery puts nothing on the network but what the handler sends.
LEMMA ConsumeEnvelopes ==
  ASSUME TypeOK, inflight # <<>>,
         NEW out \in Seq(EnvelopeType), Consume(out)
  PROVE  Envelopes' \subseteq Envelopes \cup Range(out)
<1>1. Range(inflight') \subseteq Range(inflight)
  BY HeadTailRange DEF Consume, TypeOK
<1>2. Range(pending') = Range(pending) \cup Range(out)
  BY RangeConcatenation DEF Consume, Enqueue, TypeOK
<1> QED
  BY <1>1, <1>2 DEF Envelopes

LEMMA EnqueueEnvelopes ==
  ASSUME TypeOK, UNCHANGED inflight,
         NEW out \in Seq(EnvelopeType), Enqueue(out)
  PROVE  Envelopes' = Envelopes \cup Range(out)
<1>1. Range(pending') = Range(pending) \cup Range(out)
  BY RangeConcatenation DEF Enqueue, TypeOK
<1> QED
  BY <1>1 DEF Envelopes

\* What is on the network are envelopes.
LEMMA EnvelopesTyped == NetTypeOK => Envelopes \subseteq EnvelopeType
<1> SUFFICES ASSUME NetTypeOK, NEW e \in Envelopes PROVE e \in EnvelopeType
  OBVIOUS
<1>1. CASE e \in Range(pending)
  <2>1. PICK k \in 1 .. Len(pending) : e = pending[k]
    BY <1>1, RangeEquality DEF NetTypeOK
  <2> QED
    BY <2>1, ElementOfSeq DEF NetTypeOK
<1>2. CASE e \in Range(inflight)
  <2>1. PICK k \in 1 .. Len(inflight) : e = inflight[k]
    BY <1>2, RangeEquality DEF NetTypeOK
  <2> QED
    BY <2>1, ElementOfSeq DEF NetTypeOK
<1> QED
  BY <1>1, <1>2 DEF Envelopes

\* A node answers a proposal with its vote.
LEMMA HandleProposeSends ==
  ASSUME TypeOK, inflight # <<>>, NEW i \in Nodes, NEW m \in Message,
         HandlePropose(i, m), NEW e \in Envelopes'
  PROVE  \/ e \in Envelopes
         \/ Sent(e, i, VoteMsg(m.view, m.sequence, m.digest, "Prepare", i))
<1> DEFINE vote == VoteMsg(m.view, m.sequence, m.digest, "Prepare", i)
           leader == Leader(m.view)
<1>1. m.view \in Views
  BY MessageFields DEF HandlePropose, AcceptsPropose
<1>2. vote \in Message
  BY <1>1, MessageFields, MessageTypes
     DEF HandlePropose, AcceptsPropose, PhaseTag
<1>3. leader \in Nodes
  BY <1>1, LeaderIsNode DEF Views
<1>4. Consume(To(i, leader, vote))
  BY DEF HandlePropose
<1> HIDE DEF vote, leader
<1>5. e \in Envelopes \cup Range(To(i, leader, vote))
  BY <1>2, <1>3, <1>4, SendType, ConsumeEnvelopes
<1> QED
  BY <1>3, <1>5, SendRange DEF vote

\* A leader that has its quorum sends the certificate to everyone else.
LEMMA FormQCSends ==
  ASSUME TypeOK, inflight # <<>>, NEW i \in Nodes, NEW m \in Message,
         FormQC(i, m), NEW e \in Envelopes'
  PROVE  \/ e \in Envelopes
         \/ Sent(e, i, QCMsg(m.view, m.sequence, m.digest, m.phase,
                             Cardinality(VotersAfter(i, m))))
<1> DEFINE cert == QCMsg(m.view, m.sequence, m.digest, m.phase,
                         Cardinality(VotersAfter(i, m)))
<1>1. AcceptsVote(i, m) /\ Consume(Broadcast(i, cert))
  BY DEF FormQC
<1>2. cert \in Message
  <2>1. IsFiniteSet(Nodes)
    BY NodesFinite
  <2>2. Cardinality(VotersAfter(i, m)) \in Nat
    BY <1>1, <2>1, VoteTypes, FS_Subset, FS_CardinalityType
  <2> QED
    BY <1>1, <2>2, VoteTypes, MessageTypes
<1> HIDE DEF cert
<1>4. e \in Envelopes \cup Range(Broadcast(i, cert))
  BY <1>1, <1>2, SendType, ConsumeEnvelopes
<1>5. \A x \in Range(Broadcast(i, cert)) : Sent(x, i, cert)
  BY SendRange
<1> QED
  BY <1>4, <1>5 DEF cert

\* A node answers a certificate with its vote in the next phase.
LEMMA FollowQCSends ==
  ASSUME TypeOK, inflight # <<>>, NEW i \in Nodes, NEW m \in Message,
         FollowQC(i, m), NEW e \in Envelopes'
  PROVE  \/ e \in Envelopes
         \/ Sent(e, i, VoteMsg(m.view, m.sequence, m.digest,
                               NextPhase(m.phase), i))
<1> DEFINE vote == VoteMsg(m.view, m.sequence, m.digest, NextPhase(m.phase), i)
           leader == Leader(m.view)
<1>1. /\ m.view \in Views
      /\ m.sequence \in Seqs
      /\ m.digest \in Digest
      /\ m.phase \in PhaseTag \ {"Commit"}
  BY MessageFields DEF FollowQC, AcceptsQC
<1>2. vote \in Message
  BY <1>1, PhaseTypes, MessageTypes
<1>3. leader \in Nodes
  BY <1>1, LeaderIsNode DEF Views
<1>4. Consume(To(i, leader, vote))
  BY DEF FollowQC
<1> HIDE DEF vote, leader
<1>5. e \in Envelopes \cup Range(To(i, leader, vote))
  BY <1>2, <1>3, <1>4, SendType, ConsumeEnvelopes
<1> QED
  BY <1>3, <1>5, SendRange DEF vote

\* A handler that sends nothing.
LEMMA SilentSends ==
  ASSUME TypeOK, inflight # <<>>, Consume(<<>>)
  PROVE  Envelopes' \subseteq Envelopes
  BY EmptySeq, EmptyRange, ConsumeEnvelopes

\* A tick sends at most the vote of the node that times out.
LEMMA TickSends ==
  ASSUME TypeInv, Tick, NEW i \in Nodes,
         TickQuiet(i) \/ TickCountdown(i) \/ TickTimeout(i),
         NEW e \in Envelopes'
  PROVE  \/ e \in Envelopes
         \/ TickTimeout(i) /\ Sent(e, i, NewViewMsg(view[i] + 1, i))
<1> DEFINE v == view[i] + 1
           vote == NewViewMsg(v, i)
           leader == Leader(v)
<1>1. TypeOK
  BY DEF TypeInv
<1>2. CASE TickTimeout(i)
  <2>1. view[i] < MaxView
    BY <1>2, TickRoom, SizeAssumption DEF TickTimeout, TickTurn, Nodes
  <2>2. v \in Views
    BY <1>1, <2>1, TypeParts, HotStuffAssumption DEF ViewTypeOK, Views
  <2>3. vote \in Message /\ leader \in Nodes
    BY <2>2, MessageTypes, LeaderIsNode DEF Views
  <2>4. Enqueue(To(i, leader, vote)) /\ UNCHANGED inflight
    BY <1>2 DEF TickTimeout, TickTurn
  <2> HIDE DEF vote, leader
  <2>5. e \in Envelopes \cup Range(To(i, leader, vote))
    BY <1>1, <2>3, <2>4, SendType, EnqueueEnvelopes
  <2> QED
    BY <1>2, <2>3, <2>5, SendRange DEF vote
<1>3. CASE ~TickTimeout(i)
  <2>1. Enqueue(<<>>) /\ UNCHANGED inflight
    BY <1>3 DEF TickQuiet, TickCountdown, TickTurn
  <2> QED
    BY <1>1, <2>1, EmptySeq, EmptyRange, EnqueueEnvelopes
<1> QED
  BY <1>2, <1>3

\* A leader sends the payload it numbers, to every other node.
LEMMA ProposeSends ==
  ASSUME TypeOK, NEW p \in Payloads, ProposeAccepted(p)
  PROVE  \E j \in Nodes : \E w \in Views, t \in Seqs :
           /\ w = view[j] /\ t = nextSequence[j] /\ Leader(w) = j
           /\ Assign(j, <<p, 0>>)
           /\ \A e \in Envelopes' :
                \/ e \in Envelopes
                \/ Sent(e, j, ProposeMsg(w, t, <<p, 0>>)) /\ e.to # j
<1>1. PICK i \in Asked : /\ Accepts(ProposalTarget(i))
                         /\ Assign(ProposalTarget(i), <<p, 0>>)
  BY DEF ProposeAccepted
<1> DEFINE j == ProposalTarget(i)
           w == view[j]
           t == nextSequence[j]
           offer == ProposeMsg(w, t, <<p, 0>>)
<1>2. view \in [Nodes -> Views] /\ nextSequence \in [Nodes -> 1 .. MaxSeq + 1]
  BY TypeParts DEF ViewTypeOK
<1>3. j \in Nodes /\ Leader(w) = j
  <2>1. Views \subseteq Nat
    BY DEF Views
  <2> QED
    BY <1>1, <1>2, <2>1, LeaderIsNode DEF ProposalTarget, Asked, Accepts
<1>4. <<p, 0>> \in Payload /\ w \in Views /\ t \in Seqs
  <2>1. <<p, 0>> \in Payload /\ w \in Views
    BY <1>2, <1>3 DEF Payload
  <2>2. t \in 1 .. MaxSeq + 1 /\ t <= MaxSeq
    BY <1>1, <1>2, <1>3 DEF Assign
  <2> HIDE DEF t
  <2> QED
    BY <2>1, <2>2, HotStuffAssumption DEF Seqs
<1>5. offer \in Message
  BY <1>3, <1>4, MessageTypes
<1>6. Enqueue(Broadcast(j, offer)) /\ UNCHANGED inflight
  BY <1>1 DEF Assign, ProposeAccepted
<1> HIDE DEF j, w, t, offer
<1>7. \A e \in Envelopes' : e \in Envelopes \/ (Sent(e, j, offer) /\ e.to # j)
  BY <1>3, <1>5, <1>6, SendType, EnqueueEnvelopes, SendRange
<1> QED
  BY <1>1, <1>3, <1>4, <1>7 DEF j, w, t, offer

\* The other steps of the cluster only move or lose messages.
LEMMA ClusterSends ==
  ASSUME TypeOK,
         \/ BeginStep \/ LoseMessage \/ ChangeFaults \/ UNCHANGED vars
         \/ \E p \in Payloads : ProposeRejected(p)
  PROVE  UNCHANGED nodeVars /\ Envelopes' \subseteq Envelopes
<1>1. UNCHANGED nodeVars
  BY DEF BeginStep, LoseMessage, ChangeFaults, ProposeRejected, vars
<1>2. CASE BeginStep
  BY <1>2, EmptyRange DEF BeginStep, StartStep, Envelopes
<1>3. CASE LoseMessage
  BY <1>3, HeadTailRange DEF LoseMessage, Lose, Envelopes, TypeOK
<1>4. CASE ChangeFaults \/ UNCHANGED vars \/ \E p \in Payloads : ProposeRejected(p)
  BY <1>4 DEF ChangeFaults, SetFaults, ProposeRejected, Envelopes, vars,
              clusterVars
<1> QED
  BY <1>1, <1>2, <1>3, <1>4

\* Tampering leaves the view and the number of a proposal alone, and its
\* payload too unless the sender equivocates.
LEMMA TamperedSlot ==
  ASSUME TypeOK, NEW e \in EnvelopeType, e.msg.type = "Propose"
  PROVE  /\ Tampered(e).view = e.msg.view
         /\ Tampered(e).sequence = e.msg.sequence
         /\ e.from \in NeverEquivocates
              => Tampered(e).payload = e.msg.payload
<1>1. e.msg \in [type : {"Propose"}, view : Views, sequence : Seqs,
                 digest : Digest, payload : Payload]
  BY DEF EnvelopeType, Message
<1>2. ASSUME NEW m \in [type : {"Propose"}, view : Views, sequence : Seqs,
                        digest : Digest, payload : Payload]
      PROVE  /\ Corrupted(m).view = m.view
             /\ Corrupted(m).sequence = m.sequence
             /\ Corrupted(m).payload = m.payload
  BY DEF Corrupted
<1>3. /\ Equivocated(e.msg, e.to) \in
           [type : {"Propose"}, view : Views, sequence : Seqs,
            digest : Digest, payload : Payload]
      /\ Equivocated(e.msg, e.to).view = e.msg.view
      /\ Equivocated(e.msg, e.to).sequence = e.msg.sequence
  <2>1. Extended(e.msg.payload) \in Payload
    BY <1>1 DEF Extended, Payload
  <2>2. DigestOf(Extended(e.msg.payload)) \in Digest
    BY <2>1 DEF DigestOf, Digest
  <2> QED
    BY <1>1, <2>1, <2>2 DEF Equivocated
<1>4. e.from \in NeverEquivocates => ~faults.byzantine[e.from].equivocate
  <2>1. faults \in FaultConfigs \/ faults = NoFaults
    BY DEF TypeOK
  <2>2. e.from \in Nodes
    BY DEF EnvelopeType
  <2>3. ~NoFaults.byzantine[e.from].equivocate
    BY <2>2 DEF NoFaults, Honest
  <2> QED
    BY <2>1, <2>2, <2>3 DEF NeverEquivocates
<1> QED
  BY <1>1, <1>2, <1>3, <1>4 DEF Tampered

\* Tampering leaves the kind of a message alone.
LEMMA TamperedKind ==
  ASSUME NEW e \in EnvelopeType
  PROVE  Tampered(e).type = e.msg.type
<1>1. e.msg \in Message
  BY DEF EnvelopeType
<1>2. ASSUME NEW m \in Message
      PROVE  Corrupted(m).type = m.type
  BY DEF Corrupted, Message
<1>3. /\ Equivocated(e.msg, e.to).type = e.msg.type
      /\ Corrupted(Equivocated(e.msg, e.to)).type = e.msg.type
  <2>1. CASE e.msg.type = "Propose"
    <3>1. e.msg \in [type : {"Propose"}, view : Views, sequence : Seqs,
                     digest : Digest, payload : Payload]
      BY <1>1, <2>1 DEF Message
    <3>2. ASSUME NEW m \in [type : {"Propose"}, view : Views,
                           sequence : Seqs, digest : Digest,
                           payload : Payload],
                 NEW d, NEW p
          PROVE  /\ [m EXCEPT !.payload = p, !.digest = d].type = m.type
                 /\ [[m EXCEPT !.payload = p, !.digest = d]
                        EXCEPT !.digest = FlipBits(d)].type = m.type
      OBVIOUS
    <3> QED
      BY <2>1, <3>1, <3>2 DEF Equivocated, Corrupted
  <2>2. CASE e.msg.type # "Propose"
    BY <1>1, <1>2, <2>2 DEF Equivocated, Message
  <2> QED
    BY <2>1, <2>2
<1> QED
  BY <1>1, <1>2, <1>3 DEF Tampered

\* The fault framework leaves the messages of a view change alone.
LEMMA TamperedNewView ==
  ASSUME NEW e \in EnvelopeType, Tampered(e).type = "NewView"
  PROVE  Tampered(e) = e.msg
<1>1. e.msg \in Message /\ e.msg.type = "NewView"
  BY TamperedKind DEF EnvelopeType
<1> QED
  BY <1>1 DEF Tampered, Equivocated, Corrupted

-----------------------------------------------------------------------------
(***************************************************************************)
(* The quorum behind a view.  A vote that a node collects is one its       *)
(* sender recorded for itself before it sent it, and a recorded vote is    *)
(* never withdrawn; followers enter on the word of a proposal, which comes *)
(* from a leader that is in that view.                                     *)
(***************************************************************************)
Voted(v, r) == <<v, r>> \in newViewMessages[r]

OwnVoters(v) == {r \in Nodes : Voted(v, r)}

Backed(v) == Cardinality(OwnVoters(v)) >= Quorum

SentVotesRecorded ==
    \A e \in Envelopes :
        e.msg.type = "NewView" => Voted(e.msg.newView, e.msg.replica)

CollectedVotesRecorded ==
    \A i \in Nodes : \A v \in Views, r \in Nodes :
        <<v, r>> \in newViewMessages[i] => Voted(v, r)

OfferedViewsVoted ==
    \A e \in Envelopes :
        e.msg.type = "Propose" /\ e.msg.view > 0 => Backed(e.msg.view)

VotesInv ==
    /\ SentVotesRecorded
    /\ CollectedVotesRecorded
    /\ OfferedViewsVoted
    /\ NewViewQuorum

LEMMA QuorumIsNat == Quorum \in Nat
  BY SizeAssumption DEF Quorum, F

\* Recorded votes only add to the nodes that voted for a view.
LEMMA VotersGrow ==
  ASSUME ViewTypeOK, NEW v,
         \A n \in Nodes : newViewMessages[n] \subseteq newViewMessages'[n]
  PROVE  /\ OwnVoters(v) \subseteq OwnVoters(v)'
         /\ Backed(v) => Backed(v)'
<1>1. OwnVoters(v) \subseteq OwnVoters(v)' /\ OwnVoters(v)' \subseteq Nodes
  BY DEF OwnVoters, Voted
<1>2. /\ IsFiniteSet(OwnVoters(v)')
      /\ Cardinality(OwnVoters(v)) <= Cardinality(OwnVoters(v)')
      /\ Cardinality(OwnVoters(v)) \in Nat
      /\ Cardinality(OwnVoters(v)') \in Nat
  BY <1>1, NodesFinite, FS_Subset, FS_CardinalityType
<1> QED
  BY <1>1, <1>2, QuorumIsNat DEF Backed

LEMMA EnvelopeFields ==
  ASSUME NetTypeOK, NEW e \in Envelopes
  PROVE  e \in EnvelopeType /\ e.msg \in Message
  BY EnvelopesTyped DEF EnvelopeType

\* A step that adds only votes that are recorded as their voters' own, sends
\* only such votes, and enters or offers only views a quorum voted for.
LEMMA VotesFrame ==
  ASSUME TypeOK, TypeOK', VotesInv,
         \A n \in Nodes : newViewMessages[n] \subseteq newViewMessages'[n],
         \A n \in Nodes : \A v \in Views, r \in Nodes :
           <<v, r>> \in newViewMessages'[n] =>
             <<v, r>> \in newViewMessages[n] \/ Voted(v, r)',
         \A e \in Envelopes' :
           \/ e \in Envelopes
           \/ e.msg.type = "NewView" /\ Voted(e.msg.newView, e.msg.replica)'
           \/ /\ e.msg.type = "Propose"
              /\ e.msg.view > 0 => Backed(e.msg.view)'
           \/ e.msg.type \notin {"NewView", "Propose"},
         \A n \in Nodes, w \in Views :
           view'[n] = w /\ view[n] # w => Backed(w)'
  PROVE  VotesInv'
<1>1. \A v, r : Voted(v, r) /\ r \in Nodes => Voted(v, r)'
  BY DEF Voted
<1>2. CollectedVotesRecorded'
  BY <1>1 DEF VotesInv, CollectedVotesRecorded
<1>3. SentVotesRecorded'
  <2> SUFFICES ASSUME NEW e \in Envelopes', e.msg.type = "NewView"
               PROVE  Voted(e.msg.newView, e.msg.replica)'
    BY DEF SentVotesRecorded
  <2>1. CASE e \in Envelopes
    <3>1. e.msg.replica \in Nodes
      BY <2>1, EnvelopeFields, MessageFields, TypeParts
    <3>2. Voted(e.msg.newView, e.msg.replica)
      BY <2>1 DEF VotesInv, SentVotesRecorded
    <3> QED
      BY <1>1, <3>1, <3>2
  <2> QED
    BY <2>1
<1>4. OfferedViewsVoted'
  <2> SUFFICES ASSUME NEW e \in Envelopes', e.msg.type = "Propose",
                      e.msg.view > 0
               PROVE  Backed(e.msg.view)'
    BY DEF OfferedViewsVoted
  <2>1. CASE e \in Envelopes
    <3>1. Backed(e.msg.view)
      BY <2>1 DEF VotesInv, OfferedViewsVoted
    <3> QED
      BY <3>1, VotersGrow, TypeParts
  <2> QED
    BY <2>1
<1>5. NewViewQuorum'
  <2>1. ASSUME NEW n \in Nodes, NEW w \in Views, view'[n] = w, w > 0
        PROVE  Backed(w)'
    <3>1. CASE view[n] = w
      <4>1. Backed(w)
        BY <2>1, <3>1 DEF VotesInv, NewViewQuorum, Backed, OwnVoters, Voted
      <4> QED
        BY <4>1, VotersGrow, TypeParts
    <3>2. CASE view[n] # w
      BY <2>1, <3>2
    <3> QED
      BY <3>1, <3>2
  <2>2. ViewTypeOK'
    BY TypeParts, PTL
  <2> QED
    BY <2>1, <2>2 DEF NewViewQuorum, Backed, OwnVoters, Voted, ViewTypeOK
<1> QED
  BY <1>2, <1>3, <1>4, <1>5 DEF VotesInv

\* A step that touches neither views nor votes and sends no message of a
\* leader.
LEMMA VotesUntouched ==
  ASSUME TypeOK, TypeOK', VotesInv, UNCHANGED <<view, newViewMessages>>,
         \A e \in Envelopes' :
           e \in Envelopes \/ e.msg.type \notin {"NewView", "Propose"}
  PROVE  VotesInv'
  BY VotesFrame

\* Collecting a vote that was sent.
LEMMA CollectedVotes ==
  ASSUME TypeOK, VotesInv, NEW i \in Nodes, NEW m \in Message,
         AcceptsNewView(i, m), RecordNewView(i, m),
         Voted(m.newView, m.replica)
  PROVE  /\ \A n \in Nodes : newViewMessages[n] \subseteq newViewMessages'[n]
         /\ \A n \in Nodes : \A v \in Views, r \in Nodes :
              <<v, r>> \in newViewMessages'[n] =>
                <<v, r>> \in newViewMessages[n] \/ Voted(v, r)'
         /\ NewViewVoters(i, m) \subseteq OwnVoters(m.newView)'
<1>1. m.newView \in Views /\ m.replica \in Nodes
  BY MessageFields DEF AcceptsNewView
<1>2. newViewMessages \in [Nodes -> SUBSET (Views \X Nodes)]
  BY TypeParts DEF ViewTypeOK
<1>3. /\ newViewMessages'[i] =
           newViewMessages[i] \cup {<<m.newView, m.replica>>}
      /\ \A n \in Nodes \ {i} : newViewMessages'[n] = newViewMessages[n]
  BY <1>2 DEF RecordNewView
<1>4. \A v, r : Voted(v, r) /\ r \in Nodes => Voted(v, r)'
  BY <1>3 DEF Voted
<1>5. Voted(m.newView, m.replica)'
  BY <1>1, <1>4
<1>6. ASSUME NEW r \in NewViewVoters(i, m)
      PROVE  r \in OwnVoters(m.newView)'
  <2>1. CASE r = m.replica
    BY <1>1, <1>5, <2>1 DEF OwnVoters
  <2>2. CASE r \in Nodes /\ <<m.newView, r>> \in newViewMessages[i]
    <3>1. Voted(m.newView, r)
      BY <1>1, <2>2 DEF VotesInv, CollectedVotesRecorded
    <3> QED
      BY <1>4, <2>2, <3>1 DEF OwnVoters
  <2> QED
    BY <2>1, <2>2 DEF NewViewVoters
<1>7. \A n \in Nodes : newViewMessages[n] \subseteq newViewMessages'[n]
  BY <1>3
<1>8. ASSUME NEW n \in Nodes, NEW v \in Views, NEW r \in Nodes,
             <<v, r>> \in newViewMessages'[n]
      PROVE  <<v, r>> \in newViewMessages[n] \/ Voted(v, r)'
  BY <1>3, <1>5, <1>8
<1> QED
  BY <1>6, <1>7, <1>8

\* The votes a new leader counts are those of a quorum.
LEMMA NewViewVotes ==
  ASSUME TypeOK, TypeOK', VotesInv, inflight # <<>>,
         NEW i \in Nodes, NEW m \in Message,
         CollectNewView(i, m) \/ BecomeLeader(i, m),
         Voted(m.newView, m.replica)
  PROVE  VotesInv'
<1>1. AcceptsNewView(i, m) /\ RecordNewView(i, m) /\ Consume(<<>>)
  BY DEF CollectNewView, BecomeLeader
<1>2. Envelopes' \subseteq Envelopes
  BY <1>1, SilentSends
<1>3. CASE CollectNewView(i, m)
  <2>1. UNCHANGED view
    BY <1>3 DEF CollectNewView
  <2> QED
    BY <1>1, <1>2, <2>1, CollectedVotes, VotesFrame
<1>4. CASE BecomeLeader(i, m)
  <2>1. Cardinality(NewViewVoters(i, m)) >= Quorum
    BY <1>4 DEF BecomeLeader, LeadsAfter
  <2>2. /\ NewViewVoters(i, m) \subseteq OwnVoters(m.newView)'
        /\ OwnVoters(m.newView)' \subseteq Nodes
    BY <1>1, CollectedVotes DEF OwnVoters
  <2>3. /\ Cardinality(NewViewVoters(i, m))
             <= Cardinality(OwnVoters(m.newView)')
        /\ Cardinality(NewViewVoters(i, m)) \in Nat
        /\ Cardinality(OwnVoters(m.newView)') \in Nat
    BY <2>2, NodesFinite, FS_Subset, FS_CardinalityType
  <2>4. Backed(m.newView)'
    BY <2>1, <2>3, QuorumIsNat DEF Backed
  <2>5. \A n \in Nodes, w \in Views :
          view'[n] = w /\ view[n] # w => w = m.newView
    BY <1>4, TypeParts DEF BecomeLeader, ViewTypeOK
  <2> QED
    BY <1>1, <1>2, <2>4, <2>5, CollectedVotes, VotesFrame
<1> QED
  BY <1>3, <1>4

\* A follower enters the view of a proposal.
LEMMA FollowerVotes ==
  ASSUME TypeOK, TypeOK', VotesInv, inflight # <<>>,
         NEW i \in Nodes, NEW m \in Message, HandlePropose(i, m),
         m.view > 0 => Backed(m.view)
  PROVE  VotesInv'
<1>1. m.view \in Views /\ m.view >= view[i] /\ view[i] \in Views
  BY MessageFields, TypeParts
     DEF HandlePropose, AcceptsPropose, ViewTypeOK
<1>2. /\ UNCHANGED newViewMessages
      /\ \A n \in Nodes, w \in Views :
           view'[n] = w /\ view[n] # w => w = m.view /\ m.view # view[i]
  BY TypeParts DEF HandlePropose, ViewTypeOK
<1>3. m.view # view[i] => m.view > 0
  BY <1>1 DEF Views
<1>4. \A w : Backed(w) => Backed(w)'
  BY <1>2 DEF Backed, OwnVoters, Voted
<1>5. \A e \in Envelopes' : e \in Envelopes \/ e.msg.type = "Vote"
  <2> SUFFICES ASSUME NEW e \in Envelopes', e \notin Envelopes
               PROVE  e.msg.type = "Vote"
    OBVIOUS
  <2>1. e.msg = VoteMsg(m.view, m.sequence, m.digest, "Prepare", i)
    BY HandleProposeSends DEF Sent
  <2> QED
    BY <2>1 DEF VoteMsg
<1> QED
  BY <1>2, <1>3, <1>4, <1>5, VotesFrame

LEMMA DeliverVotes ==
  ASSUME TypeOK, TypeOK', VotesInv, DeliverMessage
  PROVE  VotesInv'
<1> DEFINE e == Head(inflight)
           i == e.to
           m == Tampered(e)
<1>1. Deliverable /\ HandleMessage(i, m)
  BY DEF DeliverMessage
<1>2. inflight # <<>> /\ e \in EnvelopeType /\ i \in Nodes /\ m \in Message
  BY <1>1, DeliveredType, TypeParts
<1>3. e \in Envelopes
  BY <1>2, HeadTailRange, TypeParts DEF NetTypeOK, Envelopes
<1>4. m.type = "NewView" => m = e.msg
  BY <1>2, TamperedNewView
<1>5. m.type = "Propose" => e.msg.type = "Propose" /\ m.view = e.msg.view
  BY <1>2, TamperedKind, TamperedSlot
<1> HIDE DEF e, i, m
<1>6. m.type = "NewView" => Voted(m.newView, m.replica)
  BY <1>3, <1>4 DEF VotesInv, SentVotesRecorded
<1>7. m.type = "Propose" /\ m.view > 0 => Backed(m.view)
  BY <1>3, <1>5 DEF VotesInv, OfferedViewsVoted
<1>8. CASE HandlePropose(i, m)
  BY <1>2, <1>7, <1>8, FollowerVotes DEF HandlePropose, AcceptsPropose
<1>9. CASE CollectNewView(i, m) \/ BecomeLeader(i, m)
  BY <1>2, <1>6, <1>9, NewViewVotes
     DEF CollectNewView, BecomeLeader, AcceptsNewView
<1>10. CASE FormQC(i, m)
  <2>1. \A x \in Envelopes' :
          x \in Envelopes \/ x.msg.type = "QuorumCertificate"
    <3>1. \A v, s, d, t, k : QCMsg(v, s, d, t, k).type = "QuorumCertificate"
      BY DEF QCMsg
    <3> QED
      BY <1>2, <1>10, <3>1, FormQCSends DEF Sent
  <2> QED
    BY <1>10, <2>1, VotesUntouched DEF FormQC, viewVars
<1>11. CASE FollowQC(i, m)
  <2>1. \A x \in Envelopes' : x \in Envelopes \/ x.msg.type = "Vote"
    <3>1. \A v, s, d, t : VoteMsg(v, s, d, t, i).type = "Vote"
      BY DEF VoteMsg
    <3> QED
      BY <1>2, <1>11, <3>1, FollowQCSends DEF Sent
  <2> QED
    BY <1>11, <2>1, VotesUntouched DEF FollowQC, viewVars
<1>12. CASE \/ RecordVote(i, m) \/ IgnoreQC(i, m) \/ DecideByQC(i, m)
            \/ Discard(i, m)
  <2>1. Consume(<<>>) /\ UNCHANGED <<view, newViewMessages>>
    BY <1>12 DEF RecordVote, IgnoreQC, DecideByQC, Discard, viewVars, nodeVars
  <2> QED
    BY <1>2, <2>1, SilentSends, VotesUntouched
<1> QED
  BY <1>1, <1>8, <1>9, <1>10, <1>11, <1>12 DEF HandleMessage

LEMMA TickVotes ==
  ASSUME TypeInv, TypeOK', VotesInv, Tick
  PROVE  VotesInv'
<1>1. PICK i \in Nodes : TickQuiet(i) \/ TickCountdown(i) \/ TickTimeout(i)
  BY DEF Tick
<1>2. TypeOK /\ newViewMessages \in [Nodes -> SUBSET (Views \X Nodes)]
  BY TypeParts DEF TypeInv, ViewTypeOK
<1>3. CASE TickTimeout(i)
  <2>1. PICK w : w = view[i] + 1
    OBVIOUS
  <2>2. /\ newViewMessages' =
             [newViewMessages EXCEPT ![i] = newViewMessages[i] \cup {<<w, i>>}]
        /\ UNCHANGED view
    BY <1>3, <2>1 DEF TickTimeout
  <2>3. /\ newViewMessages'[i] = newViewMessages[i] \cup {<<w, i>>}
        /\ \A n \in Nodes \ {i} : newViewMessages'[n] = newViewMessages[n]
    BY <1>2, <2>2
  <2>4. Voted(w, i)'
    BY <2>3 DEF Voted
  <2>5. \A n \in Nodes : newViewMessages[n] \subseteq newViewMessages'[n]
    BY <2>3
  <2>6. ASSUME NEW n \in Nodes, NEW u \in Views, NEW r \in Nodes,
               <<u, r>> \in newViewMessages'[n]
        PROVE  <<u, r>> \in newViewMessages[n] \/ Voted(u, r)'
    BY <2>3, <2>4, <2>6
  <2>7. ASSUME NEW e \in Envelopes', e \notin Envelopes
        PROVE  e.msg.type = "NewView" /\ Voted(e.msg.newView, e.msg.replica)'
    <3>1. e.msg = NewViewMsg(w, i)
      BY <1>1, <2>1, <2>7, TickSends DEF Sent
    <3>2. e.msg.type = "NewView" /\ e.msg.newView = w /\ e.msg.replica = i
      BY <3>1 DEF NewViewMsg
    <3> QED
      BY <2>4, <3>2
  <2> QED
    BY <1>2, <2>2, <2>5, <2>6, <2>7, VotesFrame
<1>4. CASE ~TickTimeout(i)
  <2>1. UNCHANGED <<view, newViewMessages>>
    BY <1>1, <1>4 DEF TickQuiet, TickCountdown, nodeVars, viewVars
  <2>2. Envelopes' \subseteq Envelopes
    BY <1>1, <1>4, TickSends
  <2> QED
    BY <1>2, <2>1, <2>2, VotesUntouched
<1> QED
  BY <1>3, <1>4

LEMMA InitVotes == Init => VotesInv
<1> SUFFICES ASSUME Init PROVE VotesInv
  OBVIOUS
<1>1. Envelopes = {}
  BY EmptyRange DEF Init, ClusterInit, Envelopes
<1>2. \A n \in Nodes : newViewMessages[n] = {} /\ ~(view[n] > 0)
  BY DEF Init
<1> QED
  BY <1>1, <1>2
     DEF VotesInv, SentVotesRecorded, CollectedVotesRecorded,
         OfferedViewsVoted, NewViewQuorum

\* A leader proposes in its own view, which it entered with a quorum.
LEMMA ProposeVotes ==
  ASSUME TypeOK, TypeOK', VotesInv, NEW p \in Payloads, ProposeAccepted(p)
  PROVE  VotesInv'
<1>1. UNCHANGED <<view, newViewMessages>>
  BY DEF ProposeAccepted
<1>2. PICK j \in Nodes : \E w \in Views, t \in Seqs :
        /\ w = view[j]
        /\ \A e \in Envelopes' :
             e \in Envelopes \/ e.msg = ProposeMsg(w, t, <<p, 0>>)
  BY ProposeSends DEF Sent
<1>3. view[j] > 0 => Backed(view[j])
  BY DEF VotesInv, NewViewQuorum, Backed, OwnVoters, Voted
<1>4. \A w : Backed(w) => Backed(w)'
  BY <1>1 DEF Backed, OwnVoters, Voted
<1>5. \A e \in Envelopes' :
        \/ e \in Envelopes
        \/ /\ e.msg.type = "Propose"
           /\ e.msg.view > 0 => Backed(e.msg.view)'
  BY <1>2, <1>3, <1>4 DEF ProposeMsg
<1> QED
  BY <1>1, <1>5, VotesFrame

LEMMA VotesStep == TypeInv /\ TypeOK' /\ VotesInv /\ [Next]_vars => VotesInv'
<1> SUFFICES ASSUME TypeOK, TypeOK', TypeInv, VotesInv, [Next]_vars
             PROVE  VotesInv'
  BY DEF TypeInv
<1>1. ASSUME NEW p \in Payloads, ProposeAccepted(p)
      PROVE  VotesInv'
  BY <1>1, ProposeVotes
<1>2. CASE DeliverMessage
  BY <1>2, DeliverVotes
<1>3. CASE Tick
  BY <1>3, TickVotes
<1>4. CASE \/ BeginStep \/ LoseMessage \/ ChangeFaults \/ UNCHANGED vars
           \/ \E p \in Payloads : ProposeRejected(p)
  BY <1>4, ClusterSends, VotesUntouched DEF nodeVars
<1> QED
  BY <1>1, <1>2, <1>3, <1>4 DEF Next

\* A leader takes over, and its followers come along, only after a quorum of
\* nodes timed out for the view themselves, whatever is lost, repeated or
\* tampered with.
THEOREM ViewsNeedQuorum == Spec => []NewViewQuorum
<1>1. TypeInv => TypeOK
  BY DEF TypeInv
<1>2. VotesInv => NewViewQuorum
  BY DEF VotesInv
<1> QED
  BY <1>1, <1>2, InitType, TypeStep, InitVotes, VotesStep, PTL DEF Spec
=============================================================================
