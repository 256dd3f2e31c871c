------------------------------ MODULE HotStuff ------------------------------
(***************************************************************************)
(* A cluster of HotStuffNode (src/src/consensus/hotstuff) driven by the    *)
(* simulated network of module Cluster: the three vote phases, in which    *)
(* replicas only talk to the leader, and the view change.  One variable    *)
(* per field of HotStuffState, indexed by node.                            *)
(*                                                                         *)
(* Left out: leader_active, which is written and never read, the atomic    *)
(* current_view, which mirrors view, and the justify_* and highest_qc_*    *)
(* fields of Propose and NewView, which no receiver looks at.  committed   *)
(* and the view field of its entries are as in module Pbft.                *)
(***************************************************************************)
EXTENDS Cluster, CommitLog

CONSTANTS
    None,                 \* no payload
    VIEW_CHANGE_TIMEOUT,  \* ticks without a proposal before a suspicion
    MaxView,              \* bound: views entered or voted for
    MaxSeq,               \* bound: sequence numbers a leader assigns
    MaxPending            \* bound: messages queued when a tick starts

ASSUME HotStuffAssumption ==
    /\ None \notin Payload
    /\ VIEW_CHANGE_TIMEOUT \in Nat
    /\ MaxView \in Nat
    /\ MaxSeq \in Nat \ {0}
    /\ MaxPending \in Nat

VARIABLES
    view,               \* view[n]
    nextSequence,       \* next_sequence: the next one n assigns as leader
    slots,              \* slots[n][s], NoSlot when absent
    pendingPayloads,    \* pending_payloads[n][s], None when absent
    committed,          \* committed[n], in commit order
    highestQC,          \* highest_qc_view and highest_qc_phase
    viewChangeTimeout,  \* ticks left before n suspects its leader
    newViewMessages,    \* pairs <<new_view, replica>> n has collected
    outcome             \* what the client was last told about a payload

viewVars == <<view, nextSequence, newViewMessages>>
logVars == <<slots, pendingPayloads, committed>>
nodeVars == <<view, nextSequence, slots, pendingPayloads, committed,
              highestQC, viewChangeTimeout, newViewMessages>>
vars == <<clusterVars, nodeVars, outcome>>

Views == 0 .. MaxView
Seqs == 1 .. MaxSeq

\* HotStuffPhaseTag: what is voted on.  A slot is in the phase of the votes
\* it is collecting or waiting for.
PhaseTag == {"Prepare", "PreCommit", "Commit"}
Phase == {"Idle", "Decided"} \cup PhaseTag
NextPhase(t) ==
    CASE t = "Prepare" -> "PreCommit"
      [] t = "PreCommit" -> "Commit"
      [] t = "Commit" -> "Decided"
PhaseOrd(t) ==
    CASE t = "Prepare" -> 0
      [] t = "PreCommit" -> 1
      [] t = "Commit" -> 2

\* voters[t]: prepare_voters, precommit_voters and commit_voters.
SlotState == [phase : Phase, view : Views, voters : [PhaseTag -> SUBSET Nodes]]

NoSlot == [phase |-> "Idle", view |-> 0, voters |-> [t \in PhaseTag |-> {}]]

PrepareSlot(v, voted) ==
    [phase |-> "Prepare", view |-> v,
     voters |-> [t \in PhaseTag |-> IF t = "Prepare" THEN voted ELSE {}]]

CommittedEntry == [sequence : Seqs, payload : Payload, view : Views]
QC == [view : Views, phase : PhaseTag]

F == (N - 1) \div 3

\* Mutant: 2f votes are a quorum.
QuorumTooSmall == 2 * F

Quorum == 2 * F + 1
Leader(v) == v % N

-----------------------------------------------------------------------------
(* Messages *)

ProposeMsg(v, s, p) ==
    [type |-> "Propose", view |-> v, sequence |-> s,
     digest |-> DigestOf(p), payload |-> p]

VoteMsg(v, s, d, t, i) ==
    [type |-> "Vote", view |-> v, sequence |-> s, digest |-> d, phase |-> t,
     voter |-> i]

QCMsg(v, s, d, t, count) ==
    [type |-> "QuorumCertificate", view |-> v, sequence |-> s, digest |-> d,
     phase |-> t, voteCount |-> count]

NewViewMsg(v, i) == [type |-> "NewView", newView |-> v, replica |-> i]

Message ==
    [type : {"Propose"}, view : Views, sequence : Seqs,
     digest : Digest, payload : Payload]
    \cup [type : {"Vote"}, view : Views, sequence : Seqs, digest : Digest,
          phase : PhaseTag, voter : Nodes]
    \cup [type : {"QuorumCertificate"}, view : Views, sequence : Seqs,
          digest : Digest, phase : PhaseTag, voteCount : Nat]
    \cup [type : {"NewView"}, newView : Views, replica : Nodes]

\* msg_to: a message to a single node.
To(i, j, m) == <<Envelope(i, j, m)>>

Init ==
    /\ ClusterInit
    /\ view = [n \in Nodes |-> 0]
    /\ nextSequence = [n \in Nodes |-> 1]
    /\ slots = [n \in Nodes |-> [s \in Seqs |-> NoSlot]]
    /\ pendingPayloads = [n \in Nodes |-> [s \in Seqs |-> None]]
    /\ committed = [n \in Nodes |-> <<>>]
    /\ highestQC = [n \in Nodes |-> [view |-> 0, phase |-> "Prepare"]]
    /\ viewChangeTimeout = [n \in Nodes |-> VIEW_CHANGE_TIMEOUT]
    /\ newViewMessages = [n \in Nodes |-> {}]
    /\ outcome = [p \in Payloads |-> "unsent"]

-----------------------------------------------------------------------------
(* Client proposals *)

\* A node that does not lead its view names the leader, so Cluster::propose
\* asks the first reachable node and then, reachable or not, that leader.
Asked == {i \in Nodes : ~Isolated(i) /\ \A j \in Nodes : j < i => Isolated(j)}

ProposalTarget(i) == Leader(view[i])

Accepts(j) == Leader(view[j]) = j

\* Mutant: the counter is not advanced.
AssignSameNumber(i, p) ==
    LET v == view[i]
        s == nextSequence[i]
    IN  /\ s <= MaxSeq
        /\ nextSequence' = nextSequence
        /\ slots' = [slots EXCEPT ![i][s] = PrepareSlot(v, {i})]
        /\ pendingPayloads' = [pendingPayloads EXCEPT ![i][s] = p]
        /\ Enqueue(Broadcast(i, ProposeMsg(v, s, p)))

\* Node i, leader of its view, gives payload p the next sequence number and
\* its own vote.
Assign(i, p) ==
    LET v == view[i]
        s == nextSequence[i]
    IN  /\ s <= MaxSeq
        /\ nextSequence' = [nextSequence EXCEPT ![i] = s + 1]
        /\ slots' = [slots EXCEPT ![i][s] = PrepareSlot(v, {i})]
        /\ pendingPayloads' = [pendingPayloads EXCEPT ![i][s] = p]
        /\ Enqueue(Broadcast(i, ProposeMsg(v, s, p)))

ProposeAccepted(p) ==
    /\ Idle
    /\ outcome[p] # "accepted"
    /\ \E i \in Asked :
         /\ Accepts(ProposalTarget(i))
         /\ Assign(ProposalTarget(i), <<p, 0>>)
    /\ outcome' = [outcome EXCEPT ![p] = "accepted"]
    /\ UNCHANGED <<inflight, ticking, faults, drops, faultChanges,
                   view, committed, highestQC, viewChangeTimeout,
                   newViewMessages>>

ProposeRejected(p) ==
    /\ Idle
    /\ outcome[p] # "accepted"
    /\ \A i \in Asked : ~Accepts(ProposalTarget(i))
    /\ outcome' = [outcome EXCEPT ![p] = "rejected"]
    /\ UNCHANGED <<clusterVars, nodeVars>>

-----------------------------------------------------------------------------
(* Views *)

\* Mutant: the undecided slots survive.
KeptSlotsAll(i) == slots[i]

\* What enter_new_view leaves of the slots of node i.
KeptSlots(i) ==
    [s \in Seqs |-> IF slots[i][s].phase = "Decided" THEN slots[i][s] ELSE NoSlot]

NoPayloads == [s \in Seqs |-> None]

AcceptsNewView(i, m) == m.type = "NewView" /\ m.newView > view[i]

NewViewVoters(i, m) ==
    {r \in Nodes : <<m.newView, r>> \in newViewMessages[i]} \cup {m.replica}

\* Mutant: one vote too few is enough.
LeadsEarly(i, m) ==
    /\ Cardinality(NewViewVoters(i, m)) >= Quorum - 1
    /\ Leader(m.newView) = i

LeadsAfter(i, m) ==
    /\ Cardinality(NewViewVoters(i, m)) >= Quorum
    /\ Leader(m.newView) = i

RecordNewView(i, m) ==
    newViewMessages' =
      [newViewMessages EXCEPT ![i] = @ \cup {<<m.newView, m.replica>>}]

CollectNewView(i, m) ==
    /\ AcceptsNewView(i, m)
    /\ ~LeadsAfter(i, m)
    /\ RecordNewView(i, m)
    /\ Consume(<<>>)
    /\ UNCHANGED <<view, nextSequence, logVars, highestQC, viewChangeTimeout,
                   outcome>>

\* The new leader enters its view alone and tells nobody: the others follow
\* its first proposal.  Its sequence counter stays what it was.
BecomeLeader(i, m) ==
    /\ AcceptsNewView(i, m)
    /\ LeadsAfter(i, m)
    /\ RecordNewView(i, m)
    /\ view' = [view EXCEPT ![i] = m.newView]
    /\ viewChangeTimeout' =
         [viewChangeTimeout EXCEPT ![i] = VIEW_CHANGE_TIMEOUT]
    /\ slots' = [slots EXCEPT ![i] = KeptSlots(i)]
    /\ pendingPayloads' = [pendingPayloads EXCEPT ![i] = NoPayloads]
    /\ Consume(<<>>)
    /\ UNCHANGED <<nextSequence, committed, highestQC, outcome>>

-----------------------------------------------------------------------------
(* Proposals at a replica *)

AcceptsPropose(i, m) == m.type = "Propose" /\ m.view >= view[i]

\* A proposal of a higher view takes the replica there, whatever the votes.
\* Neither the digest, the sender nor a slot already there is looked at.
HandlePropose(i, m) ==
    LET enters == m.view > view[i]
        s == m.sequence
        keptSlots == IF enters THEN KeptSlots(i) ELSE slots[i]
        keptPayloads == IF enters THEN NoPayloads ELSE pendingPayloads[i]
    IN  /\ AcceptsPropose(i, m)
        /\ view' = [view EXCEPT ![i] = m.view]
        /\ viewChangeTimeout' =
             [viewChangeTimeout EXCEPT ![i] = VIEW_CHANGE_TIMEOUT]
        /\ slots' = [slots EXCEPT
                       ![i] = [keptSlots EXCEPT ![s] = PrepareSlot(m.view, {})]]
        /\ pendingPayloads' = [pendingPayloads EXCEPT
                                 ![i] = [keptPayloads EXCEPT ![s] = m.payload]]
        /\ Consume(To(i, Leader(m.view),
                      VoteMsg(m.view, s, m.digest, "Prepare", i)))
        /\ UNCHANGED <<nextSequence, newViewMessages, committed, highestQC,
                       outcome>>

-----------------------------------------------------------------------------
(* Votes at the leader *)

AcceptsVote(i, m) ==
    /\ m.type = "Vote"
    /\ Leader(m.view) = i
    /\ m.view = view[i]
    /\ slots[i][m.sequence].phase = m.phase

VotersAfter(i, m) == slots[i][m.sequence].voters[m.phase] \cup {m.voter}

\* Mutant: one vote too many is asked for.
QuorumLate(i, m) == Cardinality(VotersAfter(i, m)) > Quorum

QuorumReached(i, m) == Cardinality(VotersAfter(i, m)) >= Quorum

RecordVote(i, m) ==
    /\ AcceptsVote(i, m)
    /\ ~QuorumReached(i, m)
    /\ slots' = [slots EXCEPT
                   ![i][m.sequence].voters[m.phase] = VotersAfter(i, m)]
    /\ Consume(<<>>)
    /\ UNCHANGED <<viewVars, pendingPayloads, committed, highestQC,
                   viewChangeTimeout, outcome>>

\* The payload of a decided slot goes to the log, if it is there.
Decide(i, s) ==
    LET p == pendingPayloads[i][s] IN
    /\ committed' =
         IF p = None THEN committed
         ELSE [committed EXCEPT ![i] =
                 Append(@, [sequence |-> s, payload |-> p, view |-> view[i]])]
    /\ pendingPayloads' = [pendingPayloads EXCEPT ![i][s] = None]

\* Mutant: the leader's slot stays in the phase just completed.
CertifiedStay(i, m) ==
    [slots[i][m.sequence] EXCEPT !.voters[m.phase] = VotersAfter(i, m)]

\* The leader's slot once its votes make a quorum: in the next phase, with
\* the leader's own vote.
Certified(i, m) ==
    LET slot == slots[i][m.sequence]
        next == NextPhase(m.phase)
    IN  [slot EXCEPT
           !.phase = next,
           !.voters = [t \in PhaseTag |->
                         CASE t = m.phase -> VotersAfter(i, m)
                           [] t = next -> slot.voters[t] \cup {i}
                           [] OTHER -> slot.voters[t]]]

FormQC(i, m) ==
    LET s == m.sequence IN
    /\ AcceptsVote(i, m)
    /\ QuorumReached(i, m)
    /\ slots' = [slots EXCEPT ![i][s] = Certified(i, m)]
    /\ highestQC' = [highestQC EXCEPT ![i] = [view |-> m.view, phase |-> m.phase]]
    /\ IF m.phase = "Commit" THEN Decide(i, s)
       ELSE UNCHANGED <<committed, pendingPayloads>>
    /\ Consume(Broadcast(i, QCMsg(m.view, s, m.digest, m.phase,
                                  Cardinality(VotersAfter(i, m)))))
    /\ UNCHANGED <<viewVars, viewChangeTimeout, outcome>>

-----------------------------------------------------------------------------
(* Quorum certificates at a replica *)

\* The number of votes is what the certificate claims; no vote is carried.
AcceptsQC(i, m) == m.type = "QuorumCertificate" /\ m.voteCount >= Quorum

\* The highest certificate is noted whatever view the node is in.
NoteQC(i, m) ==
    LET high == highestQC[i] IN
    highestQC' =
      IF \/ m.view > high.view
         \/ m.view = high.view /\ PhaseOrd(m.phase) > PhaseOrd(high.phase)
      THEN [highestQC EXCEPT ![i] = [view |-> m.view, phase |-> m.phase]]
      ELSE highestQC

\* A certificate of another view, or of a slot that is not there or decided.
IgnoreQC(i, m) ==
    /\ AcceptsQC(i, m)
    /\ \/ m.view # view[i]
       \/ /\ m.phase = "Commit"
          /\ slots[i][m.sequence].phase \in {"Idle", "Decided"}
    /\ NoteQC(i, m)
    /\ Consume(<<>>)
    /\ UNCHANGED <<viewVars, logVars, viewChangeTimeout, outcome>>

\* The replica votes in the next phase, even for a slot it does not have.
FollowQC(i, m) ==
    LET s == m.sequence
        next == NextPhase(m.phase)
    IN  /\ AcceptsQC(i, m)
        /\ m.view = view[i]
        /\ m.phase # "Commit"
        /\ NoteQC(i, m)
        /\ slots' = IF slots[i][s].phase = m.phase
                      THEN [slots EXCEPT ![i][s].phase = next]
                      ELSE slots
        /\ Consume(To(i, Leader(m.view), VoteMsg(m.view, s, m.digest, next, i)))
        /\ UNCHANGED <<viewVars, pendingPayloads, committed,
                       viewChangeTimeout, outcome>>

DecideByQC(i, m) ==
    LET s == m.sequence IN
    /\ AcceptsQC(i, m)
    /\ m.view = view[i]
    /\ m.phase = "Commit"
    /\ slots[i][s].phase \notin {"Idle", "Decided"}
    /\ NoteQC(i, m)
    /\ slots' = [slots EXCEPT ![i][s].phase = "Decided"]
    /\ Decide(i, s)
    /\ Consume(<<>>)
    /\ UNCHANGED <<viewVars, viewChangeTimeout, outcome>>

Discard(i, m) ==
    /\ ~ \/ AcceptsPropose(i, m)
         \/ AcceptsVote(i, m)
         \/ AcceptsQC(i, m)
         \/ AcceptsNewView(i, m)
    /\ Consume(<<>>)
    /\ UNCHANGED <<nodeVars, outcome>>

HandleMessage(i, m) ==
    \/ HandlePropose(i, m)
    \/ RecordVote(i, m)
    \/ FormQC(i, m)
    \/ IgnoreQC(i, m)
    \/ FollowQC(i, m)
    \/ DecideByQC(i, m)
    \/ CollectNewView(i, m)
    \/ BecomeLeader(i, m)
    \/ Discard(i, m)

-----------------------------------------------------------------------------
(* Timers *)

Monitors(i) == Leader(view[i]) # i

\* Bounds: a tick that would vote beyond MaxView, or starts with more than
\* MaxPending messages queued, is not made.
TickAllowed ==
    /\ Len(pending) <= MaxPending
    /\ \A i \in Nodes :
         Monitors(i) /\ viewChangeTimeout[i] = 0 => view[i] < MaxView

TickQuiet(i) ==
    /\ ~Monitors(i)
    /\ TickTurn(i, <<>>)
    /\ UNCHANGED <<nodeVars, outcome>>

\* Mutant: the countdown runs on at zero.
TickUnderflow(i) ==
    /\ Monitors(i)
    /\ viewChangeTimeout' = [viewChangeTimeout EXCEPT ![i] = @ - 1]
    /\ TickTurn(i, <<>>)
    /\ UNCHANGED <<viewVars, logVars, highestQC, outcome>>

TickCountdown(i) ==
    /\ Monitors(i)
    /\ viewChangeTimeout[i] > 0
    /\ viewChangeTimeout' = [viewChangeTimeout EXCEPT ![i] = @ - 1]
    /\ TickTurn(i, <<>>)
    /\ UNCHANGED <<viewVars, logVars, highestQC, outcome>>

\* Mutant: a node that has voted for the view does not send its vote again.
TickTimeoutOnce(i) ==
    LET v == view[i] + 1 IN
    /\ Monitors(i)
    /\ viewChangeTimeout[i] = 0
    /\ newViewMessages' = [newViewMessages EXCEPT ![i] = @ \cup {<<v, i>>}]
    /\ viewChangeTimeout' =
         [viewChangeTimeout EXCEPT ![i] = VIEW_CHANGE_TIMEOUT]
    /\ TickTurn(i, IF <<v, i>> \in newViewMessages[i] THEN <<>>
                   ELSE To(i, Leader(v), NewViewMsg(v, i)))
    /\ UNCHANGED <<view, nextSequence, logVars, highestQC, outcome>>

\* Node i suspects its leader, tells the next one (possibly itself, through
\* the network) and starts its timer again.
TickTimeout(i) ==
    LET v == view[i] + 1 IN
    /\ Monitors(i)
    /\ viewChangeTimeout[i] = 0
    /\ newViewMessages' = [newViewMessages EXCEPT ![i] = @ \cup {<<v, i>>}]
    /\ viewChangeTimeout' =
         [viewChangeTimeout EXCEPT ![i] = VIEW_CHANGE_TIMEOUT]
    /\ TickTurn(i, To(i, Leader(v), NewViewMsg(v, i)))
    /\ UNCHANGED <<view, nextSequence, logVars, highestQC, outcome>>

Tick ==
    /\ ticking = 0 => TickAllowed
    /\ \E i \in Nodes : TickQuiet(i) \/ TickCountdown(i) \/ TickTimeout(i)

-----------------------------------------------------------------------------
BeginStep == StartStep /\ UNCHANGED <<nodeVars, outcome>>

LoseMessage == Lose /\ UNCHANGED <<nodeVars, outcome>>

DeliverMessage ==
    /\ Deliverable
    /\ HandleMessage(Head(inflight).to, Tampered(Head(inflight)))

ChangeFaults ==
    /\ \E c \in FaultConfigs \cup {NoFaults} : SetFaults(c)
    /\ UNCHANGED <<nodeVars, outcome>>

Next ==
    \/ \E p \in Payloads : ProposeAccepted(p) \/ ProposeRejected(p)
    \/ BeginStep
    \/ LoseMessage
    \/ DeliverMessage
    \/ Tick
    \/ ChangeFaults

Spec == Init /\ [][Next]_vars

-----------------------------------------------------------------------------
(* Type invariant *)

EnvelopeType == [from : Nodes, to : Nodes, msg : Message]

\* Every variable keeps its type, the tick countdown and the bounds included.
TypeOK ==
    /\ pending \in Seq(EnvelopeType)
    /\ inflight \in Seq(EnvelopeType)
    /\ ticking \in Nodes
    /\ faults \in FaultConfigs \cup {NoFaults}
    /\ drops \in 0 .. MaxDrops
    /\ faultChanges \in 0 .. MaxFaultChanges
    /\ view \in [Nodes -> Views]
    /\ nextSequence \in [Nodes -> 1 .. MaxSeq + 1]
    /\ slots \in [Nodes -> [Seqs -> SlotState]]
    /\ pendingPayloads \in [Nodes -> [Seqs -> Payload \cup {None}]]
    /\ committed \in [Nodes -> Seq(CommittedEntry)]
    /\ highestQC \in [Nodes -> QC]
    /\ viewChangeTimeout \in [Nodes -> 0 .. VIEW_CHANGE_TIMEOUT]
    /\ newViewMessages \in [Nodes -> SUBSET (Views \X Nodes)]
    /\ outcome \in [Payloads -> {"unsent", "accepted", "rejected"}]

-----------------------------------------------------------------------------
(* Safety *)

Entries(i) == EntriesOf(committed[i])

\* A node commits views in increasing order and the sequence numbers of a
\* view in increasing order, each once, whatever is lost: the three rounds of
\* a number never overtake those of the number before.
PerViewOrder ==
    \A i \in Nodes : \A k, l \in DOMAIN committed[i] :
        k < l => LET a == committed[i][k]
                     b == committed[i][l]
                 IN  \/ a.view < b.view
                     \/ a.view = b.view /\ a.sequence < b.sequence

\* A commit rests on 2f + 1 nodes that were given the proposal (or have
\* gone on to a later view), although the later two rounds count the votes of
\* replicas that do not have the slot.
CommitBackedByProposal ==
    \A i \in Nodes : \A e \in Entries(i) :
        Cardinality({j \in Nodes :
            \/ view[j] > e.view
            \/ /\ slots[j][e.sequence].view = e.view
               /\ slots[j][e.sequence].phase # "Idle"})
          >= 2 * F + 1

Rank(phase) ==
    CASE phase = "Idle" -> 0
      [] phase = "Prepare" -> 1
      [] phase = "PreCommit" -> 2
      [] phase = "Commit" -> 3
      [] phase = "Decided" -> 4

\* No replica is further in a slot than the leader of the slot's view, as
\* long as the leader is there: replicas move on certificates only.
ReplicaBehindLeader ==
    \A i \in Nodes : \A s \in Seqs :
        LET slot == slots[i][s]
            leader == Leader(slot.view)
        IN  \/ slot.phase = "Idle"
            \/ view[leader] > slot.view
            \/ /\ slots[leader][s].view = slot.view
               /\ Rank(slot.phase) <= Rank(slots[leader][s].phase)

\* The payload is there exactly while the slot is undecided, so that a slot
\* is never decided without being logged, across dropped and overwritten
\* slots.
PayloadWhileUndecided ==
    \A i \in Nodes : \A s \in Seqs :
        pendingPayloads[i][s] # None <=> slots[i][s].phase \in PhaseTag

\* A view above the first is led, and followed, only after a quorum of nodes
\* timed out for it themselves, although followers enter on the word of one
\* proposal and a node sends its vote again and again.
NewViewQuorum ==
    \A i \in Nodes :
        view[i] > 0 =>
            Cardinality({j \in Nodes : <<view[i], j>> \in newViewMessages[j]})
                >= Quorum

-----------------------------------------------------------------------------
(* Action properties *)

\* What a node has decided in a view stays decided until it enters a later
\* view: neither a proposal nor a late certificate reopens a slot.
DecidedStays ==
    [][\A i \in Nodes : \A s \in Seqs :
         slots[i][s].phase = "Decided" /\ view'[i] = view[i]
           => \/ slots'[i][s] = slots[i][s]
              \/ slots[i][s].view < view[i]]_vars

-----------------------------------------------------------------------------
(***************************************************************************)
(* The promise of module Consensus, with a sequence number of a view as a  *)
(* slot, as in module Pbft.                                                *)
(***************************************************************************)
Proposed == {<<p, 0>> : p \in {q \in Payloads : outcome[q] # "unsent"}}

TrustedSlots == {v \in Views : Leader(v) \in NeverEquivocates} \X Seqs

Decision(e) == [slot |-> <<e.view, e.sequence>>, payload |-> e.payload]

Delivered ==
    [n \in Nodes |-> [k \in DOMAIN committed[n] |-> Decision(committed[n][k])]]

Abstract == INSTANCE Consensus WITH
    Trusted <- TrustedSlots,
    proposed <- Proposed,
    chosen <- {Decision(e) : e \in UNION {Entries(n) : n \in Nodes}},
    delivered <- Delivered

\* Replicas check neither digests nor certificates, and a leader that takes
\* over says nothing and keeps its counter: still, no number of a view is
\* committed twice by a node or for two payloads, nor for one no client sent.
ImplementsConsensus == Abstract!Spec

-----------------------------------------------------------------------------
(* Liveness *)

\* As in module Pbft: a step or tick that is under way is finished, and both
\* are started again and again.
Fairness ==
    /\ WF_vars(LoseMessage \/ DeliverMessage)
    /\ SF_vars(BeginStep)
    /\ SF_vars(Tick)

FairSpec == Spec /\ Fairness

HasCommitted(i, p) == \E e \in Entries(i) : e.payload = <<p, 0>>

\* An accepted proposal is committed by every node that is still reachable.
AcceptedCommits ==
    \A p \in Payloads :
        outcome[p] = "accepted"
            ~> \A i \in Nodes : Isolated(i) \/ HasCommitted(i, p)

\* When all nodes are in a view whose leader is isolated, another node comes
\* to lead the next one: votes that were lost are sent again.
NextLeaderTakesOver ==
    \A v \in 0 .. MaxView - 1 :
        /\ Isolated(Leader(v))
        /\ \A i \in Nodes : view[i] = v
        ~> \/ ~Isolated(Leader(v))
           \/ \E i \in Nodes : ~Isolated(i) /\ view[i] > v
=============================================================================
