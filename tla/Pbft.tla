-------------------------------- MODULE Pbft --------------------------------
(***************************************************************************)
(* A cluster of PbftNode (src/src/consensus/pbft) driven by the simulated  *)
(* network of module Cluster: normal case (pre-prepare, prepare, commit)   *)
(* and view change.  One variable per field of PbftState, indexed by node. *)
(*                                                                         *)
(* Left out: primary_active, which is written and never read, and the      *)
(* atomic current_view, which mirrors view.  committed is never drained:   *)
(* it is what poll_committed has returned so far (the driver's CommitLog)  *)
(* followed by what it would return now.  The view field of its entries is *)
(* a history variable, the view the entry was committed in.                *)
(***************************************************************************)
EXTENDS Cluster, CommitLog

CONSTANTS
    None,                 \* no payload
    VIEW_CHANGE_TIMEOUT,  \* ticks without a pre-prepare before a suspicion
    MaxView,              \* bound: views entered or voted for
    MaxSeq                \* bound: sequence numbers a primary assigns

ASSUME PbftAssumption ==
    /\ None \notin Payload
    /\ VIEW_CHANGE_TIMEOUT \in Nat
    /\ MaxView \in Nat
    /\ MaxSeq \in Nat \ {0}

VARIABLES
    view,                  \* view[n]
    nextSequence,          \* next_sequence: the next one n assigns as primary
    slots,                 \* slots[n][s], NoSlot when absent
    pendingPayloads,       \* pending_payloads[n][s], None when absent
    committed,             \* committed[n], in commit order
    viewChangeTimeout,     \* ticks left before n suspects its primary
    viewChangeInProgress,  \* n has timed out in its view
    viewChangeVotes,       \* pairs <<new_view, replica>> n has collected
    highestCommittedSeq,   \* highest_committed_seq
    outcome                \* what the client was last told about a payload

logVars == <<slots, pendingPayloads, committed, highestCommittedSeq>>
viewVars == <<view, nextSequence, viewChangeInProgress, viewChangeVotes>>
nodeVars == <<view, nextSequence, slots, pendingPayloads, committed,
              viewChangeTimeout, viewChangeInProgress, viewChangeVotes,
              highestCommittedSeq>>
vars == <<clusterVars, nodeVars, outcome>>

Views == 0 .. MaxView
Seqs == 1 .. MaxSeq

Phase == {"Idle", "PrePrepared", "Prepared", "Committed"}

SlotState == [phase : Phase, view : Views,
              prepareVoters : SUBSET Nodes, commitVoters : SUBSET Nodes]

NoSlot == [phase |-> "Idle", view |-> 0,
           prepareVoters |-> {}, commitVoters |-> {}]

\* SlotState::new, moved to PrePrepared as both its callers do.
PrePreparedSlot(v) == [NoSlot EXCEPT !.phase = "PrePrepared", !.view = v]

CommittedEntry == [sequence : Seqs, payload : Payload, view : Views]

F == (N - 1) \div 3
Quorum == 2 * F + 1
PrepareThreshold == 2 * F
Primary(v) == v % N

-----------------------------------------------------------------------------
(* Messages *)

PrePrepareMsg(v, s, p) ==
    [type |-> "PrePrepare", view |-> v, sequence |-> s,
     digest |-> DigestOf(p), payload |-> p]

PrepareMsg(v, s, d, i) ==
    [type |-> "Prepare", view |-> v, sequence |-> s, digest |-> d,
     replica |-> i]

CommitMsg(v, s, d, i) ==
    [type |-> "Commit", view |-> v, sequence |-> s, digest |-> d,
     replica |-> i]

ViewChangeMsg(v, i, last) ==
    [type |-> "ViewChange", newView |-> v, replica |-> i,
     lastCommittedSeq |-> last]

NewViewMsg(v, next) ==
    [type |-> "NewView", view |-> v, nextSequence |-> next]

Message ==
    [type : {"PrePrepare"}, view : Views, sequence : Seqs,
     digest : Digest, payload : Payload]
    \cup [type : {"Prepare", "Commit"}, view : Views, sequence : Seqs,
          digest : Digest, replica : Nodes]
    \cup [type : {"ViewChange"}, newView : Views, replica : Nodes,
          lastCommittedSeq : Nat]
    \cup [type : {"NewView"}, view : Views, nextSequence : Nat \ {0}]

Init ==
    /\ ClusterInit
    /\ view = [n \in Nodes |-> 0]
    /\ nextSequence = [n \in Nodes |-> 1]
    /\ slots = [n \in Nodes |-> [s \in Seqs |-> NoSlot]]
    /\ pendingPayloads = [n \in Nodes |-> [s \in Seqs |-> None]]
    /\ committed = [n \in Nodes |-> <<>>]
    /\ viewChangeTimeout = [n \in Nodes |-> VIEW_CHANGE_TIMEOUT]
    /\ viewChangeInProgress = [n \in Nodes |-> FALSE]
    /\ viewChangeVotes = [n \in Nodes |-> {}]
    /\ highestCommittedSeq = [n \in Nodes |-> 0]
    /\ outcome = [p \in Payloads |-> "unsent"]

-----------------------------------------------------------------------------
(* Client proposals *)

\* What PbftNode::propose answers on node i.
Answer(i) ==
    CASE Primary(view[i]) # i -> "NotLeaderSome"
      [] Primary(view[i]) = i /\ viewChangeInProgress[i] -> "NotLeaderNone"
      [] OTHER -> "Accepted"

\* Cluster::propose stops at the first reachable node that accepts or names
\* a primary; it then asks that primary, reachable or not, and no other node.
Asked ==
    {i \in Nodes :
        /\ ~Isolated(i)
        /\ Answer(i) # "NotLeaderNone"
        /\ \A j \in Nodes :
             j < i => Isolated(j) \/ Answer(j) = "NotLeaderNone"}

ProposalTarget(i) ==
    IF Answer(i) = "Accepted" THEN i ELSE Primary(view[i])

\* Mutant: the counter is not advanced.
AssignSameNumber(i, p) ==
    LET v == view[i]
        s == nextSequence[i]
    IN  /\ s <= MaxSeq
        /\ nextSequence' = nextSequence
        /\ slots' = [slots EXCEPT ![i][s] = PrePreparedSlot(v)]
        /\ pendingPayloads' = [pendingPayloads EXCEPT ![i][s] = p]
        /\ Enqueue(Broadcast(i, PrePrepareMsg(v, s, p))
                   \o Broadcast(i, PrepareMsg(v, s, DigestOf(p), i)))

\* Node i, primary of its view, gives payload p the next sequence number.
Assign(i, p) ==
    LET v == view[i]
        s == nextSequence[i]
    IN  /\ s <= MaxSeq
        /\ nextSequence' = [nextSequence EXCEPT ![i] = s + 1]
        /\ slots' = [slots EXCEPT ![i][s] = PrePreparedSlot(v)]
        /\ pendingPayloads' = [pendingPayloads EXCEPT ![i][s] = p]
        /\ Enqueue(Broadcast(i, PrePrepareMsg(v, s, p))
                   \o Broadcast(i, PrepareMsg(v, s, DigestOf(p), i)))

ProposeAccepted(p) ==
    /\ Idle
    /\ outcome[p] # "accepted"
    /\ \E i \in Asked :
         /\ Answer(ProposalTarget(i)) = "Accepted"
         /\ Assign(ProposalTarget(i), <<p, 0>>)
    /\ outcome' = [outcome EXCEPT ![p] = "accepted"]
    /\ UNCHANGED <<inflight, ticking, faults, drops, faultChanges,
                   view, committed, viewChangeTimeout, viewChangeInProgress,
                   viewChangeVotes, highestCommittedSeq>>

\* The suggested primary has moved to another view, or nobody was reached.
ProposeRejected(p) ==
    /\ Idle
    /\ outcome[p] # "accepted"
    /\ \A i \in Asked : Answer(ProposalTarget(i)) # "Accepted"
    /\ outcome' = [outcome EXCEPT ![p] = "rejected"]
    /\ UNCHANGED <<clusterVars, nodeVars>>

-----------------------------------------------------------------------------
(* Normal case: each handler's early return is a predicate Accepts... *)

AcceptsPrePrepare(i, m) ==
    /\ m.type = "PrePrepare"
    /\ m.view = view[i]
    /\ ~viewChangeInProgress[i]

\* The digest is passed on as received; neither it nor the sender is checked.
HandlePrePrepare(i, m) ==
    /\ AcceptsPrePrepare(i, m)
    /\ viewChangeTimeout' =
         [viewChangeTimeout EXCEPT ![i] = VIEW_CHANGE_TIMEOUT]
    /\ slots' = [slots EXCEPT ![i][m.sequence] = PrePreparedSlot(m.view)]
    /\ pendingPayloads' =
         [pendingPayloads EXCEPT ![i][m.sequence] = m.payload]
    /\ Consume(Broadcast(i, PrepareMsg(m.view, m.sequence, m.digest, i)))
    /\ UNCHANGED <<viewVars, committed, highestCommittedSeq, outcome>>

AcceptsPrepare(i, m) ==
    /\ m.type = "Prepare"
    /\ m.view = view[i]
    /\ slots[i][m.sequence].phase = "PrePrepared"

PrepareVoters(i, m) == slots[i][m.sequence].prepareVoters \cup {m.replica}

\* Mutant: one prepare vote too few is enough.
PreparedEarly(i, m) ==
    Cardinality(PrepareVoters(i, m)) >= PrepareThreshold - 1

PrepareReached(i, m) == Cardinality(PrepareVoters(i, m)) >= PrepareThreshold

RecordPrepare(i, m) ==
    /\ AcceptsPrepare(i, m)
    /\ ~PrepareReached(i, m)
    /\ slots' = [slots EXCEPT
                   ![i][m.sequence].prepareVoters = PrepareVoters(i, m)]
    /\ Consume(<<>>)
    /\ UNCHANGED <<viewVars, viewChangeTimeout, pendingPayloads, committed,
                   highestCommittedSeq, outcome>>

\* Mutant: the node does not count its own commit vote.
BecomePreparedUncounted(i, m) ==
    /\ AcceptsPrepare(i, m)
    /\ PrepareReached(i, m)
    /\ slots' = [slots EXCEPT ![i][m.sequence] =
                   [@ EXCEPT !.phase = "Prepared",
                             !.prepareVoters = PrepareVoters(i, m)]]
    /\ Consume(Broadcast(i, CommitMsg(m.view, m.sequence, m.digest, i)))
    /\ UNCHANGED <<viewVars, viewChangeTimeout, pendingPayloads, committed,
                   highestCommittedSeq, outcome>>

\* The commit votes that arrived early are not counted again here.
BecomePrepared(i, m) ==
    LET slot == slots[i][m.sequence] IN
    /\ AcceptsPrepare(i, m)
    /\ PrepareReached(i, m)
    /\ slots' = [slots EXCEPT ![i][m.sequence] =
                   [slot EXCEPT !.phase = "Prepared",
                                !.prepareVoters = PrepareVoters(i, m),
                                !.commitVoters = slot.commitVoters \cup {i}]]
    /\ Consume(Broadcast(i, CommitMsg(m.view, m.sequence, m.digest, i)))
    /\ UNCHANGED <<viewVars, viewChangeTimeout, pendingPayloads, committed,
                   highestCommittedSeq, outcome>>

AcceptsCommit(i, m) ==
    /\ m.type = "Commit"
    /\ m.view = view[i]
    /\ slots[i][m.sequence].phase \in {"PrePrepared", "Prepared"}

CommitVoters(i, m) == slots[i][m.sequence].commitVoters \cup {m.replica}

\* Mutants: one commit vote too many is asked for, or one too few.
CommitLate(i, m) == Cardinality(CommitVoters(i, m)) > Quorum
CommitEarly(i, m) == Cardinality(CommitVoters(i, m)) >= Quorum - 1

CommitReached(i, m) == Cardinality(CommitVoters(i, m)) >= Quorum

RecordCommit(i, m) ==
    /\ AcceptsCommit(i, m)
    /\ ~CommitReached(i, m)
    /\ slots' = [slots EXCEPT
                   ![i][m.sequence].commitVoters = CommitVoters(i, m)]
    /\ Consume(<<>>)
    /\ UNCHANGED <<viewVars, viewChangeTimeout, pendingPayloads, committed,
                   highestCommittedSeq, outcome>>

BecomeCommitted(i, m) ==
    LET s == m.sequence
        p == pendingPayloads[i][s]
    IN  /\ AcceptsCommit(i, m)
        /\ CommitReached(i, m)
        /\ slots' = [slots EXCEPT ![i][s] =
                       [@ EXCEPT !.phase = "Committed",
                                 !.commitVoters = CommitVoters(i, m)]]
        /\ highestCommittedSeq' =
             [highestCommittedSeq EXCEPT ![i] = IF s > @ THEN s ELSE @]
        /\ committed' =
             IF p = None THEN committed
             ELSE [committed EXCEPT ![i] =
                     Append(@, [sequence |-> s, payload |-> p,
                                view |-> view[i]])]
        /\ pendingPayloads' = [pendingPayloads EXCEPT ![i][s] = None]
        /\ Consume(<<>>)
        /\ UNCHANGED <<viewVars, viewChangeTimeout, outcome>>

-----------------------------------------------------------------------------
(* View change *)

\* Mutants: the new view keeps the node's old counter, or the payloads of the
\* slots it drops.
EnterNewViewOldCounter(i, v, next) ==
    /\ view' = [view EXCEPT ![i] = v]
    /\ nextSequence' = nextSequence
    /\ viewChangeInProgress' = [viewChangeInProgress EXCEPT ![i] = FALSE]
    /\ viewChangeTimeout' =
         [viewChangeTimeout EXCEPT ![i] = VIEW_CHANGE_TIMEOUT]
    /\ slots' = [slots EXCEPT ![i] =
                   [s \in Seqs |-> IF slots[i][s].phase = "Committed"
                                     THEN slots[i][s] ELSE NoSlot]]
    /\ pendingPayloads' = [pendingPayloads EXCEPT ![i] = [s \in Seqs |-> None]]

EnterNewViewKeepsPayloads(i, v, next) ==
    /\ view' = [view EXCEPT ![i] = v]
    /\ nextSequence' = [nextSequence EXCEPT ![i] = next]
    /\ viewChangeInProgress' = [viewChangeInProgress EXCEPT ![i] = FALSE]
    /\ viewChangeTimeout' =
         [viewChangeTimeout EXCEPT ![i] = VIEW_CHANGE_TIMEOUT]
    /\ slots' = [slots EXCEPT ![i] =
                   [s \in Seqs |-> IF slots[i][s].phase = "Committed"
                                     THEN slots[i][s] ELSE NoSlot]]
    /\ UNCHANGED pendingPayloads

EnterNewView(i, v, next) ==
    /\ view' = [view EXCEPT ![i] = v]
    /\ nextSequence' = [nextSequence EXCEPT ![i] = next]
    /\ viewChangeInProgress' = [viewChangeInProgress EXCEPT ![i] = FALSE]
    /\ viewChangeTimeout' =
         [viewChangeTimeout EXCEPT ![i] = VIEW_CHANGE_TIMEOUT]
    /\ slots' = [slots EXCEPT ![i] =
                   [s \in Seqs |-> IF slots[i][s].phase = "Committed"
                                     THEN slots[i][s] ELSE NoSlot]]
    /\ pendingPayloads' = [pendingPayloads EXCEPT ![i] = [s \in Seqs |-> None]]

AcceptsViewChange(i, m) ==
    /\ m.type = "ViewChange"
    /\ m.newView > view[i]

Voters(i, v) == {r \in Nodes : <<v, r>> \in viewChangeVotes[i]}

\* The votes node i holds after the message, its own included: it joins.
VotersAfter(i, m) == Voters(i, m.newView) \cup {m.replica, i}

\* Mutants: one vote too few is enough, or one too many is asked for.
LeadsEarly(i, m) ==
    /\ Cardinality(VotersAfter(i, m)) >= Quorum - 1
    /\ Primary(m.newView) = i
LeadsLate(i, m) ==
    /\ Cardinality(VotersAfter(i, m)) > Quorum
    /\ Primary(m.newView) = i

LeadsAfter(i, m) ==
    /\ Cardinality(VotersAfter(i, m)) >= Quorum
    /\ Primary(m.newView) = i

\* A node that has not voted for the view joins in, whatever its own timer
\* says, and goes on taking part in its current view.
JoinMessages(i, m) ==
    IF m.replica = i \/ i \in Voters(i, m.newView) THEN <<>>
    ELSE Broadcast(i, ViewChangeMsg(m.newView, i, highestCommittedSeq[i]))

RecordViewChange(i, m) ==
    viewChangeVotes' =
      [viewChangeVotes EXCEPT ![i] = @ \cup {<<m.newView, m.replica>>,
                                             <<m.newView, i>>}]

JoinViewChange(i, m) ==
    /\ AcceptsViewChange(i, m)
    /\ ~LeadsAfter(i, m)
    /\ RecordViewChange(i, m)
    /\ Consume(JoinMessages(i, m))
    /\ UNCHANGED <<view, nextSequence, viewChangeInProgress,
                   viewChangeTimeout, logVars, outcome>>

\* The new primary starts after what it has itself committed; the
\* last_committed_seq of the votes is not looked at.
BecomePrimary(i, m) ==
    LET next == highestCommittedSeq[i] + 1 IN
    /\ AcceptsViewChange(i, m)
    /\ LeadsAfter(i, m)
    /\ RecordViewChange(i, m)
    /\ EnterNewView(i, m.newView, next)
    /\ Consume(JoinMessages(i, m)
               \o Broadcast(i, NewViewMsg(m.newView, next)))
    /\ UNCHANGED <<committed, highestCommittedSeq, outcome>>

AcceptsNewView(i, m) ==
    /\ m.type = "NewView"
    /\ m.view > view[i]

HandleNewView(i, m) ==
    /\ AcceptsNewView(i, m)
    /\ EnterNewView(i, m.view, m.nextSequence)
    /\ Consume(<<>>)
    /\ UNCHANGED <<viewChangeVotes, committed, highestCommittedSeq, outcome>>

\* Every other message hits an early return.
Discard(i, m) ==
    /\ ~ \/ AcceptsPrePrepare(i, m)
         \/ AcceptsPrepare(i, m)
         \/ AcceptsCommit(i, m)
         \/ AcceptsViewChange(i, m)
         \/ AcceptsNewView(i, m)
    /\ Consume(<<>>)
    /\ UNCHANGED <<nodeVars, outcome>>

HandleMessage(i, m) ==
    \/ HandlePrePrepare(i, m)
    \/ RecordPrepare(i, m)
    \/ BecomePrepared(i, m)
    \/ RecordCommit(i, m)
    \/ BecomeCommitted(i, m)
    \/ JoinViewChange(i, m)
    \/ BecomePrimary(i, m)
    \/ HandleNewView(i, m)
    \/ Discard(i, m)

-----------------------------------------------------------------------------
(* Timers *)

\* Mutant: the primary watches itself.
MonitorsAlways(i) == ~viewChangeInProgress[i]

Monitors(i) == Primary(view[i]) # i /\ ~viewChangeInProgress[i]

\* Bound: a tick that would start a view change beyond MaxView is not made.
TickAllowed ==
    \A i \in Nodes :
        Monitors(i) /\ viewChangeTimeout[i] = 0 => view[i] < MaxView

TickQuiet(i) ==
    /\ ~Monitors(i)
    /\ TickTurn(i, <<>>)
    /\ UNCHANGED <<nodeVars, outcome>>

\* Mutant: the countdown runs on at zero.
TickUnderflow(i) ==
    /\ Monitors(i)
    /\ viewChangeTimeout' = [viewChangeTimeout EXCEPT ![i] = @ - 1]
    /\ TickTurn(i, <<>>)
    /\ UNCHANGED <<viewVars, logVars, outcome>>

TickCountdown(i) ==
    /\ Monitors(i)
    /\ viewChangeTimeout[i] > 0
    /\ viewChangeTimeout' = [viewChangeTimeout EXCEPT ![i] = @ - 1]
    /\ TickTurn(i, <<>>)
    /\ UNCHANGED <<viewVars, logVars, outcome>>

\* Node i suspects its primary.  It does not check whether its own vote
\* completes a quorum, and never times out again in this view.
TickTimeout(i) ==
    LET v == view[i] + 1 IN
    /\ Monitors(i)
    /\ viewChangeTimeout[i] = 0
    /\ viewChangeInProgress' = [viewChangeInProgress EXCEPT ![i] = TRUE]
    /\ viewChangeVotes' = [viewChangeVotes EXCEPT ![i] = @ \cup {<<v, i>>}]
    /\ TickTurn(i, Broadcast(i, ViewChangeMsg(v, i, highestCommittedSeq[i])))
    /\ UNCHANGED <<view, nextSequence, viewChangeTimeout, logVars, outcome>>

Tick ==
    /\ ticking = 0 => TickAllowed
    /\ \E i \in Nodes : TickQuiet(i) \/ TickCountdown(i) \/ TickTimeout(i)

-----------------------------------------------------------------------------
BeginStep == StartStep /\ UNCHANGED <<nodeVars, outcome>>

LoseMessage == Lose /\ UNCHANGED <<nodeVars, outcome>>

DeliverMessage ==
    /\ Deliverable
    /\ HandleMessage(Head(inflight).to, Tampered(Head(inflight)))

ChangeFaults ==
    /\ \E c \in FaultConfigs \cup {NoFaults} : SetFaults(c)
    /\ UNCHANGED <<nodeVars, outcome>>

Next ==
    \/ \E p \in Payloads : ProposeAccepted(p) \/ ProposeRejected(p)
    \/ BeginStep
    \/ LoseMessage
    \/ DeliverMessage
    \/ Tick
    \/ ChangeFaults

Spec == Init /\ [][Next]_vars

-----------------------------------------------------------------------------
(* Type invariant *)

EnvelopeType == [from : Nodes, to : Nodes, msg : Message]

\* Every variable keeps its type, the tick countdown and the bounds included.
TypeOK ==
    /\ pending \in Seq(EnvelopeType)
    /\ inflight \in Seq(EnvelopeType)
    /\ ticking \in Nodes
    /\ faults \in FaultConfigs \cup {NoFaults}
    /\ drops \in 0 .. MaxDrops
    /\ faultChanges \in 0 .. MaxFaultChanges
    /\ view \in [Nodes -> Views]
    /\ nextSequence \in [Nodes -> Nat \ {0}]
    /\ slots \in [Nodes -> [Seqs -> SlotState]]
    /\ pendingPayloads \in [Nodes -> [Seqs -> Payload \cup {None}]]
    /\ committed \in [Nodes -> Seq(CommittedEntry)]
    /\ viewChangeTimeout \in [Nodes -> 0 .. VIEW_CHANGE_TIMEOUT]
    /\ viewChangeInProgress \in [Nodes -> BOOLEAN]
    /\ viewChangeVotes \in [Nodes -> SUBSET (Views \X Nodes)]
    /\ highestCommittedSeq \in [Nodes -> Nat]
    /\ outcome \in [Payloads -> {"unsent", "accepted", "rejected"}]

-----------------------------------------------------------------------------
(* Safety *)

Entries(i) == EntriesOf(committed[i])

\* Two nodes that commit the same sequence number of the same view commit the
\* same payload, unless the primary of that view equivocates: what is left of
\* Agreement once view changes may reuse sequence numbers (see Agreement).
PerViewAgreement ==
    \A i, j \in Nodes : \A a \in Entries(i), b \in Entries(j) :
        /\ a.view = b.view
        /\ a.sequence = b.sequence
        /\ Primary(a.view) \in NeverEquivocates
        => a.payload = b.payload

\* A node commits views in increasing order and the sequence numbers of a
\* view in increasing order, each once: nothing in the handlers orders the
\* commits, the network's queue order and the quorums do.
PerViewOrder ==
    \A i \in Nodes : \A k, l \in DOMAIN committed[i] :
        k < l => LET a == committed[i][k]
                     b == committed[i][l]
                 IN  \/ a.view < b.view
                     \/ a.view = b.view /\ a.sequence < b.sequence

\* Node j has collected a prepare quorum for sequence number s of view v, or
\* has since gone on to a later view.
PreparedBy(j, v, s) ==
    \/ view[j] > v
    \/ /\ slots[j][s].view = v
       /\ slots[j][s].phase \in {"Prepared", "Committed"}

\* What a commit rests on: whatever was lost or withheld, a quorum of nodes
\* was Prepared in the view of every committed entry, counting commit votes
\* that arrived before the node's own prepare quorum.
CommitBackedByPrepared ==
    \A i \in Nodes : \A e \in Entries(i) :
        Cardinality({j \in Nodes : PreparedBy(j, e.view, e.sequence)})
            >= Quorum

\* A node becomes Prepared only where a quorum of nodes, itself included, took
\* the same slot from the primary (or have left the view): the 2f prepare
\* votes it counts come from 2f others.
PreparedBackedByPrePrepared ==
    \A i \in Nodes : \A s \in Seqs :
        LET v == slots[i][s].view IN
        slots[i][s].phase = "Prepared" =>
            Cardinality({j \in Nodes :
                \/ view[j] > v
                \/ slots[j][s].view = v /\ slots[j][s].phase # "Idle"})
              >= Quorum

\* A slot that holds a quorum of commit votes is committed.  The quorum is
\* only looked at when a Commit arrives, not when the node's own vote is added
\* as it becomes Prepared; that no slot is stuck in between rests on commits
\* reaching a node after the prepares of the same round.
NoStuckQuorum ==
    \A i \in Nodes : \A s \in Seqs :
        Cardinality(slots[i][s].commitVoters) >= Quorum
            => slots[i][s].phase = "Committed"

\* The payload is there exactly while the slot is undecided, so that the
\* commit of a slot never finds it missing and silently records nothing.
PayloadWhileUndecided ==
    \A i \in Nodes : \A s \in Seqs :
        pendingPayloads[i][s] # None
            <=> slots[i][s].phase \in {"PrePrepared", "Prepared"}

\* A view is entered only after a quorum of nodes voted for it themselves:
\* one suspicious node, or votes counted twice, never move the cluster.
NewViewQuorum ==
    \A i \in Nodes :
        view[i] > 0 =>
            Cardinality({j \in Nodes : <<view[i], j>> \in viewChangeVotes[j]})
                >= Quorum

\* The primary of a view is never waiting for a view change, so the branch of
\* propose that answers NotLeader(None) is dead and a client is never turned
\* away by every node.
PrimaryNotSuspicious ==
    \A i \in Nodes : viewChangeInProgress[i] => Primary(view[i]) # i

\* The next number a primary assigns lies beyond every slot of its own view.
PrimaryNumbersFresh ==
    \A i \in Nodes : \A s \in Seqs :
        /\ Primary(view[i]) = i
        /\ slots[i][s].phase # "Idle"
        /\ slots[i][s].view = view[i]
        => s < nextSequence[i]

\* What CommitLog::record_proposal was given: proposals count whatever the
\* client was answered.
Proposed == {<<p, 0>> : p \in {q \in Payloads : outcome[q] # "unsent"}}

\* Cluster::check_invariants runs the checks of invariant.rs over the nodes
\* that are neither Byzantine nor isolated when it is called.

\* check_agreement: no two nodes commit different payloads for one sequence
\* number, across view changes that may reuse numbers.
Agreement == CheckAgreement(committed, HonestNodes)

\* check_validity: honest nodes commit only what a client proposed (recorded
\* whatever the answer), not a payload an equivocating node made up.
Validity == CheckValidity(committed, HonestNodes, Proposed)

\* check_integrity: no node commits a sequence number twice, although view
\* changes drop slots and set the primary's counter back.
Integrity == CheckIntegrity(committed, HonestNodes)

\* check_total_order, as its documentation states it: numbers two nodes both
\* committed come in the same order on both.
TotalOrder == SameRelativeOrder(committed, HonestNodes)

-----------------------------------------------------------------------------
(***************************************************************************)
(* The promise of module Consensus, with a sequence number of a view as a  *)
(* slot.                                                                   *)
(***************************************************************************)
TrustedSlots ==
    {v \in Views : Primary(v) \in NeverEquivocates} \X Seqs

Decision(e) == [slot |-> <<e.view, e.sequence>>, payload |-> e.payload]

Delivered ==
    [n \in Nodes |-> [k \in DOMAIN committed[n] |-> Decision(committed[n][k])]]

Abstract == INSTANCE Consensus WITH
    Trusted <- TrustedSlots,
    proposed <- Proposed,
    chosen <- {Decision(e) : e \in UNION {Entries(n) : n \in Nodes}},
    delivered <- Delivered

\* However views change and whatever is lost or tampered with, what nodes
\* commit is what some run of Consensus delivers: no number of a view is
\* committed twice by a node or for two payloads, nor for one no client sent.
ImplementsConsensus == Abstract!Spec

-----------------------------------------------------------------------------
(* Liveness *)

\* The drivers of the tests and of wait_for_leader alternate ticks with
\* running the queue to completion: a started step or tick is finished, and
\* both are started again and again.  A step of an empty queue changes
\* nothing, so BeginStep is only enabled when the queue holds messages.
Fairness ==
    /\ WF_vars(LoseMessage \/ DeliverMessage)
    /\ SF_vars(BeginStep)
    /\ SF_vars(Tick)

FairSpec == Spec /\ Fairness

HasCommitted(i, p) == \E e \in Entries(i) : e.payload = <<p, 0>>

\* An accepted proposal is committed by every node that is still reachable.
AcceptedCommits ==
    \A p \in Payloads :
        outcome[p] = "accepted"
            ~> \A i \in Nodes : Isolated(i) \/ HasCommitted(i, p)

\* Once the primary of a view is isolated the others leave that view.
DeadPrimaryReplaced ==
    \A v \in 0 .. MaxView - 1 :
        Isolated(Primary(v))
            ~> \A i \in Nodes : Isolated(i) \/ view[i] # v
=============================================================================
