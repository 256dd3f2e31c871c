----------------------- MODULE HotStuffConsensusProofs -----------------------
(***************************************************************************)
(* What slots, proposals and commits of module HotStuff rest on, for every *)
(* value of its constants: that HotStuff implements Consensus, that the    *)
(* leader is ahead of the rest with a quorum behind every commit, and the  *)
(* order in which a node commits.                                          *)
(***************************************************************************)
EXTENDS HotStuffProofs

-----------------------------------------------------------------------------
(***************************************************************************)
(* What steps do to nodes.  A handler other than that of a proposal leaves *)
(* the nodes alone, moves one undecided slot on, decides it, or enters a   *)
(* view.                                                                   *)
(***************************************************************************)
ReplicaVars == <<view, nextSequence, slots, pendingPayloads, committed>>

\* A step that writes one slot.
WritesSlot(i, s, slot) ==
    /\ slots'[i][s] = slot
    /\ \A n \in Nodes, t \in Seqs :
         ~(n = i /\ t = s) => slots'[n][t] = slots[n][t]

Advanced(old, new) ==
    /\ Undecided(old)
    /\ new.phase # "Idle"
    /\ new.view = old.view
    /\ Rank(old.phase) <= Rank(new.phase)

Advances(i, s) ==
    /\ s \in Seqs
    /\ Advanced(slots[i][s], slots'[i][s])
    /\ WritesSlot(i, s, slots'[i][s])
    /\ UNCHANGED <<view, nextSequence>>

MovesOn(i, s) == Advances(i, s) /\ UNCHANGED <<pendingPayloads, committed>>

DecidesSlot(i, s) ==
    Advances(i, s) /\ slots'[i][s].phase = "Decided" /\ Decide(i, s)

Enters(i) ==
    /\ view'[i] > view[i]
    /\ \A n \in Nodes \ {i} : view'[n] = view[n]
    /\ slots' = [slots EXCEPT ![i] = KeptSlots(i)]
    /\ pendingPayloads' = [pendingPayloads EXCEPT ![i] = NoPayloads]
    /\ UNCHANGED <<nextSequence, committed>>

QuietEffect ==
    \/ UNCHANGED ReplicaVars
    \/ \E i \in Nodes : \E s \in Seqs : MovesOn(i, s) \/ DecidesSlot(i, s)
    \/ \E i \in Nodes : Enters(i)

\* Phases come one after the other.
LEMMA Ranks ==
  /\ \A p \in Phase : Rank(p) \in Nat
  /\ \A t \in PhaseTag :
       /\ t \in Phase /\ Rank(t) <= Rank(t)
       /\ Rank(t) <= Rank(NextPhase(t))
       /\ Rank(t) <= Rank("Decided")
<1>1. \A p \in Phase : Rank(p) \in Nat
  BY DEF Phase, PhaseTag, Rank
<1>2. \A t \in PhaseTag :
        /\ t \in Phase /\ Rank(t) <= Rank(t)
        /\ Rank(t) <= Rank(NextPhase(t))
        /\ Rank(t) <= Rank("Decided")
  BY DEF PhaseTag, Phase, NextPhase, Rank
<1> QED
  BY <1>1, <1>2

LEMMA ExceptWrites ==
  ASSUME LogTypeOK, NEW i \in Nodes, NEW s \in Seqs, NEW slot,
         slots' = [slots EXCEPT ![i][s] = slot]
  PROVE  WritesSlot(i, s, slot)
  BY DEF WritesSlot, LogTypeOK

\* Writing an undecided slot without changing its view moves it on.
LEMMA WritesAdvance ==
  ASSUME LogTypeOK, NEW i \in Nodes, NEW s \in Seqs, NEW slot,
         slots' = [slots EXCEPT ![i][s] = slot],
         Advanced(slots[i][s], slot),
         UNCHANGED <<view, nextSequence>>
  PROVE  Advances(i, s) /\ slots'[i][s] = slot
<1>1. WritesSlot(i, s, slot)
  BY ExceptWrites
<1>2. slots'[i][s] = slot
  BY <1>1 DEF WritesSlot
<1> QED
  BY <1>1, <1>2 DEF Advances

LEMMA VoteEffect ==
  ASSUME TypeOK, NEW i \in Nodes, NEW m \in Message,
         RecordVote(i, m) \/ FormQC(i, m)
  PROVE  \E s \in Seqs : MovesOn(i, s) \/ DecidesSlot(i, s)
<1> DEFINE s == m.sequence
           slot == slots[i][s]
           counted == [slot EXCEPT !.voters[m.phase] = VotersAfter(i, m)]
<1>1. AcceptsVote(i, m) /\ UNCHANGED <<view, nextSequence>>
  BY DEF RecordVote, FormQC, viewVars
<1>2. s \in Seqs /\ m.phase \in PhaseTag /\ slot \in SlotState /\ LogTypeOK
  BY <1>1, VoteTypes, TypeParts
<1>3. Undecided(slot)
  BY <1>1, <1>2 DEF AcceptsVote, Undecided
<1>4. CASE RecordVote(i, m)
  <2>1. counted.phase = slot.phase /\ counted.view = slot.view
    BY <1>2 DEF SlotState
  <2>3. Rank(slot.phase) <= Rank(slot.phase)
    BY <1>3, Ranks DEF Undecided
  <2>4. Advanced(slot, counted)
    BY <1>3, <2>1, <2>3 DEF Advanced, Undecided, PhaseTag
  <2>2. /\ slots' = [slots EXCEPT ![i][s] = counted]
        /\ UNCHANGED <<pendingPayloads, committed>>
    BY <1>4 DEF RecordVote
  <2> HIDE DEF counted, s
  <2> QED
    BY <1>1, <1>2, <2>2, <2>4, WritesAdvance DEF MovesOn
<1>5. CASE FormQC(i, m)
  <2>1. slots' = [slots EXCEPT ![i][s] = Certified(i, m)]
    BY <1>5 DEF FormQC
  <2>2. /\ Certified(i, m).phase = NextPhase(m.phase)
        /\ Certified(i, m).view = slot.view
    BY <1>2 DEF Certified, SlotState
  <2>3. Advanced(slot, Certified(i, m))
    <3>1. slot.phase = m.phase
      BY <1>1 DEF AcceptsVote
    <3>2. Rank(m.phase) <= Rank(NextPhase(m.phase))
      BY <1>2, Ranks
    <3> QED
      BY <1>2, <1>3, <2>2, <3>1, <3>2, PhaseTypes DEF Advanced
  <2>4. IF m.phase = "Commit" THEN Decide(i, s)
        ELSE UNCHANGED <<committed, pendingPayloads>>
    BY <1>5 DEF FormQC
  <2> HIDE DEF s
  <2>5. Advances(i, s) /\ slots'[i][s] = Certified(i, m)
    BY <1>1, <1>2, <2>1, <2>3, WritesAdvance
  <2>6. CASE m.phase = "Commit"
    BY <1>2, <2>2, <2>4, <2>5, <2>6 DEF DecidesSlot, NextPhase
  <2>7. CASE m.phase # "Commit"
    BY <1>2, <2>4, <2>5, <2>7 DEF MovesOn
  <2> QED
    BY <2>6, <2>7
<1> QED
  BY <1>4, <1>5

LEMMA QCEffect ==
  ASSUME TypeOK, NEW i \in Nodes, NEW m \in Message,
         FollowQC(i, m) \/ DecideByQC(i, m)
  PROVE  \/ UNCHANGED ReplicaVars
         \/ \E s \in Seqs : MovesOn(i, s) \/ DecidesSlot(i, s)
<1> DEFINE s == m.sequence
           slot == slots[i][s]
           next == NextPhase(m.phase)
<1>1. UNCHANGED <<view, nextSequence>>
  BY DEF FollowQC, DecideByQC, viewVars
<1>2. s \in Seqs /\ m.phase \in PhaseTag
  BY MessageFields DEF FollowQC, DecideByQC, AcceptsQC
<1>3. slot \in SlotState /\ LogTypeOK
  BY <1>2, TypeParts DEF LogTypeOK
<1>4. CASE FollowQC(i, m)
  <2> DEFINE new == [slot EXCEPT !.phase = next]
  <2>1. UNCHANGED <<pendingPayloads, committed>>
    BY <1>4 DEF FollowQC
  <2>2. CASE slot.phase = m.phase
    <3>1. slots' = [slots EXCEPT ![i][s] = new]
      BY <1>4, <2>2 DEF FollowQC
    <3>2. new.phase = next /\ new.view = slot.view
      BY <1>3 DEF SlotState
    <3>4. Rank(m.phase) <= Rank(next)
      BY <1>2, Ranks
    <3>3. Advanced(slot, new)
      BY <1>2, <2>2, <3>2, <3>4, PhaseTypes DEF Advanced, Undecided
    <3> HIDE DEF s, new
    <3> QED
      BY <1>1, <1>2, <1>3, <2>1, <3>1, <3>3, WritesAdvance DEF MovesOn
  <2>3. CASE slot.phase # m.phase
    BY <1>1, <1>4, <2>1, <2>3 DEF FollowQC, ReplicaVars
  <2> QED
    BY <2>2, <2>3
<1>5. CASE DecideByQC(i, m)
  <2> DEFINE new == [slot EXCEPT !.phase = "Decided"]
  <2>1. slots' = [slots EXCEPT ![i][s] = new] /\ Decide(i, s)
    BY <1>5 DEF DecideByQC
  <2>2. new.phase = "Decided" /\ new.view = slot.view
    BY <1>3 DEF SlotState
  <2>3. Undecided(slot)
    BY <1>3, <1>5 DEF DecideByQC, Undecided, SlotState, Phase
  <2>5. Rank(slot.phase) <= Rank("Decided")
    BY <2>3, Ranks DEF Undecided
  <2>4. Advanced(slot, new)
    BY <2>2, <2>3, <2>5 DEF Advanced
  <2> HIDE DEF s, new
  <2> QED
    BY <1>1, <1>2, <1>3, <2>1, <2>2, <2>4, WritesAdvance DEF DecidesSlot
<1> QED
  BY <1>4, <1>5

LEMMA HandlerEffect ==
  ASSUME TypeOK, NEW i \in Nodes, NEW m \in Message, HandleMessage(i, m),
         ~HandlePropose(i, m)
  PROVE  QuietEffect
<1>1. CASE RecordVote(i, m) \/ FormQC(i, m)
  BY <1>1, VoteEffect DEF QuietEffect
<1>2. CASE FollowQC(i, m) \/ DecideByQC(i, m)
  BY <1>2, QCEffect DEF QuietEffect
<1>3. CASE IgnoreQC(i, m) \/ CollectNewView(i, m) \/ Discard(i, m)
  <2>1. UNCHANGED ReplicaVars
    BY <1>3 DEF IgnoreQC, CollectNewView, Discard, nodeVars, viewVars,
                logVars, ReplicaVars
  <2> QED
    BY <2>1 DEF QuietEffect
<1>4. CASE BecomeLeader(i, m)
  <2>1. m.newView \in Views /\ m.newView > view[i]
    BY <1>4, MessageFields DEF BecomeLeader, AcceptsNewView
  <2>2. view' = [view EXCEPT ![i] = m.newView]
    BY <1>4 DEF BecomeLeader
  <2>3. /\ view'[i] = m.newView
        /\ \A n \in Nodes \ {i} : view'[n] = view[n]
    BY <2>2, TypeParts DEF ViewTypeOK
  <2>4. Enters(i)
    BY <1>4, <2>1, <2>3 DEF BecomeLeader, Enters
  <2> QED
    BY <2>4 DEF QuietEffect
<1> QED
  BY <1>1, <1>2, <1>3, <1>4 DEF HandleMessage

\* Ticks and the other steps of the cluster leave nodes and slots alone.
LEMMA ClusterEffect ==
  ASSUME [Next]_vars, ~DeliverMessage, ~\E p \in Payloads : ProposeAccepted(p)
  PROVE  UNCHANGED ReplicaVars
  BY DEF Next, ProposeRejected, BeginStep, LoseMessage, Tick, TickQuiet,
         TickCountdown, TickTimeout, ChangeFaults, vars, nodeVars, viewVars,
         logVars, ReplicaVars

-----------------------------------------------------------------------------
(***************************************************************************)
(* Claims.  Claimed(v, s, p) says that payload p stands for number s of    *)
(* view v somewhere: in a proposal under way, in an undecided slot or in a *)
(* commit log.  A number has one claim, because a leader numbers beyond    *)
(* all of them: its counter is never set back, and it never re-enters a    *)
(* view.                                                                   *)
(***************************************************************************)
Offer(e) == e.msg.type = "Propose"

Proposes(e, v, s, p) ==
    /\ Offer(e)
    /\ e.msg.view = v
    /\ e.msg.sequence = s
    /\ e.msg.payload = p

Logged(e, v, s, p) == e.view = v /\ e.sequence = s /\ e.payload = p

Claimed(v, s, p) ==
    \/ \E e \in Envelopes : Proposes(e, v, s, p)
    \/ \E i \in Nodes : view[i] = v /\ pendingPayloads[i][s] = p
    \/ \E i \in Nodes : \E e \in Entries(i) : Logged(e, v, s, p)

SentByLeader == \A e \in Envelopes : Offer(e) => e.from = Leader(e.msg.view)

\* The leader of v has assigned number s in it, or has left it.
Numbered(v, s) ==
    \/ v < view[Leader(v)]
    \/ v = view[Leader(v)] /\ s < nextSequence[Leader(v)]

ClaimsNumbered ==
    \A v \in Views, s \in Seqs, p \in Payload :
        Claimed(v, s, p) => Numbered(v, s)

ClaimsUnique ==
    \A v \in Views, s \in Seqs, p, q \in Payload :
        /\ Claimed(v, s, p)
        /\ Claimed(v, s, q)
        /\ Leader(v) \in NeverEquivocates
        => p = q

ClaimsProposed ==
    \A v \in Views, s \in Seqs, p \in Payload :
        Claimed(v, s, p) /\ Leader(v) \in NeverEquivocates => p \in Proposed

ClaimInv == SentByLeader /\ ClaimsNumbered /\ ClaimsUnique /\ ClaimsProposed

\* Views and the leaders' counters only go up.
Counting ==
    \A n \in Nodes : \/ view'[n] > view[n]
                     \/ /\ view'[n] = view[n]
                        /\ nextSequence'[n] >= nextSequence[n]

NoNewOffer == \A e \in Envelopes' : Offer(e) => e \in Envelopes

\* A number stays assigned.
LEMMA NumberedStays ==
  ASSUME TypeOK, TypeOK', Counting,
         NEW v \in Views, NEW s \in Seqs, Numbered(v, s)
  PROVE  Numbered(v, s)'
<1>1. v \in Nat /\ s \in Nat /\ Leader(v) \in Nodes
  BY LeaderIsNode DEF Views, Seqs
<1>2. ViewTypeOK /\ ViewTypeOK'
  BY TypeParts, PTL
<1>3. /\ view[Leader(v)] \in Nat /\ view'[Leader(v)] \in Nat
      /\ nextSequence[Leader(v)] \in Nat
      /\ nextSequence'[Leader(v)] \in Nat
  BY <1>1, <1>2 DEF ViewTypeOK, Views
<1> QED
  BY <1>1, <1>3 DEF Numbered, Counting

\* A step after which every claim goes back to a claim on the same slot, and
\* to the very same claim where the leader never equivocates.
LEMMA ClaimFrame ==
  ASSUME TypeOK, TypeOK', ClaimInv, Proposed \subseteq Proposed',
         NoNewOffer, Counting,
         \A v \in Views, s \in Seqs, p \in Payload :
           Claimed(v, s, p)' => \E q \in Payload : Claimed(v, s, q),
         \A v \in Views, s \in Seqs, p \in Payload :
           Claimed(v, s, p)' /\ Leader(v) \in NeverEquivocates
             => Claimed(v, s, p)
  PROVE  ClaimInv'
<1>1. SentByLeader'
  BY DEF ClaimInv, SentByLeader, NoNewOffer
<1>2. ClaimsUnique'
  BY DEF ClaimInv, ClaimsUnique
<1>3. ClaimsNumbered'
  BY NumberedStays DEF ClaimInv, ClaimsNumbered
<1>4. ClaimsProposed'
  BY DEF ClaimInv, ClaimsProposed
<1> QED
  BY <1>1, <1>2, <1>3, <1>4 DEF ClaimInv

\* What a decision adds to the logs.
LEMMA DecideEntries ==
  ASSUME LogTypeOK, NEW i \in Nodes, NEW s \in Seqs, Decide(i, s),
         NEW n \in Nodes, NEW e \in Entries(n)'
  PROVE  \/ e \in Entries(n)
         \/ /\ n = i
            /\ Logged(e, view[i], s, pendingPayloads[i][s])
<1> DEFINE p == pendingPayloads[i][s]
           new == [sequence |-> s, payload |-> p, view |-> view[i]]
<1>1. CASE committed'[n] = committed[n]
  BY <1>1 DEF Entries, EntriesOf
<1>2. CASE committed'[n] # committed[n]
  <2>1. n = i /\ committed'[n] = Append(committed[n], new)
    BY <1>2 DEF Decide, LogTypeOK
  <2>2. Logged(new, view[i], s, p)
    BY DEF Logged
  <2> HIDE DEF new, p
  <2>3. /\ Len(committed'[n]) = Len(committed[n]) + 1
        /\ \A k \in 1 .. Len(committed[n]) + 1 :
             committed'[n][k] =
               IF k <= Len(committed[n]) THEN committed[n][k] ELSE new
    BY <2>1 DEF LogTypeOK
  <2>4. e \in Entries(n) \/ e = new
    BY <2>1, <2>3 DEF Entries, EntriesOf
  <2> QED
    BY <2>1, <2>2, <2>4 DEF p
<1> QED
  BY <1>1, <1>2

\* What a handler other than that of a proposal leaves of views, payloads and
\* logs.
LEMMA QuietKeeps ==
  ASSUME TypeOK, QuietEffect
  PROVE  /\ Counting
         /\ \A n \in Nodes : \A s \in Seqs, p \in Payload :
              pendingPayloads'[n][s] = p
                => pendingPayloads[n][s] = p /\ view'[n] = view[n]
         /\ \A n \in Nodes : \A e \in Entries(n)' :
              \/ e \in Entries(n)
              \/ \E s \in Seqs : Logged(e, view[n], s, pendingPayloads[n][s])
<1>1. LogTypeOK /\ ViewTypeOK /\ \A n \in Nodes : nextSequence[n] \in Nat
  <2>1. LogTypeOK /\ ViewTypeOK
    BY TypeParts
  <2> QED
    BY <2>1 DEF ViewTypeOK
<1>2. CASE UNCHANGED <<view, nextSequence, pendingPayloads, committed>>
  BY <1>1, <1>2 DEF Counting, Entries, EntriesOf
<1>3. ASSUME NEW i \in Nodes, NEW t \in Seqs, DecidesSlot(i, t)
      PROVE  /\ Counting
             /\ \A n \in Nodes : \A s \in Seqs, p \in Payload :
                  pendingPayloads'[n][s] = p
                    => pendingPayloads[n][s] = p /\ view'[n] = view[n]
             /\ \A n \in Nodes : \A e \in Entries(n)' :
                  \/ e \in Entries(n)
                  \/ \E s \in Seqs :
                       Logged(e, view[n], s, pendingPayloads[n][s])
  <2>1. UNCHANGED <<view, nextSequence>> /\ Decide(i, t)
    BY <1>3 DEF DecidesSlot, Advances
  <2>2. pendingPayloads' = [pendingPayloads EXCEPT ![i][t] = None]
    BY <2>1 DEF Decide
  <2>3. \A n \in Nodes : \A s \in Seqs, p \in Payload :
          pendingPayloads'[n][s] = p => pendingPayloads[n][s] = p
    BY <1>1, <2>2, HotStuffAssumption DEF LogTypeOK
  <2>4. \A n \in Nodes : \A e \in Entries(n)' :
          \/ e \in Entries(n)
          \/ \E s \in Seqs : Logged(e, view[n], s, pendingPayloads[n][s])
    BY <1>1, <2>1, DecideEntries
  <2> QED
    BY <1>1, <2>1, <2>3, <2>4 DEF Counting
<1>4. ASSUME NEW i \in Nodes, Enters(i)
      PROVE  /\ Counting
             /\ \A n \in Nodes : \A s \in Seqs, p \in Payload :
                  pendingPayloads'[n][s] = p
                    => pendingPayloads[n][s] = p /\ view'[n] = view[n]
             /\ UNCHANGED committed
  <2>1. /\ view'[i] > view[i]
        /\ \A n \in Nodes \ {i} : view'[n] = view[n]
        /\ pendingPayloads' = [pendingPayloads EXCEPT ![i] = NoPayloads]
        /\ UNCHANGED <<nextSequence, committed>>
    BY <1>4 DEF Enters
  <2>2. Counting
    BY <1>1, <2>1 DEF Counting
  <2>3. \A s \in Seqs, p \in Payload : NoPayloads[s] # p
    BY HotStuffAssumption DEF NoPayloads
  <2>4. \A n \in Nodes : \A s \in Seqs, p \in Payload :
          pendingPayloads'[n][s] = p => n # i /\ pendingPayloads[n][s] = p
    BY <1>1, <2>1, <2>3 DEF LogTypeOK
  <2> QED
    BY <2>1, <2>2, <2>4
<1>5. CASE \E i \in Nodes : Enters(i)
  BY <1>4, <1>5 DEF Entries, EntriesOf
<1> QED
  BY <1>2, <1>3, <1>5 DEF QuietEffect, MovesOn, Advances, ReplicaVars

LEMMA QuietClaims ==
  ASSUME TypeOK, TypeOK', ClaimInv, Proposed \subseteq Proposed',
         NoNewOffer, QuietEffect
  PROVE  ClaimInv'
<1>1. ASSUME NEW v \in Views, NEW s \in Seqs, NEW p \in Payload,
             Claimed(v, s, p)'
      PROVE  Claimed(v, s, p)
  <2>1. CASE \E e \in Envelopes' : Proposes(e, v, s, p)
    <3>1. PICK e \in Envelopes' : Proposes(e, v, s, p)
      BY <2>1
    <3> QED
      BY <3>1 DEF Claimed, Proposes, NoNewOffer
  <2>2. CASE \E i \in Nodes : view'[i] = v /\ pendingPayloads'[i][s] = p
    <3>1. PICK i \in Nodes : view'[i] = v /\ pendingPayloads'[i][s] = p
      BY <2>2
    <3>2. view[i] = v /\ pendingPayloads[i][s] = p
      BY <3>1, QuietKeeps
    <3> QED
      BY <3>2 DEF Claimed
  <2>3. CASE \E i \in Nodes : \E e \in Entries(i)' : Logged(e, v, s, p)
    <3>1. PICK i \in Nodes : \E e \in Entries(i)' : Logged(e, v, s, p)
      BY <2>3
    <3>2. PICK e \in Entries(i)' : Logged(e, v, s, p)
      BY <3>1
    <3>3. \/ e \in Entries(i)
          \/ \E t \in Seqs : Logged(e, view[i], t, pendingPayloads[i][t])
      BY <3>2, QuietKeeps
    <3>4. CASE e \in Entries(i)
      BY <3>2, <3>4 DEF Claimed
    <3>5. CASE \E t \in Seqs : Logged(e, view[i], t, pendingPayloads[i][t])
      <4>1. view[i] = v /\ pendingPayloads[i][s] = p
        BY <3>2, <3>5 DEF Logged
      <4> QED
        BY <4>1 DEF Claimed
    <3> QED
      BY <3>3, <3>4, <3>5
  <2> QED
    BY <1>1, <2>1, <2>2, <2>3 DEF Claimed, Proposes, Logged, Offer
<1>2. Counting
  BY QuietKeeps
<1> HIDE DEF Claimed
<1> QED
  BY <1>1, <1>2, ClaimFrame

\* A node takes payload p on for number s of view v, which it may enter.
Takes(i, v, s, p) ==
    /\ v >= view[i]
    /\ view'[i] = v
    /\ slots'[i][s] = PrepareSlot(v, {})
    /\ pendingPayloads'[i][s] = p
    /\ \A t \in Seqs \ {s} :
         \/ /\ v = view[i]
            /\ slots'[i][t] = slots[i][t]
            /\ pendingPayloads'[i][t] = pendingPayloads[i][t]
         \/ /\ v > view[i]
            /\ slots'[i][t] = KeptSlots(i)[t]
            /\ pendingPayloads'[i][t] = None
    /\ \A n \in Nodes \ {i} :
         /\ view'[n] = view[n]
         /\ slots'[n] = slots[n]
         /\ pendingPayloads'[n] = pendingPayloads[n]
    /\ UNCHANGED <<nextSequence, committed>>

LEMMA HandleProposeTakes ==
  ASSUME TypeOK, NEW i \in Nodes, NEW m \in Message, HandlePropose(i, m)
  PROVE  /\ m.type = "Propose"
         /\ m.view \in Views /\ m.sequence \in Seqs /\ m.payload \in Payload
         /\ Takes(i, m.view, m.sequence, m.payload)
<1> DEFINE v == m.view
           s == m.sequence
           enters == v > view[i]
           keptSlots == IF enters THEN KeptSlots(i) ELSE slots[i]
           keptPayloads == IF enters THEN NoPayloads ELSE pendingPayloads[i]
           ss == [keptSlots EXCEPT ![s] = PrepareSlot(v, {})]
           ps == [keptPayloads EXCEPT ![s] = m.payload]
<1>1. /\ m.type = "Propose" /\ v \in Views /\ s \in Seqs
      /\ m.payload \in Payload /\ v >= view[i]
  BY MessageFields DEF HandlePropose, AcceptsPropose
<1>2. LogTypeOK /\ ViewTypeOK /\ view[i] \in Nat /\ v \in Nat
  <2>1. LogTypeOK /\ ViewTypeOK
    BY TypeParts
  <2> QED
    BY <1>1, <2>1 DEF ViewTypeOK, Views
<1>3. /\ view' = [view EXCEPT ![i] = v]
      /\ slots' = [slots EXCEPT ![i] = ss]
      /\ pendingPayloads' = [pendingPayloads EXCEPT ![i] = ps]
      /\ UNCHANGED <<nextSequence, committed>>
  BY DEF HandlePropose
<1>4. DOMAIN keptSlots = Seqs /\ DOMAIN keptPayloads = Seqs
  BY <1>2 DEF KeptSlots, NoPayloads, LogTypeOK
<1>5. /\ ss[s] = PrepareSlot(v, {}) /\ ps[s] = m.payload
      /\ \A t \in Seqs \ {s} : ss[t] = keptSlots[t] /\ ps[t] = keptPayloads[t]
  <2> HIDE DEF keptSlots, keptPayloads
  <2> QED
    BY <1>1, <1>4
<1>6. \A t \in Seqs :
        \/ v = view[i] /\ keptSlots[t] = slots[i][t]
                       /\ keptPayloads[t] = pendingPayloads[i][t]
        \/ v > view[i] /\ keptSlots[t] = KeptSlots(i)[t]
                       /\ keptPayloads[t] = None
  BY <1>1, <1>2 DEF NoPayloads
<1> HIDE DEF ss, ps, keptSlots, keptPayloads
<1>7. /\ view'[i] = v /\ slots'[i] = ss /\ pendingPayloads'[i] = ps
      /\ \A n \in Nodes \ {i} :
           /\ view'[n] = view[n]
           /\ slots'[n] = slots[n]
           /\ pendingPayloads'[n] = pendingPayloads[n]
  BY <1>2, <1>3 DEF LogTypeOK, ViewTypeOK
<1>8. \A t \in Seqs \ {s} :
         \/ /\ v = view[i]
            /\ slots'[i][t] = slots[i][t]
            /\ pendingPayloads'[i][t] = pendingPayloads[i][t]
         \/ /\ v > view[i]
            /\ slots'[i][t] = KeptSlots(i)[t]
            /\ pendingPayloads'[i][t] = None
  BY <1>5, <1>6, <1>7
<1> QED
  BY <1>1, <1>3, <1>5, <1>7, <1>8 DEF Takes

\* A replica takes on the payload of the proposal it is delivered, which is
\* the leader's unless the leader equivocates.
LEMMA HandleProposeClaims ==
  ASSUME TypeOK, TypeOK', ClaimInv, Proposed \subseteq Proposed',
         NEW e \in Envelopes, NEW i \in Nodes, NEW m, m = Tampered(e),
         m \in Message, HandlePropose(i, m), NoNewOffer
  PROVE  ClaimInv'
<1>1. e \in EnvelopeType
  BY EnvelopeFields, TypeParts
<1>2. /\ m.type = "Propose"
      /\ m.view \in Views /\ m.sequence \in Seqs /\ m.payload \in Payload
      /\ Takes(i, m.view, m.sequence, m.payload)
  BY HandleProposeTakes
<1>3. /\ e.msg.type = "Propose"
      /\ m.view = e.msg.view
      /\ m.sequence = e.msg.sequence
      /\ e.from \in NeverEquivocates => m.payload = e.msg.payload
  BY <1>1, <1>2, TamperedKind, TamperedSlot
<1>4. e.from = Leader(m.view)
  BY <1>3 DEF ClaimInv, SentByLeader, Offer
<1>5. e.msg.payload \in Payload
  BY <1>1, <1>3, MessageFields DEF EnvelopeType
<1>6. ASSUME NEW v \in Views, NEW s \in Seqs, NEW p \in Payload,
             Claimed(v, s, p)'
      PROVE  \/ Claimed(v, s, p)
             \/ v = m.view /\ s = m.sequence /\ p = m.payload
  <2>1. CASE \E x \in Envelopes' : Proposes(x, v, s, p)
    <3>1. PICK x \in Envelopes' : Proposes(x, v, s, p)
      BY <2>1
    <3> QED
      BY <3>1 DEF Claimed, Proposes, NoNewOffer
  <2>2. CASE \E n \in Nodes : view'[n] = v /\ pendingPayloads'[n][s] = p
    <3>1. PICK n \in Nodes : view'[n] = v /\ pendingPayloads'[n][s] = p
      BY <2>2
    <3>2. CASE n = i /\ s = m.sequence
      BY <1>2, <3>1, <3>2 DEF Takes
    <3>3. CASE ~(n = i /\ s = m.sequence)
      <4>1. p # None
        BY HotStuffAssumption
      <4>2. view[n] = v /\ pendingPayloads[n][s] = p
        BY <1>2, <3>1, <3>3, <4>1 DEF Takes
      <4> QED
        BY <4>2 DEF Claimed
    <3> QED
      BY <3>2, <3>3
  <2>3. CASE \E n \in Nodes : \E x \in Entries(n)' : Logged(x, v, s, p)
    BY <1>2, <2>3 DEF Entries, EntriesOf, Claimed, Takes
  <2> QED
    BY <1>6, <2>1, <2>2, <2>3 DEF Claimed, Proposes, Logged, Offer
<1>7. Claimed(m.view, m.sequence, e.msg.payload)
  BY <1>3 DEF Claimed, Proposes, Offer
<1>8. \A v \in Views, s \in Seqs, p \in Payload :
         Claimed(v, s, p)' => \E q \in Payload : Claimed(v, s, q)
  BY <1>5, <1>6, <1>7
<1>9. \A v \in Views, s \in Seqs, p \in Payload :
         Claimed(v, s, p)' /\ Leader(v) \in NeverEquivocates
           => Claimed(v, s, p)
  BY <1>3, <1>4, <1>6, <1>7
<1>10. Counting
  <2>1. ViewTypeOK /\ \A n \in Nodes : nextSequence[n] \in Nat
    <3>1. ViewTypeOK
      BY TypeParts
    <3> QED
      BY <3>1 DEF ViewTypeOK
  <2>2. view[i] \in Nat /\ m.view \in Nat
    BY <1>2, <2>1 DEF ViewTypeOK, Views
  <2> QED
    BY <1>2, <2>1, <2>2 DEF Takes, Counting
<1> HIDE DEF Claimed
<1> QED
  BY <1>8, <1>9, <1>10, ClaimFrame

\* What a leader does with a payload it numbers.
Numbers(j, w, t, q) ==
    /\ w = view[j] /\ t = nextSequence[j] /\ Leader(w) = j
    /\ WritesSlot(j, t, PrepareSlot(w, {j}))
    /\ nextSequence'[j] = t + 1
    /\ \A n \in Nodes \ {j} : nextSequence'[n] = nextSequence[n]
    /\ pendingPayloads'[j][t] = q
    /\ \A n \in Nodes, s \in Seqs :
         ~(n = j /\ s = t) => pendingPayloads'[n][s] = pendingPayloads[n][s]
    /\ Enqueue(Broadcast(j, ProposeMsg(w, t, q)))
    /\ UNCHANGED <<view, committed, inflight>>

LEMMA ProposeNumbers ==
  ASSUME TypeOK, NEW p \in Payloads, ProposeAccepted(p)
  PROVE  /\ <<p, 0>> \in Payload
         /\ <<p, 0>> \in Proposed'
         /\ \E j \in Nodes, w \in Views, t \in Seqs :
              Numbers(j, w, t, <<p, 0>>)
<1> DEFINE q == <<p, 0>>
<1>1. q \in Payload /\ q \in Proposed'
  BY TypeParts DEF Payload, ProposeAccepted, Proposed, OutcomeOK
<1>2. PICK j \in Nodes : \E w \in Views, t \in Seqs :
        /\ w = view[j] /\ t = nextSequence[j] /\ Leader(w) = j
        /\ Assign(j, q)
  BY ProposeSends
<1>3. PICK w \in Views, t \in Seqs :
        /\ w = view[j] /\ t = nextSequence[j] /\ Leader(w) = j
        /\ Assign(j, q)
  BY <1>2
<1> HIDE DEF q
<1>4. LogTypeOK /\ ViewTypeOK
  BY TypeParts
<1>5. /\ nextSequence' = [nextSequence EXCEPT ![j] = t + 1]
      /\ slots' = [slots EXCEPT ![j][t] = PrepareSlot(w, {j})]
      /\ pendingPayloads' = [pendingPayloads EXCEPT ![j][t] = q]
      /\ Enqueue(Broadcast(j, ProposeMsg(w, t, q)))
      /\ UNCHANGED <<view, committed, inflight>>
  BY <1>3 DEF Assign, ProposeAccepted
<1>6. WritesSlot(j, t, PrepareSlot(w, {j}))
  BY <1>4, <1>5, ExceptWrites
<1>7. /\ nextSequence'[j] = t + 1
      /\ \A n \in Nodes \ {j} : nextSequence'[n] = nextSequence[n]
      /\ pendingPayloads'[j][t] = q
      /\ \A n \in Nodes, s \in Seqs :
           ~(n = j /\ s = t) => pendingPayloads'[n][s] = pendingPayloads[n][s]
  BY <1>4, <1>5 DEF LogTypeOK, ViewTypeOK
<1>8. Numbers(j, w, t, q)
  BY <1>3, <1>5, <1>6, <1>7 DEF Numbers
<1> QED
  BY <1>1, <1>8 DEF q

LEMMA NumbersCount ==
  ASSUME TypeOK, NEW j \in Nodes, NEW w \in Views, NEW t \in Seqs, NEW q,
         Numbers(j, w, t, q)
  PROVE  Counting /\ ~Numbered(w, t) /\ Numbered(w, t)'
<1>1. /\ t \in Nat /\ w \in Nat
      /\ \A n \in Nodes : nextSequence[n] \in Nat
  BY TypeParts DEF Views, Seqs, ViewTypeOK
<1> QED
  BY <1>1 DEF Numbers, Counting, Numbered

\* The leader gives a payload a number beyond every claim on its view.
LEMMA ProposeClaims ==
  ASSUME TypeOK, TypeOK', ClaimInv, Proposed \subseteq Proposed',
         NEW c \in Payloads, ProposeAccepted(c)
  PROVE  ClaimInv'
<1> DEFINE q == <<c, 0>>
<1>1. PICK j \in Nodes, w \in Views, t \in Seqs : Numbers(j, w, t, q)
  BY ProposeNumbers
<1>2. q \in Payload /\ q \in Proposed'
  BY ProposeNumbers
<1> HIDE DEF q
<1>3. Counting /\ ~Numbered(w, t) /\ Numbered(w, t)'
  BY <1>1, NumbersCount
<1>4. ASSUME NEW e \in Envelopes', Offer(e)
      PROVE  e \in Envelopes \/ (e.from = j /\ e.msg = ProposeMsg(w, t, q))
  <2>1. ProposeMsg(w, t, q) \in Message
    BY <1>2, MessageTypes
  <2>2. /\ Broadcast(j, ProposeMsg(w, t, q)) \in Seq(EnvelopeType)
        /\ \A x \in Range(Broadcast(j, ProposeMsg(w, t, q))) :
             x.from = j /\ x.msg = ProposeMsg(w, t, q)
    BY <2>1, SendType, SendRange DEF Sent
  <2>3. Envelopes' =
          Envelopes \cup Range(Broadcast(j, ProposeMsg(w, t, q)))
    BY <1>1, <2>2, EnqueueEnvelopes DEF Numbers
  <2> QED
    BY <1>4, <2>2, <2>3
<1>5. ASSUME NEW v \in Views, NEW s \in Seqs, NEW p \in Payload,
             Claimed(v, s, p)'
      PROVE  Claimed(v, s, p) \/ (v = w /\ s = t /\ p = q)
  <2>1. CASE \E e \in Envelopes' : Proposes(e, v, s, p)
    <3>1. PICK e \in Envelopes' : Proposes(e, v, s, p)
      BY <2>1
    <3>2. CASE e \in Envelopes
      BY <3>1, <3>2 DEF Claimed
    <3>3. CASE e.msg = ProposeMsg(w, t, q)
      BY <3>1, <3>3 DEF Proposes, ProposeMsg
    <3> QED
      BY <1>4, <3>1, <3>2, <3>3 DEF Proposes
  <2>2. CASE \E n \in Nodes : view'[n] = v /\ pendingPayloads'[n][s] = p
    <3>1. PICK n \in Nodes : view'[n] = v /\ pendingPayloads'[n][s] = p
      BY <2>2
    <3>2. CASE n = j /\ s = t
      BY <1>1, <3>1, <3>2 DEF Numbers
    <3>3. CASE ~(n = j /\ s = t)
      <4>1. view[n] = v /\ pendingPayloads[n][s] = p
        BY <1>1, <3>1, <3>3 DEF Numbers
      <4> QED
        BY <4>1 DEF Claimed
    <3> QED
      BY <3>2, <3>3
  <2>3. CASE \E n \in Nodes : \E x \in Entries(n)' : Logged(x, v, s, p)
    BY <1>1, <2>3 DEF Entries, EntriesOf, Claimed, Numbers
  <2> QED
    BY <1>5, <2>1, <2>2, <2>3 DEF Claimed, Proposes, Logged, Offer
<1>6. SentByLeader'
  <2> SUFFICES ASSUME NEW e \in Envelopes', Offer(e)
               PROVE  e.from = Leader(e.msg.view)
    BY DEF SentByLeader
  <2>1. CASE e \in Envelopes
    BY <2>1 DEF ClaimInv, SentByLeader
  <2>2. CASE e.from = j /\ e.msg = ProposeMsg(w, t, q)
    BY <1>1, <2>2 DEF ProposeMsg, Numbers
  <2> QED
    BY <1>4, <2>1, <2>2
<1> HIDE DEF Claimed
<1>7. ClaimsUnique'
  BY <1>3, <1>5 DEF ClaimInv, ClaimsUnique, ClaimsNumbered
<1>8. ClaimsNumbered'
  BY <1>3, <1>5, NumberedStays DEF ClaimInv, ClaimsNumbered
<1>9. ClaimsProposed'
  BY <1>2, <1>5 DEF ClaimInv, ClaimsProposed
<1> QED
  BY <1>6, <1>7, <1>8, <1>9 DEF ClaimInv

\* No handler makes a proposal: only a client does.
LEMMA HandlersSendNoOffer ==
  ASSUME TypeOK, NEW i \in Nodes, NEW m \in Message, HandleMessage(i, m)
  PROVE  \E out \in Seq(EnvelopeType) :
           Consume(out) /\ \A e \in Range(out) : ~Offer(e)
<1>1. <<>> \in Seq(EnvelopeType) /\ \A e \in Range(<<>>) : ~Offer(e)
  BY EmptySeq, EmptyRange
<1>2. ASSUME NEW x \in Message, x.type # "Propose"
      PROVE  /\ Broadcast(i, x) \in Seq(EnvelopeType)
             /\ \A e \in Range(Broadcast(i, x)) : ~Offer(e)
             /\ \A j \in Nodes : To(i, j, x) \in Seq(EnvelopeType)
             /\ \A j \in Nodes : \A e \in Range(To(i, j, x)) : ~Offer(e)
  BY <1>2, SendType, SendRange DEF Offer, Sent
<1>3. \A v \in Views : Leader(v) \in Nodes
  BY LeaderIsNode DEF Views
<1>4. CASE HandlePropose(i, m)
  <2> DEFINE x == VoteMsg(m.view, m.sequence, m.digest, "Prepare", i)
  <2>1. m.view \in Views /\ x \in Message
    BY <1>4, MessageFields, MessageTypes
       DEF HandlePropose, AcceptsPropose, PhaseTag
  <2>2. x.type = "Vote"
    BY DEF VoteMsg
  <2>3. Consume(To(i, Leader(m.view), x))
    BY <1>4 DEF HandlePropose
  <2> HIDE DEF x
  <2> QED
    BY <1>2, <1>3, <2>1, <2>2, <2>3
<1>5. CASE FormQC(i, m)
  <2> DEFINE x == QCMsg(m.view, m.sequence, m.digest, m.phase,
                        Cardinality(VotersAfter(i, m)))
  <2>1. AcceptsVote(i, m) /\ Consume(Broadcast(i, x))
    BY <1>5 DEF FormQC
  <2>2. Cardinality(VotersAfter(i, m)) \in Nat
    BY <2>1, VoteTypes, NodesFinite, FS_Subset, FS_CardinalityType
  <2>3. x \in Message
    BY <2>1, <2>2, VoteTypes, MessageTypes
  <2>4. x.type = "QuorumCertificate"
    BY DEF QCMsg
  <2> HIDE DEF x
  <2> QED
    BY <1>2, <2>1, <2>3, <2>4
<1>6. CASE FollowQC(i, m)
  <2> DEFINE x == VoteMsg(m.view, m.sequence, m.digest, NextPhase(m.phase), i)
  <2>1. m.view \in Views /\ x \in Message
    BY <1>6, MessageFields, MessageTypes, PhaseTypes
       DEF FollowQC, AcceptsQC
  <2>2. x.type = "Vote"
    BY DEF VoteMsg
  <2>3. Consume(To(i, Leader(m.view), x))
    BY <1>6 DEF FollowQC
  <2> HIDE DEF x
  <2> QED
    BY <1>2, <1>3, <2>1, <2>2, <2>3
<1>7. CASE \/ RecordVote(i, m) \/ IgnoreQC(i, m) \/ DecideByQC(i, m)
           \/ CollectNewView(i, m) \/ BecomeLeader(i, m) \/ Discard(i, m)
  <2>1. Consume(<<>>)
    BY <1>7 DEF RecordVote, IgnoreQC, DecideByQC, CollectNewView,
                BecomeLeader, Discard
  <2> QED
    BY <1>1, <2>1
<1> QED
  BY <1>4, <1>5, <1>6, <1>7 DEF HandleMessage

LEMMA TicksSendNoOffer ==
  ASSUME TypeInv, Tick
  PROVE  /\ UNCHANGED inflight
         /\ \E out \in Seq(EnvelopeType) :
              Enqueue(out) /\ \A e \in Range(out) : ~Offer(e)
<1>1. PICK i \in Nodes : TickQuiet(i) \/ TickCountdown(i) \/ TickTimeout(i)
  BY DEF Tick
<1>2. UNCHANGED inflight
  BY <1>1 DEF TickQuiet, TickCountdown, TickTimeout, TickTurn
<1>3. CASE TickTimeout(i)
  <2> DEFINE v == view[i] + 1
             x == NewViewMsg(v, i)
  <2>1. Enqueue(To(i, Leader(v), x))
    BY <1>3 DEF TickTimeout, TickTurn
  <2>2. v \in Views
    <3>1. view[i] < MaxView
      BY <1>3, TickRoom, SizeAssumption DEF TickTimeout, TickTurn, Nodes
    <3> QED
      BY <3>1, TypeParts, HotStuffAssumption DEF TypeInv, ViewTypeOK, Views
  <2> HIDE DEF v
  <2>3. x \in Message /\ Leader(v) \in Nodes
    BY <2>2, MessageTypes, LeaderIsNode DEF Views
  <2>4. x.type = "NewView"
    BY DEF NewViewMsg
  <2> HIDE DEF x
  <2>5. To(i, Leader(v), x) \in Seq(EnvelopeType)
    BY <2>3, SendType
  <2>6. \A e \in Range(To(i, Leader(v), x)) : e.msg = x
    BY <2>3, SendRange DEF Sent
  <2> QED
    BY <1>2, <2>1, <2>4, <2>5, <2>6 DEF Offer
<1>4. CASE ~TickTimeout(i)
  <2>1. Enqueue(<<>>)
    BY <1>1, <1>4 DEF TickQuiet, TickCountdown, TickTurn
  <2> QED
    BY <1>2, <2>1, EmptySeq, EmptyRange
<1> QED
  BY <1>3, <1>4

LEMMA InitClaims == Init => ClaimInv
<1> SUFFICES ASSUME Init PROVE ClaimInv
  OBVIOUS
<1>1. Envelopes = {}
  BY EmptyRange DEF Init, ClusterInit, Envelopes
<1>2. \A i \in Nodes : Entries(i) = {}
  BY DEF Init, Entries, EntriesOf
<1>3. \A v \in Views, s \in Seqs, p \in Payload : ~Claimed(v, s, p)
  BY <1>1, <1>2, HotStuffAssumption DEF Init, Claimed
<1> HIDE DEF Claimed
<1> QED
  BY <1>1, <1>3 DEF ClaimInv, SentByLeader, ClaimsNumbered, ClaimsUnique,
                    ClaimsProposed

\* Nothing takes a proposal back.
LEMMA ProposedGrows ==
  ASSUME TypeOK, [Next]_vars
  PROVE  Proposed \subseteq Proposed'
<1>1. OutcomeOK
  BY TypeParts
<1>2. \A p \in Payloads : outcome'[p] = "unsent" => outcome[p] = "unsent"
  <2>1. CASE \E p \in Payloads : ProposeAccepted(p) \/ ProposeRejected(p)
    BY <1>1, <2>1 DEF ProposeAccepted, ProposeRejected, OutcomeOK
  <2>2. CASE ~ \E p \in Payloads : ProposeAccepted(p) \/ ProposeRejected(p)
    <3>1. UNCHANGED outcome
      BY <2>2
         DEF Next, BeginStep, LoseMessage, DeliverMessage, HandleMessage,
             HandlePropose, RecordVote, FormQC, IgnoreQC, FollowQC,
             DecideByQC, CollectNewView, BecomeLeader, Discard,
             Tick, TickQuiet, TickCountdown, TickTimeout, ChangeFaults, vars
    <3> QED
      BY <3>1
  <2> QED
    BY <2>1, <2>2
<1> QED
  BY <1>2 DEF Proposed

\* A delivery takes the first message of the queue.
LEMMA DeliveredOnNetwork ==
  ASSUME NetTypeOK, Deliverable
  PROVE  Head(inflight) \in Envelopes
<1>1. inflight # <<>>
  BY DeliveredType
<1> QED
  BY <1>1, HeadTailRange DEF Envelopes, NetTypeOK

\* Only a client's proposal puts an offer on the network.
LEMMA NoOfferSteps ==
  ASSUME TypeInv, [Next]_vars, ~\E p \in Payloads : ProposeAccepted(p)
  PROVE  NoNewOffer
<1>1. TypeOK /\ NetTypeOK
  BY TypeParts DEF TypeInv
<1>2. CASE DeliverMessage
  <2> DEFINE i == Head(inflight).to
             m == Tampered(Head(inflight))
  <2>1. HandleMessage(i, m) /\ inflight # <<>> /\ i \in Nodes /\ m \in Message
    BY <1>1, <1>2, DeliveredType DEF DeliverMessage
  <2> HIDE DEF i, m
  <2>2. PICK out \in Seq(EnvelopeType) :
          Consume(out) /\ \A e \in Range(out) : ~Offer(e)
    BY <1>1, <2>1, HandlersSendNoOffer
  <2> QED
    BY <1>1, <2>1, <2>2, ConsumeEnvelopes DEF NoNewOffer
<1>3. CASE Tick
  <2>1. /\ UNCHANGED inflight
        /\ \E out \in Seq(EnvelopeType) :
             Enqueue(out) /\ \A e \in Range(out) : ~Offer(e)
    BY <1>3, TicksSendNoOffer
  <2>2. PICK out \in Seq(EnvelopeType) :
          Enqueue(out) /\ \A e \in Range(out) : ~Offer(e)
    BY <2>1
  <2> QED
    BY <1>1, <2>1, <2>2, EnqueueEnvelopes DEF NoNewOffer
<1>4. CASE \/ BeginStep \/ LoseMessage \/ ChangeFaults \/ UNCHANGED vars
           \/ \E p \in Payloads : ProposeRejected(p)
  BY <1>1, <1>4, ClusterSends DEF NoNewOffer
<1> QED
  BY <1>2, <1>3, <1>4 DEF Next

LEMMA ClaimStep == TypeInv /\ TypeOK' /\ ClaimInv /\ [Next]_vars => ClaimInv'
<1> SUFFICES ASSUME TypeOK, TypeOK', TypeInv, ClaimInv, [Next]_vars,
                    Proposed \subseteq Proposed'
             PROVE  ClaimInv'
  BY ProposedGrows DEF TypeInv
<1>1. ASSUME NEW p \in Payloads, ProposeAccepted(p)
      PROVE  ClaimInv'
  BY <1>1, ProposeClaims
<1>2. CASE DeliverMessage /\ ~\E p \in Payloads : ProposeAccepted(p)
  <2> DEFINE e == Head(inflight)
             i == e.to
             m == Tampered(e)
  <2>1. /\ HandleMessage(i, m) /\ i \in Nodes /\ m \in Message
        /\ e \in Envelopes
    BY <1>2, DeliveredType, DeliveredOnNetwork, TypeParts DEF DeliverMessage
  <2>2. NoNewOffer
    BY <1>2, NoOfferSteps
  <2>3. m = Tampered(e)
    OBVIOUS
  <2> HIDE DEF e, i, m
  <2>4. CASE HandlePropose(i, m)
    BY <2>1, <2>2, <2>3, <2>4, HandleProposeClaims
  <2>5. CASE ~HandlePropose(i, m)
    BY <2>1, <2>2, <2>5, HandlerEffect, QuietClaims
  <2> QED
    BY <2>4, <2>5
<1>3. CASE ~DeliverMessage /\ ~\E p \in Payloads : ProposeAccepted(p)
  <2>1. UNCHANGED ReplicaVars /\ NoNewOffer
    BY <1>3, ClusterEffect, NoOfferSteps
  <2> QED
    BY <2>1, QuietClaims DEF QuietEffect
<1> QED
  BY <1>1, <1>2, <1>3

-----------------------------------------------------------------------------
(***************************************************************************)
(* Slots.  HasSlot(j, v, s): node j has taken sequence number s of view v  *)
(* on and still keeps it.  A node is never ahead of itself with a slot, an *)
(* undecided slot is one of its current view, and every slot was numbered  *)
(* by its leader.                                                          *)
(***************************************************************************)
HasSlot(j, v, s) == slots[j][s].phase # "Idle" /\ slots[j][s].view = v

SlotsCurrent ==
    \A j \in Nodes : \A s \in Seqs :
        /\ slots[j][s].phase # "Idle" => slots[j][s].view <= view[j]
        /\ Undecided(slots[j][s]) => slots[j][s].view = view[j]

SlotsNumbered ==
    \A j \in Nodes : \A v \in Views, s \in Seqs :
        HasSlot(j, v, s) => Numbered(v, s)

SlotInv == SlotsCurrent /\ SlotsNumbered

\* Node j takes on a slot it does not have, in its view or a later one.
TakesOn(j, s) ==
    \E v \in Views :
        /\ v >= view[j] /\ view'[j] = v
        /\ slots'[j][s].phase = "Prepare" /\ slots'[j][s].view = v
        /\ Numbered(v, s)'
        /\ ~HasSlot(j, v, s)

SlotStep(j, s) ==
    \/ slots'[j][s] = slots[j][s] /\ view'[j] = view[j]
    \/ Advanced(slots[j][s], slots'[j][s]) /\ view'[j] = view[j]
    \/ TakesOn(j, s)
    \/ /\ view'[j] > view[j]
       /\ \/ slots'[j][s] = slots[j][s] /\ slots[j][s].phase = "Decided"
          \/ slots'[j][s] = NoSlot

LEMMA SlotFrame ==
  ASSUME TypeOK, TypeOK', SlotInv, Counting,
         \A j \in Nodes, s \in Seqs : SlotStep(j, s)
  PROVE  SlotInv'
<1>1. LogTypeOK /\ LogTypeOK' /\ ViewTypeOK /\ ViewTypeOK'
  BY TypeParts, PTL
<1>3. Views \subseteq Nat
  BY DEF Views
<1>2. ASSUME NEW j \in Nodes, NEW s \in Seqs
      PROVE  /\ slots'[j][s].phase # "Idle" => slots'[j][s].view <= view'[j]
             /\ Undecided(slots'[j][s]) => slots'[j][s].view = view'[j]
             /\ \A v \in Views :
                  slots'[j][s].phase # "Idle" /\ slots'[j][s].view = v
                    => Numbered(v, s)'
  <2>1. /\ view[j] \in Nat /\ view'[j] \in Nat /\ view[j] \in Views
        /\ slots[j][s] \in SlotState /\ slots'[j][s] \in SlotState
        /\ slots[j][s].view \in Views
    <3>1. /\ slots[j][s] \in SlotState /\ slots'[j][s] \in SlotState
          /\ view[j] \in Views /\ view'[j] \in Views
      BY <1>1 DEF LogTypeOK, ViewTypeOK
    <3> QED
      BY <1>3, <3>1 DEF SlotState
  <2>2. /\ slots[j][s].phase # "Idle" => slots[j][s].view <= view[j]
        /\ Undecided(slots[j][s]) => slots[j][s].view = view[j]
        /\ \A v \in Views : HasSlot(j, v, s) => Numbered(v, s)
    BY DEF SlotInv, SlotsCurrent, SlotsNumbered
  <2>3. \A v \in Views : HasSlot(j, v, s) => Numbered(v, s)'
    BY <2>2, NumberedStays DEF Counting
  <2>4. CASE slots'[j][s] = slots[j][s] /\ view'[j] = view[j]
    BY <2>2, <2>3, <2>4 DEF HasSlot
  <2>5. CASE Advanced(slots[j][s], slots'[j][s]) /\ view'[j] = view[j]
    <3>1. slots[j][s].phase # "Idle"
      BY <2>5 DEF Advanced, Undecided, PhaseTag
    <3> QED
      BY <2>1, <2>2, <2>3, <2>5, <3>1 DEF HasSlot, Advanced
  <2>6. CASE TakesOn(j, s)
    <3>1. PICK v \in Views :
            /\ view'[j] = v /\ slots'[j][s].view = v /\ Numbered(v, s)'
      BY <2>6 DEF TakesOn
    <3> QED
      BY <2>1, <3>1
  <2>7. CASE view'[j] > view[j] /\ slots'[j][s] = NoSlot
    BY <2>7 DEF NoSlot, Undecided, PhaseTag
  <2>8. CASE /\ view'[j] > view[j]
             /\ slots'[j][s] = slots[j][s] /\ slots[j][s].phase = "Decided"
    <3>1. slots[j][s].view <= view[j] /\ slots[j][s].view \in Nat
      BY <1>3, <2>1, <2>2, <2>8
    <3>2. slots'[j][s].view <= view'[j]
      BY <2>1, <2>8, <3>1
    <3> QED
      BY <2>3, <2>8, <3>2 DEF Undecided, HasSlot, PhaseTag
  <2> QED
    BY <2>4, <2>5, <2>6, <2>7, <2>8 DEF SlotStep
<1> QED
  BY <1>2 DEF SlotInv, SlotsCurrent, SlotsNumbered, HasSlot

-----------------------------------------------------------------------------
(***************************************************************************)
(* A node never takes a slot on twice: a proposal is on the network at     *)
(* most once for each receiver, and only until the receiver has its slot.  *)
(* Nothing in the handler keeps a second one from reopening a decided      *)
(* slot.                                                                   *)
(***************************************************************************)
SameOffer(d, e) ==
    /\ Offer(d) /\ Offer(e)
    /\ d.to = e.to
    /\ d.msg.view = e.msg.view
    /\ d.msg.sequence = e.msg.sequence

OffersOnce(q) ==
    \A k, l \in 1 .. Len(q) : SameOffer(q[k], q[l]) => k = l

\* Everything on the network, in the order of delivery.
Queue == inflight \o pending

OffersNew ==
    \A e \in Envelopes :
        Offer(e) => ~HasSlot(e.to, e.msg.view, e.msg.sequence)

OfferInv == OffersOnce(Queue) /\ OffersNew

LEMMA QueueType ==
  ASSUME NetTypeOK
  PROVE  Queue \in Seq(EnvelopeType) /\ Range(Queue) = Envelopes
<1>1. Queue \in Seq(EnvelopeType)
  BY ConcatProperties DEF NetTypeOK, Queue
<1>2. Range(Queue) = Range(inflight) \cup Range(pending)
  BY RangeConcatenation DEF NetTypeOK, Queue
<1> QED
  BY <1>1, <1>2 DEF Envelopes

LEMMA QueueElements ==
  ASSUME NetTypeOK
  PROVE  /\ \A k \in 1 .. Len(Queue) : Queue[k] \in Envelopes
         /\ \A e \in Envelopes : \E k \in 1 .. Len(Queue) : Queue[k] = e
<1>1. Range(Queue) = {Queue[k] : k \in 1 .. Len(Queue)}
  BY QueueType, RangeEquality
<1> QED
  BY <1>1, QueueType

\* Taking the first message off the queue.
LEMMA TailOnce ==
  ASSUME NEW q \in Seq(EnvelopeType), q # <<>>, OffersOnce(q)
  PROVE  /\ OffersOnce(Tail(q))
         /\ \A e \in Range(Tail(q)) : ~SameOffer(q[1], e)
<1>1. /\ Len(q) \in Nat /\ Len(q) >= 1
      /\ Tail(q) \in Seq(EnvelopeType)
      /\ Len(Tail(q)) = Len(q) - 1
      /\ \A k \in 1 .. Len(Tail(q)) : Tail(q)[k] = q[k + 1]
  BY HeadTailProperties, LenProperties
<1>2. OffersOnce(Tail(q))
  <2> SUFFICES ASSUME NEW k \in 1 .. Len(Tail(q)), NEW l \in 1 .. Len(Tail(q)),
                      SameOffer(Tail(q)[k], Tail(q)[l])
               PROVE  k = l
    BY DEF OffersOnce
  <2>1. /\ Tail(q)[k] = q[k + 1] /\ Tail(q)[l] = q[l + 1]
        /\ k + 1 \in 1 .. Len(q) /\ l + 1 \in 1 .. Len(q)
    BY <1>1
  <2>2. k + 1 = l + 1
    BY <2>1 DEF OffersOnce
  <2> QED
    BY <2>2
<1>3. ASSUME NEW e \in Range(Tail(q)), SameOffer(q[1], e)
      PROVE  FALSE
  <2>1. Range(Tail(q)) = {Tail(q)[k] : k \in 1 .. Len(Tail(q))}
    BY <1>1, RangeEquality
  <2>2. PICK k \in 1 .. Len(Tail(q)) : Tail(q)[k] = e
    BY <2>1
  <2>3. e = q[k + 1] /\ k + 1 \in 1 .. Len(q) /\ 1 \in 1 .. Len(q) /\ k + 1 # 1
    BY <1>1, <2>2
  <2> QED
    BY <1>3, <2>3 DEF OffersOnce
<1> QED
  BY <1>2, <1>3

\* Adding messages that repeat no offer.
LEMMA ConcatOnce ==
  ASSUME NEW q \in Seq(EnvelopeType), NEW out \in Seq(EnvelopeType),
         OffersOnce(q), OffersOnce(out),
         \A d \in Range(q), e \in Range(out) :
           ~SameOffer(d, e) /\ ~SameOffer(e, d)
  PROVE  OffersOnce(q \o out)
<1>1. /\ Len(q) \in Nat /\ Len(out) \in Nat
      /\ Len(q \o out) = Len(q) + Len(out)
      /\ \A k \in 1 .. Len(q) + Len(out) :
           (q \o out)[k] = IF k <= Len(q) THEN q[k] ELSE out[k - Len(q)]
  BY ConcatProperties, LenProperties
<1>2. /\ Range(q) = {q[k] : k \in 1 .. Len(q)}
      /\ Range(out) = {out[k] : k \in 1 .. Len(out)}
  BY RangeEquality
<1> SUFFICES ASSUME NEW k \in 1 .. Len(q \o out), NEW l \in 1 .. Len(q \o out),
                    SameOffer((q \o out)[k], (q \o out)[l])
             PROVE  k = l
  BY DEF OffersOnce
<1>3. CASE k <= Len(q) /\ l <= Len(q)
  <2>1. /\ (q \o out)[k] = q[k] /\ (q \o out)[l] = q[l]
        /\ k \in 1 .. Len(q) /\ l \in 1 .. Len(q)
    BY <1>1, <1>3
  <2> QED
    BY <2>1 DEF OffersOnce
<1>4. CASE k > Len(q) /\ l > Len(q)
  <2>1. /\ (q \o out)[k] = out[k - Len(q)] /\ (q \o out)[l] = out[l - Len(q)]
        /\ k - Len(q) \in 1 .. Len(out) /\ l - Len(q) \in 1 .. Len(out)
    BY <1>1, <1>4
  <2>2. k - Len(q) = l - Len(q)
    BY <2>1 DEF OffersOnce
  <2> QED
    BY <1>1, <2>2
<1>5. CASE k <= Len(q) /\ l > Len(q)
  <2>1. (q \o out)[k] \in Range(q) /\ (q \o out)[l] \in Range(out)
    BY <1>1, <1>2, <1>5
  <2> QED
    BY <2>1
<1>6. CASE k > Len(q) /\ l <= Len(q)
  <2>1. (q \o out)[k] \in Range(out) /\ (q \o out)[l] \in Range(q)
    BY <1>1, <1>2, <1>6
  <2> QED
    BY <2>1
<1> QED
  BY <1>1, <1>3, <1>4, <1>5, <1>6

\* Messages of other kinds repeat no offer.
LEMMA SilentOnce ==
  ASSUME NEW q \in Seq(EnvelopeType), NEW out \in Seq(EnvelopeType),
         OffersOnce(q), \A e \in Range(out) : ~Offer(e)
  PROVE  OffersOnce(q \o out)
<1>1. Range(out) = {out[k] : k \in 1 .. Len(out)}
  BY RangeEquality
<1>2. OffersOnce(out)
  BY <1>1 DEF OffersOnce, SameOffer
<1> QED
  BY <1>2, ConcatOnce DEF SameOffer

\* The peers of a node are distinct, so that a broadcast offers once.
LEMMA BroadcastOnce ==
  ASSUME NEW i \in Nodes, NEW m \in Message
  PROVE  OffersOnce(Broadcast(i, m))
<1>1. Len(Broadcast(i, m)) = N - 1
  BY SizeAssumption DEF Broadcast
<1>2. \A k, l \in 1 .. N - 1 : Peer(i, k) = Peer(i, l) => k = l
  BY SizeAssumption DEF Peer, Nodes
<1> QED
  BY <1>1, <1>2 DEF OffersOnce, SameOffer, Broadcast, Envelope

LEMMA HeadOfConcat ==
  ASSUME NEW S, NEW s \in Seq(S), NEW t \in Seq(S), s # <<>>
  PROVE  /\ Tail(s) \in Seq(S)
         /\ Tail(s \o t) = Tail(s) \o t
         /\ s \o t # <<>> /\ (s \o t)[1] = Head(s)
<1>1. /\ Len(s) \in Nat /\ Len(s) >= 1 /\ Len(t) \in Nat
      /\ Head(s) = s[1]
      /\ Tail(s) \in Seq(S)
      /\ Len(Tail(s)) = Len(s) - 1
      /\ \A k \in 1 .. Len(Tail(s)) : Tail(s)[k] = s[k + 1]
  BY HeadTailProperties, LenProperties
<1>2. /\ s \o t \in Seq(S)
      /\ Len(s \o t) = Len(s) + Len(t)
      /\ \A k \in 1 .. Len(s) + Len(t) :
           (s \o t)[k] = IF k <= Len(s) THEN s[k] ELSE t[k - Len(s)]
  BY ConcatProperties
<1>3. s \o t # <<>> /\ (s \o t)[1] = Head(s)
  BY <1>1, <1>2
<1>4. /\ Tail(s \o t) \in Seq(S)
      /\ Len(Tail(s \o t)) = Len(s) + Len(t) - 1
      /\ \A k \in 1 .. Len(Tail(s \o t)) :
           Tail(s \o t)[k] = (s \o t)[k + 1]
  BY <1>2, <1>3, HeadTailProperties
<1>5. /\ Tail(s) \o t \in Seq(S)
      /\ Len(Tail(s) \o t) = Len(s) - 1 + Len(t)
      /\ \A k \in 1 .. Len(s) - 1 + Len(t) :
           (Tail(s) \o t)[k] =
             IF k <= Len(s) - 1 THEN Tail(s)[k] ELSE t[k - (Len(s) - 1)]
  BY <1>1, ConcatProperties
<1>6. ASSUME NEW k \in 1 .. Len(Tail(s \o t))
      PROVE  Tail(s \o t)[k] = (Tail(s) \o t)[k]
  BY <1>1, <1>2, <1>4, <1>5
<1>7. Tail(s \o t) = Tail(s) \o t
  BY <1>1, <1>4, <1>5, <1>6, SeqEqual
<1> QED
  BY <1>1, <1>3, <1>7

LEMMA QueueParts ==
  \A s, t \in Seq(EnvelopeType) :
    /\ Range(s \o t) = Range(s) \cup Range(t)
    /\ \A u \in Seq(EnvelopeType) : (s \o t) \o u = s \o (t \o u)
<1>1. ASSUME NEW s \in Seq(EnvelopeType), NEW t \in Seq(EnvelopeType)
      PROVE  Range(s \o t) = Range(s) \cup Range(t)
  BY RangeConcatenation
<1>2. ASSUME NEW s \in Seq(EnvelopeType), NEW t \in Seq(EnvelopeType),
             NEW u \in Seq(EnvelopeType)
      PROVE  (s \o t) \o u = s \o (t \o u)
  BY ConcatAssociative
<1> QED
  BY <1>1, <1>2

\* What the steps of the network do to the queue.
LEMMA QueueSteps ==
  ASSUME NetTypeOK, NetTypeOK'
  PROVE  /\ StartStep => Queue' = Queue
         /\ Lose => inflight # <<>> /\ Queue' = Tail(Queue)
         /\ \A out \in Seq(EnvelopeType) :
              /\ inflight # <<>> /\ Consume(out) => Queue' = Tail(Queue) \o out
              /\ UNCHANGED inflight /\ Enqueue(out) => Queue' = Queue \o out
         /\ inflight # <<>> => Queue # <<>> /\ Queue[1] = Head(inflight)
<1>1. /\ inflight \in Seq(EnvelopeType) /\ pending \in Seq(EnvelopeType)
  BY DEF NetTypeOK
<1>2. StartStep => Queue' = Queue
  BY <1>1, ConcatEmptySeq DEF StartStep, Idle, Queue
<1>3. ASSUME inflight # <<>>
      PROVE  /\ Tail(Queue) = Tail(inflight) \o pending
             /\ Tail(inflight) \in Seq(EnvelopeType)
             /\ Queue # <<>> /\ Queue[1] = Head(inflight)
  BY <1>1, <1>3, HeadOfConcat DEF Queue
<1>4. Lose => inflight # <<>> /\ Queue' = Tail(Queue)
  BY <1>3 DEF Lose, Queue
<1>5. ASSUME NEW out \in Seq(EnvelopeType), inflight # <<>>, Consume(out)
      PROVE  Queue' = Tail(Queue) \o out
  <2>1. Queue' = Tail(inflight) \o (pending \o out)
    BY <1>5 DEF Consume, Enqueue, Queue
  <2>2. (Tail(inflight) \o pending) \o out = Tail(inflight) \o (pending \o out)
    BY <1>1, <1>3, <1>5, QueueParts
  <2> QED
    BY <1>3, <1>5, <2>1, <2>2
<1>6. ASSUME NEW out \in Seq(EnvelopeType), UNCHANGED inflight, Enqueue(out)
      PROVE  Queue' = Queue \o out
  <2>1. Queue' = inflight \o (pending \o out)
    BY <1>6 DEF Enqueue, Queue
  <2>2. (inflight \o pending) \o out = inflight \o (pending \o out)
    BY <1>1, <1>6, QueueParts
  <2> QED
    BY <2>1, <2>2 DEF Queue
<1> QED
  BY <1>2, <1>3, <1>4, <1>5, <1>6

\* A message of the queue keeps offering each slot at most once when the
\* first one is taken off and when others than offers are added.
LEMMA QueueOnce ==
  ASSUME TypeOK, TypeOK', OffersOnce(Queue)
  PROVE  /\ StartStep => OffersOnce(Queue')
         /\ Lose => OffersOnce(Queue')
         /\ \A out \in Seq(EnvelopeType) :
              (\A e \in Range(out) : ~Offer(e)) =>
                /\ inflight # <<>> /\ Consume(out) => OffersOnce(Queue')
                /\ UNCHANGED inflight /\ Enqueue(out) => OffersOnce(Queue')
<1>1. NetTypeOK /\ NetTypeOK'
  BY TypeParts, PTL
<1>2. Queue \in Seq(EnvelopeType)
  BY <1>1, QueueType
<1>3. ASSUME inflight # <<>>
      PROVE  Tail(Queue) \in Seq(EnvelopeType) /\ OffersOnce(Tail(Queue))
  <2>1. Queue # <<>>
    BY <1>1, <1>3, QueueSteps
  <2> QED
    BY <1>2, <2>1, TailOnce, HeadTailProperties
<1>4. (StartStep => OffersOnce(Queue')) /\ (Lose => OffersOnce(Queue'))
  BY <1>1, <1>3, QueueSteps
<1>5. ASSUME NEW out \in Seq(EnvelopeType), \A e \in Range(out) : ~Offer(e),
             inflight # <<>>, Consume(out)
      PROVE  OffersOnce(Queue')
  BY <1>1, <1>3, <1>5, QueueSteps, SilentOnce
<1>6. ASSUME NEW out \in Seq(EnvelopeType), \A e \in Range(out) : ~Offer(e),
             UNCHANGED inflight, Enqueue(out)
      PROVE  OffersOnce(Queue')
  BY <1>1, <1>2, <1>6, QueueSteps, SilentOnce
<1> QED
  BY <1>4, <1>5, <1>6

\* A step that sends no offer and takes no slot on.
LEMMA OfferFrame ==
  ASSUME OfferInv, OffersOnce(Queue'),
         \A e \in Envelopes' : Offer(e) => e \in Envelopes /\ e.to \in Nodes
           /\ e.msg.view \in Views /\ e.msg.sequence \in Seqs,
         \A n \in Nodes, v \in Views, s \in Seqs :
           HasSlot(n, v, s)' => HasSlot(n, v, s)
  PROVE  OfferInv'
<1>1. OffersNew'
  <2> SUFFICES ASSUME NEW e \in Envelopes', Offer(e)
               PROVE  ~HasSlot(e.to, e.msg.view, e.msg.sequence)'
    BY DEF OffersNew
  <2>1. PICK n, v, s : n = e.to /\ v = e.msg.view /\ s = e.msg.sequence
    OBVIOUS
  <2>2. n \in Nodes /\ v \in Views /\ s \in Seqs /\ e \in Envelopes
    BY <2>1
  <2>3. ~HasSlot(n, v, s)
    BY <2>1, <2>2 DEF OfferInv, OffersNew
  <2>4. ~HasSlot(n, v, s)'
    BY <2>2, <2>3
  <2> QED
    BY <2>1, <2>4
<1> QED
  BY <1>1 DEF OfferInv

\* What an offer on the network looks like.
LEMMA OfferFields ==
  ASSUME NetTypeOK, NEW e \in Envelopes, Offer(e)
  PROVE  /\ e.to \in Nodes
         /\ e.msg.view \in Views
         /\ e.msg.sequence \in Seqs
  BY EnvelopeFields, MessageFields DEF Offer, EnvelopeType

\* Votes, certificates and view changes take no slot on.
LEMMA QuietSlots ==
  ASSUME TypeOK, QuietEffect
  PROVE  /\ Counting
         /\ \A j \in Nodes, s \in Seqs : SlotStep(j, s)
         /\ \A n \in Nodes, v \in Views, t \in Seqs :
              HasSlot(n, v, t)' => HasSlot(n, v, t)
<1>1. Counting
  BY QuietKeeps
<1>2. CASE UNCHANGED ReplicaVars
  BY <1>1, <1>2 DEF ReplicaVars, SlotStep, HasSlot
<1>3. ASSUME NEW i \in Nodes, NEW s \in Seqs, Advances(i, s)
      PROVE  /\ \A j \in Nodes, t \in Seqs : SlotStep(j, t)
             /\ \A n \in Nodes, v \in Views, t \in Seqs :
                  HasSlot(n, v, t)' => HasSlot(n, v, t)
  <2>1. /\ Advanced(slots[i][s], slots'[i][s])
        /\ WritesSlot(i, s, slots'[i][s])
        /\ UNCHANGED view
    BY <1>3 DEF Advances
  <2>2. \A j \in Nodes, t \in Seqs :
          slots'[j][t] = slots[j][t] \/ (j = i /\ t = s)
    BY <2>1 DEF WritesSlot
  <2>3. \A j \in Nodes, t \in Seqs : SlotStep(j, t)
    BY <2>1, <2>2 DEF SlotStep
  <2>4. \A v \in Views : HasSlot(i, v, s)' => HasSlot(i, v, s)
    BY <2>1 DEF HasSlot, Advanced, Undecided, PhaseTag
  <2> QED
    BY <2>2, <2>3, <2>4 DEF HasSlot
<1>4. ASSUME NEW i \in Nodes, Enters(i)
      PROVE  /\ \A j \in Nodes, t \in Seqs : SlotStep(j, t)
             /\ \A n \in Nodes, v \in Views, t \in Seqs :
                  HasSlot(n, v, t)' => HasSlot(n, v, t)
  <2>1. LogTypeOK
    BY TypeParts
  <2>2. /\ view'[i] > view[i]
        /\ \A n \in Nodes \ {i} : view'[n] = view[n]
        /\ slots' = [slots EXCEPT ![i] = KeptSlots(i)]
    BY <1>4 DEF Enters
  <2>3. /\ slots'[i] = KeptSlots(i)
        /\ \A n \in Nodes \ {i} : slots'[n] = slots[n]
    BY <2>1, <2>2 DEF LogTypeOK
  <2>4. \A t \in Seqs :
          \/ slots'[i][t] = slots[i][t] /\ slots[i][t].phase = "Decided"
          \/ slots'[i][t] = NoSlot
    BY <2>3 DEF KeptSlots
  <2>5. \A j \in Nodes, t \in Seqs : SlotStep(j, t)
    BY <2>2, <2>3, <2>4 DEF SlotStep
  <2>6. \A n \in Nodes, t \in Seqs :
          slots'[n][t] = slots[n][t] \/ slots'[n][t] = NoSlot
    BY <2>3, <2>4
  <2>7. \A n \in Nodes, v \in Views, t \in Seqs :
          HasSlot(n, v, t)' => HasSlot(n, v, t)
    BY <2>6, SlotPhases DEF HasSlot
  <2> QED
    BY <2>5, <2>7
<1>5. CASE \E i \in Nodes, s \in Seqs : Advances(i, s)
  BY <1>1, <1>3, <1>5
<1>6. CASE \E i \in Nodes : Enters(i)
  BY <1>1, <1>4, <1>6
<1> QED
  BY <1>2, <1>5, <1>6 DEF QuietEffect, MovesOn, DecidesSlot

\* A replica takes a slot on that it does not have, and consumes the only
\* proposal of it.
LEMMA HandleProposeSlots ==
  ASSUME TypeOK, TypeOK', ClaimInv, SlotInv, OfferInv, Deliverable,
         NEW i \in Nodes, NEW m, i = Head(inflight).to,
         m = Tampered(Head(inflight)), HandlePropose(i, m)
  PROVE  /\ Counting
         /\ \A j \in Nodes, s \in Seqs : SlotStep(j, s)
         /\ OfferInv'
<1> DEFINE e == Head(inflight)
           v == m.view
           s == m.sequence
<1>1. /\ NetTypeOK /\ NetTypeOK'
      /\ inflight # <<>> /\ e \in EnvelopeType /\ m \in Message
  <2>1. NetTypeOK /\ NetTypeOK'
    BY TypeParts, PTL
  <2> QED
    BY <2>1, DeliveredType
<1>2. e \in Envelopes
  BY <1>1, HeadTailRange DEF Envelopes, NetTypeOK
<1>3. /\ m.type = "Propose" /\ v \in Views /\ s \in Seqs
      /\ Takes(i, v, s, m.payload)
  BY <1>1, HandleProposeTakes
<1>4. Offer(e) /\ v = e.msg.view /\ s = e.msg.sequence /\ e.to = i
  BY <1>1, <1>3, TamperedKind, TamperedSlot DEF Offer
<1>5. ~HasSlot(i, v, s)
  BY <1>2, <1>4 DEF OfferInv, OffersNew
<1>6. Counting
  <2>1. ViewTypeOK
    BY TypeParts
  <2>2. /\ \A n \in Nodes : nextSequence[n] \in Nat
        /\ view[i] \in Nat /\ v \in Nat
    BY <1>3, <2>1 DEF ViewTypeOK, Views
  <2> QED
    BY <1>3, <2>2 DEF Takes, Counting
<1>7. Numbered(v, s) /\ Numbered(v, s)'
  <2>1. e.msg.payload \in Payload
    BY <1>1, <1>4, MessageFields DEF Offer, EnvelopeType
  <2>2. Claimed(v, s, e.msg.payload)
    BY <1>2, <1>4 DEF Claimed, Proposes
  <2>3. Numbered(v, s)
    BY <1>3, <2>1, <2>2 DEF ClaimInv, ClaimsNumbered
  <2> QED
    BY <1>3, <1>6, <2>3, NumberedStays
<1> HIDE DEF e, v, s
<1>8. /\ slots'[i][s].phase = "Prepare" /\ slots'[i][s].view = v
      /\ view'[i] = v /\ v >= view[i]
  BY <1>3 DEF Takes, PrepareSlot
<1>9. \A t \in Seqs \ {s} :
        \/ v = view[i] /\ slots'[i][t] = slots[i][t]
        \/ /\ v > view[i]
           /\ \/ slots'[i][t] = slots[i][t] /\ slots[i][t].phase = "Decided"
              \/ slots'[i][t] = NoSlot
  BY <1>3 DEF Takes, KeptSlots
<1>10. \A n \in Nodes \ {i} : view'[n] = view[n] /\ slots'[n] = slots[n]
  BY <1>3 DEF Takes
<1>11. \A j \in Nodes, t \in Seqs : SlotStep(j, t)
  <2>1. TakesOn(i, s)
    BY <1>3, <1>5, <1>7, <1>8 DEF TakesOn
  <2>2. \A t \in Seqs \ {s} : SlotStep(i, t)
    BY <1>8, <1>9 DEF SlotStep
  <2>3. \A j \in Nodes \ {i}, t \in Seqs : SlotStep(j, t)
    BY <1>10 DEF SlotStep
  <2> QED
    BY <2>1, <2>2, <2>3 DEF SlotStep
<1>12. PICK out \in Seq(EnvelopeType) :
         Consume(out) /\ \A x \in Range(out) : ~Offer(x)
  BY <1>1, HandlersSendNoOffer DEF HandleMessage
<1>13. OffersOnce(Queue')
  BY <1>1, <1>12, QueueOnce DEF OfferInv
<1>14. ASSUME NEW x \in Envelopes', Offer(x)
       PROVE  x \in Envelopes /\ ~SameOffer(e, x)
  <2>1. Queue \in Seq(EnvelopeType) /\ Queue # <<>> /\ Queue[1] = e
    BY <1>1, QueueType, QueueSteps DEF e
  <2>2. Queue' = Tail(Queue) \o out /\ Tail(Queue) \in Seq(EnvelopeType)
    BY <1>1, <1>12, <2>1, QueueSteps, HeadTailProperties
  <2>3. Range(Queue)' = Envelopes' /\ Range(Queue) = Envelopes
    <3>1. (Range(Queue) = Envelopes)'
      BY <1>1, QueueType, PTL
    <3> QED
      BY <1>1, <3>1, QueueType
  <2>4. Range(Tail(Queue) \o out) = Range(Tail(Queue)) \cup Range(out)
    BY <2>2, QueueParts
  <2>5. x \in Range(Tail(Queue))
    BY <1>12, <1>14, <2>2, <2>3, <2>4
  <2> QED
    BY <2>1, <2>3, <2>5, TailOnce, HeadTailRange DEF OfferInv
<1>15. \A n \in Nodes, w \in Views, t \in Seqs :
         HasSlot(n, w, t)' => HasSlot(n, w, t) \/ (n = i /\ w = v /\ t = s)
  <2> SUFFICES ASSUME NEW n \in Nodes, NEW w \in Views, NEW t \in Seqs,
                      HasSlot(n, w, t)', ~(n = i /\ w = v /\ t = s)
               PROVE  HasSlot(n, w, t)
    OBVIOUS
  <2>1. CASE n # i
    BY <1>10, <2>1 DEF HasSlot
  <2>2. CASE n = i /\ t # s
    BY <1>9, <2>2, SlotPhases DEF HasSlot
  <2>3. CASE n = i /\ t = s
    BY <1>8, <2>3 DEF HasSlot
  <2> QED
    BY <2>1, <2>2, <2>3
<1>16. OffersNew'
  <2> SUFFICES ASSUME NEW x \in Envelopes', Offer(x)
               PROVE  ~HasSlot(x.to, x.msg.view, x.msg.sequence)'
    BY DEF OffersNew
  <2>1. PICK n, w, t : n = x.to /\ w = x.msg.view /\ t = x.msg.sequence
    OBVIOUS
  <2>2. x \in Envelopes /\ ~SameOffer(e, x)
    BY <1>14
  <2>3. n \in Nodes /\ w \in Views /\ t \in Seqs
    BY <1>1, <2>1, <2>2, OfferFields
  <2>4. ~HasSlot(n, w, t)
    BY <2>1, <2>2 DEF OfferInv, OffersNew
  <2>5. ~(n = i /\ w = v /\ t = s)
    BY <1>4, <2>1, <2>2 DEF SameOffer
  <2>6. ~HasSlot(n, w, t)'
    BY <1>15, <2>3, <2>4, <2>5
  <2> QED
    BY <2>1, <2>6
<1> QED
  BY <1>6, <1>11, <1>13, <1>16 DEF OfferInv

\* A leader numbers a payload beyond every slot and every offer of its view.
LEMMA ProposeSlots ==
  ASSUME TypeOK, TypeOK', ClaimInv, SlotInv, OfferInv,
         NEW p \in Payloads, ProposeAccepted(p)
  PROVE  /\ Counting
         /\ \A j \in Nodes, s \in Seqs : SlotStep(j, s)
         /\ OfferInv'
<1> DEFINE q == <<p, 0>>
<1>1. PICK j \in Nodes, w \in Views, t \in Seqs : Numbers(j, w, t, q)
  BY ProposeNumbers
<1>2. q \in Payload
  BY ProposeNumbers
<1> HIDE DEF q
<1> DEFINE offers == Broadcast(j, ProposeMsg(w, t, q))
<1>3. NetTypeOK /\ NetTypeOK'
  BY TypeParts, PTL
<1>4. Counting /\ ~Numbered(w, t) /\ Numbered(w, t)'
  BY <1>1, NumbersCount
<1>5. /\ w = view[j] /\ UNCHANGED <<view, inflight>>
      /\ WritesSlot(j, t, PrepareSlot(w, {j}))
      /\ Enqueue(offers)
  BY <1>1 DEF Numbers
<1>6. \A n \in Nodes : ~HasSlot(n, w, t)
  BY <1>4 DEF SlotInv, SlotsNumbered
<1>7. /\ slots'[j][t].phase = "Prepare" /\ slots'[j][t].view = w
      /\ \A n \in Nodes, s \in Seqs :
           ~(n = j /\ s = t) => slots'[n][s] = slots[n][s]
  BY <1>5 DEF WritesSlot, PrepareSlot
<1>8. \A n \in Nodes, s \in Seqs : SlotStep(n, s)
  <2>1. w >= view[j]
    <3>1. w \in Nat
      BY DEF Views
    <3> QED
      BY <1>5, <3>1
  <2>2. TakesOn(j, t)
    BY <1>4, <1>5, <1>6, <1>7, <2>1 DEF TakesOn
  <2> QED
    BY <1>5, <1>7, <2>2 DEF SlotStep
<1>9. /\ offers \in Seq(EnvelopeType)
      /\ OffersOnce(offers)
      /\ \A e \in Range(offers) :
           /\ Offer(e) /\ e.to \in Nodes \ {j}
           /\ e.msg.view = w /\ e.msg.sequence = t
  <2>1. ProposeMsg(w, t, q) \in Message
    BY <1>2, MessageTypes
  <2>2. /\ ProposeMsg(w, t, q).type = "Propose"
        /\ ProposeMsg(w, t, q).view = w
        /\ ProposeMsg(w, t, q).sequence = t
    BY DEF ProposeMsg
  <2>3. \A e \in Range(offers) :
          e.msg = ProposeMsg(w, t, q) /\ e.to \in Nodes \ {j}
    <3>1. \A e \in Range(offers) :
            Sent(e, j, ProposeMsg(w, t, q)) /\ e.to # j
      BY SendRange
    <3> HIDE DEF offers
    <3> QED
      BY <3>1 DEF Sent
  <2> QED
    BY <2>1, <2>2, <2>3, SendType, BroadcastOnce DEF Offer
<1> HIDE DEF offers
<1>10. \A e \in Envelopes : Offer(e) => ~(e.msg.view = w /\ e.msg.sequence = t)
  <2> SUFFICES ASSUME NEW e \in Envelopes, Offer(e),
                      e.msg.view = w, e.msg.sequence = t
               PROVE  FALSE
    OBVIOUS
  <2>1. e.msg.payload \in Payload
    BY <1>3, EnvelopeFields, MessageFields DEF Offer
  <2>2. Claimed(w, t, e.msg.payload)
    BY DEF Claimed, Proposes
  <2> QED
    BY <1>4, <2>1, <2>2 DEF ClaimInv, ClaimsNumbered
<1>11. OffersOnce(Queue')
  <2>1. Queue \in Seq(EnvelopeType) /\ Range(Queue) = Envelopes
    BY <1>3, QueueType
  <2>2. OffersOnce(Queue \o offers)
    BY <1>9, <1>10, <2>1, ConcatOnce DEF OfferInv, SameOffer
  <2>3. Queue' = Queue \o offers
    BY <1>3, <1>5, <1>9, QueueSteps
  <2> QED
    BY <2>2, <2>3
<1>12. Envelopes' = Envelopes \cup Range(offers)
  BY <1>5, <1>9, EnqueueEnvelopes
<1>13. OffersNew'
  <2> SUFFICES ASSUME NEW e \in Envelopes', Offer(e)
               PROVE  ~HasSlot(e.to, e.msg.view, e.msg.sequence)'
    BY DEF OffersNew
  <2>1. PICK n, v, s : n = e.to /\ v = e.msg.view /\ s = e.msg.sequence
    OBVIOUS
  <2>2. CASE e \in Envelopes
    <3>1. n \in Nodes /\ v \in Views /\ s \in Seqs /\ ~HasSlot(n, v, s)
      BY <1>3, <2>1, <2>2, OfferFields DEF OfferInv, OffersNew
    <3>2. ~(v = w /\ s = t)
      BY <1>10, <2>1, <2>2
    <3> QED
      BY <1>7, <2>1, <3>1, <3>2 DEF HasSlot
  <2>3. CASE e \in Range(offers)
    <3>1. n \in Nodes \ {j} /\ v = w /\ s = t
      BY <1>9, <2>1, <2>3
    <3>2. slots'[n][s] = slots[n][s] /\ ~HasSlot(n, v, s)
      BY <1>6, <1>7, <3>1
    <3> QED
      BY <2>1, <3>2 DEF HasSlot
  <2> QED
    BY <1>12, <2>2, <2>3
<1> QED
  BY <1>4, <1>8, <1>11, <1>13 DEF OfferInv

\* How slots change, whatever the step.
LEMMA SlotSteps ==
  ASSUME TypeInv, TypeOK', ClaimInv, SlotInv, OfferInv, [Next]_vars
  PROVE  /\ Counting
         /\ \A j \in Nodes, s \in Seqs : SlotStep(j, s)
         /\ OfferInv'
<1>1. TypeOK /\ NetTypeOK
  BY TypeParts DEF TypeInv
<1>2. ASSUME NEW p \in Payloads, ProposeAccepted(p)
      PROVE  /\ Counting
             /\ \A j \in Nodes, s \in Seqs : SlotStep(j, s)
             /\ OfferInv'
  BY <1>1, <1>2, ProposeSlots
<1>3. ASSUME QuietEffect, OffersOnce(Queue'),
             ~\E p \in Payloads : ProposeAccepted(p)
      PROVE  /\ Counting
             /\ \A j \in Nodes, s \in Seqs : SlotStep(j, s)
             /\ OfferInv'
  <2>1. \A e \in Envelopes' : Offer(e) => e \in Envelopes
    BY <1>3, NoOfferSteps DEF NoNewOffer
  <2> QED
    BY <1>1, <1>3, <2>1, QuietSlots, OfferFields, OfferFrame
<1>4. CASE DeliverMessage /\ ~\E p \in Payloads : ProposeAccepted(p)
  <2> DEFINE i == Head(inflight).to
             m == Tampered(Head(inflight))
  <2>1. /\ Deliverable /\ HandleMessage(i, m)
        /\ inflight # <<>> /\ i \in Nodes /\ m \in Message
    BY <1>1, <1>4, DeliveredType DEF DeliverMessage
  <2>2. i = Head(inflight).to /\ m = Tampered(Head(inflight))
    OBVIOUS
  <2> HIDE DEF i, m
  <2>3. CASE HandlePropose(i, m)
    BY <1>1, <2>1, <2>2, <2>3, HandleProposeSlots
  <2>4. CASE ~HandlePropose(i, m)
    <3>1. QuietEffect
      BY <1>1, <2>1, <2>4, HandlerEffect
    <3>2. PICK out \in Seq(EnvelopeType) :
            Consume(out) /\ \A x \in Range(out) : ~Offer(x)
      BY <1>1, <2>1, HandlersSendNoOffer
    <3>3. OffersOnce(Queue')
      BY <1>1, <2>1, <3>2, QueueOnce DEF OfferInv
    <3> QED
      BY <1>3, <1>4, <3>1, <3>3
  <2> QED
    BY <2>3, <2>4
<1>5. CASE ~DeliverMessage /\ ~\E p \in Payloads : ProposeAccepted(p)
  <2>1. QuietEffect
    BY <1>5, ClusterEffect DEF QuietEffect
  <2>2. CASE Tick
    <3>1. /\ UNCHANGED inflight
          /\ \E out \in Seq(EnvelopeType) :
               Enqueue(out) /\ \A e \in Range(out) : ~Offer(e)
      BY <2>2, TicksSendNoOffer
    <3>2. PICK out \in Seq(EnvelopeType) :
            Enqueue(out) /\ \A e \in Range(out) : ~Offer(e)
      BY <3>1
    <3>3. OffersOnce(Queue')
      BY <1>1, <3>1, <3>2, QueueOnce DEF OfferInv
    <3> QED
      BY <1>3, <1>5, <2>1, <3>3
  <2>3. CASE BeginStep \/ LoseMessage
    <3>1. OffersOnce(Queue')
      BY <1>1, <2>3, QueueOnce DEF BeginStep, LoseMessage, OfferInv
    <3> QED
      BY <1>3, <1>5, <2>1, <3>1
  <2>4. CASE ~Tick /\ ~BeginStep /\ ~LoseMessage
    <3>1. UNCHANGED <<inflight, pending>>
      BY <1>5, <2>4 DEF Next, ChangeFaults, SetFaults, vars, clusterVars,
                        ProposeRejected
    <3>2. OffersOnce(Queue')
      BY <3>1 DEF Queue, OfferInv
    <3> QED
      BY <1>3, <1>5, <2>1, <3>2
  <2> QED
    BY <2>2, <2>3, <2>4
<1> QED
  BY <1>2, <1>4, <1>5

-----------------------------------------------------------------------------
(***************************************************************************)
(* The invariant of slots holds in every run.                              *)
(***************************************************************************)
SafeInv == TypeInv /\ ClaimInv /\ SlotInv /\ OfferInv

LEMMA InitSafe == Init => SafeInv
<1> SUFFICES ASSUME Init PROVE SafeInv
  OBVIOUS
<1>1. TypeInv /\ ClaimInv
  BY InitType, InitClaims
<1>2. \A n \in Nodes, s \in Seqs : slots[n][s].phase = "Idle"
  BY SlotPhases DEF Init
<1>3. SlotInv
  BY <1>2 DEF SlotInv, SlotsCurrent, SlotsNumbered, HasSlot, Undecided, PhaseTag
<1>4. Envelopes = {} /\ Queue = <<>>
  BY EmptyRange, EmptySeq, ConcatEmptySeq
     DEF Init, ClusterInit, Envelopes, Queue
<1>5. OfferInv
  BY <1>4 DEF OfferInv, OffersOnce, OffersNew
<1> QED
  BY <1>1, <1>3, <1>5 DEF SafeInv

LEMMA SafeStep == SafeInv /\ [Next]_vars => SafeInv'
<1> SUFFICES ASSUME SafeInv, [Next]_vars, TypeInv', TypeOK'
             PROVE  SafeInv'
  BY TypeStep DEF SafeInv, TypeInv
<1>1. TypeOK /\ TypeInv /\ ClaimInv /\ SlotInv /\ OfferInv
  BY DEF SafeInv, TypeInv
<1>2. /\ Counting
      /\ \A j \in Nodes, s \in Seqs : SlotStep(j, s)
      /\ OfferInv'
  BY <1>1, SlotSteps
<1>3. SlotInv'
  BY <1>1, <1>2, SlotFrame
<1>4. ClaimInv'
  BY <1>1, ClaimStep
<1> QED
  BY <1>2, <1>3, <1>4 DEF SafeInv

\* What a node has decided in a view stays decided until it enters a later
\* view: a proposal delivered a second time would reopen the slot, and
\* nothing in the handler prevents it, but no proposal is.
THEOREM DecisionsStay == Spec => DecidedStays
<1> DEFINE Stays ==
      \A i \in Nodes : \A s \in Seqs :
         slots[i][s].phase = "Decided" /\ view'[i] = view[i]
           => \/ slots'[i][s] = slots[i][s]
              \/ slots[i][s].view < view[i]
<1>1. SafeInv /\ SafeInv' /\ [Next]_vars => Stays
  <2> SUFFICES ASSUME SafeInv, SafeInv', [Next]_vars,
                      NEW i \in Nodes, NEW s \in Seqs,
                      slots[i][s].phase = "Decided", view'[i] = view[i]
               PROVE  \/ slots'[i][s] = slots[i][s]
                      \/ slots[i][s].view < view[i]
    OBVIOUS
  <2>1. TypeInv /\ TypeOK /\ TypeOK' /\ ClaimInv /\ SlotInv /\ OfferInv
    BY DEF SafeInv, TypeInv
  <2>2. LogTypeOK /\ ViewTypeOK
    BY <2>1, TypeParts
  <2>3. view[i] \in Nat /\ slots[i][s].view \in Nat
    BY <2>2 DEF ViewTypeOK, LogTypeOK, Views, SlotState
  <2>4. SlotStep(i, s)
    BY <2>1, SlotSteps
  <2>5. slots[i][s].view <= view[i]
    BY <2>1 DEF SlotInv, SlotsCurrent
  <2>6. TakesOn(i, s) => slots[i][s].view # view[i]
    BY DEF TakesOn, HasSlot
  <2> QED
    BY <2>3, <2>4, <2>5, <2>6 DEF SlotStep, Advanced, Undecided, PhaseTag
<1>2. SafeInv /\ SafeInv' /\ [Next]_vars => [Stays]_vars
  BY <1>1
<1> HIDE DEF Stays
<1>3. Spec => [][Stays]_vars
  BY <1>2, InitSafe, SafeStep, PTL DEF Spec
<1> QED
  BY <1>3 DEF Stays, DecidedStays

-----------------------------------------------------------------------------
(***************************************************************************)
(* Commits.  An entry of the current view is a decided slot, so that no  *)
(* number of a view is committed twice.                                    *)
(***************************************************************************)
EntriesHeld ==
    \A i \in Nodes : \A k \in 1 .. Len(committed[i]) :
        LET e == committed[i][k] IN
        /\ e.view <= view[i]
        /\ e.view = view[i] =>
             /\ slots[i][e.sequence].phase = "Decided"
             /\ slots[i][e.sequence].view = e.view

EntriesOnce ==
    \A i \in Nodes : \A k, l \in 1 .. Len(committed[i]) :
        /\ committed[i][k].view = committed[i][l].view
        /\ committed[i][k].sequence = committed[i][l].sequence
        => k = l

EntryInv == EntriesHeld /\ EntriesOnce

\* The step in which node i commits entry e.
Decides(i, e) ==
    /\ e \in CommittedEntry
    /\ e.view = view[i]
    /\ pendingPayloads[i][e.sequence] = e.payload
    /\ Undecided(slots[i][e.sequence])
    /\ slots'[i][e.sequence].phase = "Decided"
    /\ Advanced(slots[i][e.sequence], slots'[i][e.sequence])
    /\ UNCHANGED view
    /\ committed' = [committed EXCEPT ![i] = Append(committed[i], e)]

LEMMA DecideDecides ==
  ASSUME TypeOK, NEW i \in Nodes, NEW s \in Seqs, DecidesSlot(i, s)
  PROVE  UNCHANGED committed \/ \E e : Decides(i, e)
<1> DEFINE p == pendingPayloads[i][s]
           e == [sequence |-> s, payload |-> p, view |-> view[i]]
<1>1. LogTypeOK /\ ViewTypeOK
  BY TypeParts
<1>2. /\ Advanced(slots[i][s], slots'[i][s])
      /\ slots'[i][s].phase = "Decided"
      /\ UNCHANGED view
      /\ Decide(i, s)
  BY DEF DecidesSlot, Advances
<1>3. CASE p # None
  <2>1. committed' = [committed EXCEPT ![i] = Append(committed[i], e)]
    BY <1>2, <1>3 DEF Decide
  <2>2. e \in CommittedEntry
    <3>1. p \in Payload /\ view[i] \in Views
      BY <1>1, <1>3 DEF LogTypeOK, ViewTypeOK
    <3> QED
      BY <3>1 DEF CommittedEntry
  <2>3. e.sequence = s /\ e.payload = p /\ e.view = view[i]
    OBVIOUS
  <2> HIDE DEF e
  <2> QED
    BY <1>2, <2>1, <2>2, <2>3 DEF Decides, Advanced
<1>4. CASE p = None
  BY <1>2, <1>4 DEF Decide
<1> QED
  BY <1>3, <1>4

LEMMA LogSteps ==
  ASSUME TypeOK, [Next]_vars
  PROVE  UNCHANGED committed \/ \E i \in Nodes : \E e : Decides(i, e)
<1>1. ASSUME QuietEffect
      PROVE  UNCHANGED committed \/ \E i \in Nodes : \E e : Decides(i, e)
  BY <1>1, DecideDecides DEF QuietEffect, ReplicaVars, MovesOn, Enters
<1>2. CASE DeliverMessage
  <2> DEFINE i == Head(inflight).to
             m == Tampered(Head(inflight))
  <2>1. HandleMessage(i, m) /\ i \in Nodes /\ m \in Message
    BY <1>2, DeliveredType, TypeParts DEF DeliverMessage
  <2> HIDE DEF i, m
  <2>2. CASE HandlePropose(i, m)
    BY <2>2 DEF HandlePropose
  <2>3. CASE ~HandlePropose(i, m)
    BY <1>1, <2>1, <2>3, HandlerEffect
  <2> QED
    BY <2>2, <2>3
<1>3. CASE \E p \in Payloads : ProposeAccepted(p)
  BY <1>3 DEF ProposeAccepted
<1>4. CASE ~DeliverMessage /\ ~\E p \in Payloads : ProposeAccepted(p)
  BY <1>4, ClusterEffect DEF ReplicaVars
<1> QED
  BY <1>2, <1>3, <1>4

LEMMA EntryStep ==
  ASSUME TypeOK, TypeOK', SlotInv, EntryInv, [Next]_vars, Counting,
         \A j \in Nodes, s \in Seqs : SlotStep(j, s)
  PROVE  EntryInv'
<1>1. LogTypeOK /\ LogTypeOK' /\ ViewTypeOK /\ ViewTypeOK'
  BY TypeParts, PTL
<1>2. \A n \in Nodes : view[n] \in Nat /\ view'[n] \in Nat
  BY <1>1 DEF ViewTypeOK, Views
<1>3. ASSUME NEW n \in Nodes, NEW e \in CommittedEntry,
             e.view <= view[n],
             e.view = view[n] => /\ slots[n][e.sequence].phase = "Decided"
                                 /\ slots[n][e.sequence].view = e.view
      PROVE  /\ e.view <= view'[n]
             /\ e.view = view'[n] =>
                  /\ slots'[n][e.sequence].phase = "Decided"
                  /\ slots'[n][e.sequence].view = e.view
  <2>1. e.view \in Nat /\ e.sequence \in Seqs
    BY DEF CommittedEntry, Views
  <2>2. PICK s \in Seqs : s = e.sequence
    BY <2>1
  <2>3. SlotStep(n, s) /\ Counting
    OBVIOUS
  <2>4. e.view <= view'[n] /\ (e.view = view'[n] => view'[n] = view[n])
    BY <1>2, <1>3, <2>1 DEF Counting
  <2>5. ASSUME e.view = view'[n]
        PROVE  slots'[n][s].phase = "Decided" /\ slots'[n][s].view = e.view
    <3>1. view'[n] = view[n] /\ slots[n][s].phase = "Decided"
          /\ slots[n][s].view = view[n]
      BY <1>3, <2>2, <2>4, <2>5
    <3>2. slots'[n][s] = slots[n][s]
      BY <1>2, <2>3, <3>1
         DEF SlotStep, TakesOn, Advanced, HasSlot, Undecided, PhaseTag
    <3> QED
      BY <2>5, <3>1, <3>2
  <2> QED
    BY <2>2, <2>4, <2>5
<1>4. \A n \in Nodes : \A k \in 1 .. Len(committed[n]) :
        committed[n][k] \in CommittedEntry
  BY <1>1, ElementOfSeq DEF LogTypeOK
<1>5. CASE UNCHANGED committed
  <2>1. EntriesHeld'
    BY <1>3, <1>4, <1>5 DEF EntryInv, EntriesHeld
  <2> QED
    BY <1>5, <2>1 DEF EntryInv, EntriesOnce
<1>6. CASE \E i \in Nodes : \E e : Decides(i, e)
  <2>1. PICK i \in Nodes : \E e : Decides(i, e)
    BY <1>6
  <2>2. PICK e : Decides(i, e)
    BY <2>1
  <2>3. /\ e \in CommittedEntry /\ e.sequence \in Seqs
        /\ e.view = view[i] /\ view'[i] = view[i]
        /\ Undecided(slots[i][e.sequence])
        /\ slots'[i][e.sequence].phase = "Decided"
        /\ slots'[i][e.sequence].view = slots[i][e.sequence].view
    BY <2>2 DEF Decides, CommittedEntry, Advanced
  <2>4. slots'[i][e.sequence].view = e.view
    BY <2>3 DEF SlotInv, SlotsCurrent
  <2>5. \A n \in Nodes \ {i} : committed'[n] = committed[n]
    BY <1>1, <2>2 DEF Decides, LogTypeOK
  <2>6. /\ Len(committed'[i]) = Len(committed[i]) + 1
        /\ Len(committed[i]) \in Nat
        /\ \A k \in 1 .. Len(committed[i]) : committed'[i][k] = committed[i][k]
        /\ committed'[i][Len(committed[i]) + 1] = e
    <3>1. committed'[i] = Append(committed[i], e)
      BY <1>1, <2>2 DEF Decides, LogTypeOK
    <3>2. committed[i] \in Seq(CommittedEntry)
      BY <1>1 DEF LogTypeOK
    <3> QED
      BY <2>3, <3>1, <3>2, AppendProperties, LenProperties
  <2>7. \A k \in 1 .. Len(committed[i]) :
          ~(/\ committed[i][k].view = e.view
            /\ committed[i][k].sequence = e.sequence)
    BY <2>3 DEF EntryInv, EntriesHeld, Undecided, PhaseTag
  <2>8. EntriesHeld'
    <3> SUFFICES ASSUME NEW n \in Nodes, NEW k \in 1 .. Len(committed'[n])
                 PROVE  LET x == committed'[n][k] IN
                        /\ x.view <= view'[n]
                        /\ x.view = view'[n] =>
                             /\ slots'[n][x.sequence].phase = "Decided"
                             /\ slots'[n][x.sequence].view = x.view
      BY DEF EntriesHeld
    <3>1. CASE n = i /\ k = Len(committed[i]) + 1
      BY <1>2, <2>3, <2>4, <2>6, <3>1
    <3>2. CASE ~(n = i /\ k = Len(committed[i]) + 1)
      <4>1. k \in 1 .. Len(committed[n]) /\ committed'[n][k] = committed[n][k]
        BY <2>5, <2>6, <3>2
      <4> QED
        BY <1>3, <1>4, <4>1 DEF EntryInv, EntriesHeld
    <3> QED
      BY <3>1, <3>2
  <2>9. EntriesOnce'
    <3> SUFFICES ASSUME NEW n \in Nodes, NEW k \in 1 .. Len(committed'[n]),
                        NEW l \in 1 .. Len(committed'[n]),
                        committed'[n][k].view = committed'[n][l].view,
                        committed'[n][k].sequence = committed'[n][l].sequence
                 PROVE  k = l
      BY DEF EntriesOnce
    <3>1. CASE n # i
      BY <2>5, <3>1 DEF EntryInv, EntriesOnce
    <3>2. CASE n = i /\ k <= Len(committed[i]) /\ l <= Len(committed[i])
      <4>1. /\ k \in 1 .. Len(committed[i]) /\ l \in 1 .. Len(committed[i])
            /\ committed'[n][k] = committed[i][k]
            /\ committed'[n][l] = committed[i][l]
        BY <2>6, <3>2
      <4> QED
        BY <4>1 DEF EntryInv, EntriesOnce
    <3>3. CASE n = i /\ ~(k <= Len(committed[i]) /\ l <= Len(committed[i]))
      <4>1. \A x \in 1 .. Len(committed'[i]) :
              x <= Len(committed[i]) =>
                ~(/\ committed'[i][x].view = e.view
                  /\ committed'[i][x].sequence = e.sequence)
        BY <2>6, <2>7
      <4>2. \A x \in 1 .. Len(committed'[i]) :
              ~(x <= Len(committed[i])) =>
                x = Len(committed[i]) + 1 /\ committed'[i][x] = e
        BY <2>6
      <4>3. CASE ~(k <= Len(committed[i]))
        BY <3>3, <4>1, <4>2, <4>3
      <4>4. CASE ~(l <= Len(committed[i]))
        BY <3>3, <4>1, <4>2, <4>4
      <4> QED
        BY <3>3, <4>3, <4>4
    <3> QED
      BY <3>1, <3>2, <3>3
  <2> QED
    BY <2>8, <2>9 DEF EntryInv
<1> QED
  BY <1>5, <1>6, LogSteps

-----------------------------------------------------------------------------
(***************************************************************************)
(* HotStuff implements Consensus: a commit is a delivery, everything else at   *)
(* most a proposal.                                                        *)
(***************************************************************************)
ConsensusInv == SafeInv /\ EntryInv

LEMMA InitConsensus == Init => ConsensusInv
<1> SUFFICES ASSUME Init PROVE ConsensusInv
  OBVIOUS
<1>1. \A n \in Nodes : Len(committed[n]) = 0
  BY EmptySeq DEF Init
<1>2. EntryInv
  BY <1>1 DEF EntryInv, EntriesHeld, EntriesOnce
<1> QED
  BY <1>2, InitSafe DEF ConsensusInv

LEMMA ConsensusStep == ConsensusInv /\ [Next]_vars => ConsensusInv'
<1> SUFFICES ASSUME ConsensusInv, [Next]_vars, SafeInv', TypeOK'
             PROVE  ConsensusInv'
  BY SafeStep DEF ConsensusInv, SafeInv, TypeInv
<1>1. TypeOK /\ TypeInv /\ ClaimInv /\ SlotInv /\ OfferInv /\ EntryInv
  BY DEF ConsensusInv, SafeInv, TypeInv
<1>2. Counting /\ \A j \in Nodes, s \in Seqs : SlotStep(j, s)
  BY <1>1, SlotSteps
<1>3. EntryInv'
  BY <1>1, <1>2, EntryStep
<1> QED
  BY <1>3 DEF ConsensusInv

AllEntries == UNION {Entries(n) : n \in Nodes}

Chosen == {Decision(e) : e \in AllEntries}

\* The step that commits an entry adds it to one log.
LEMMA DecidesEntries ==
  ASSUME LogTypeOK, NEW i \in Nodes, NEW e, Decides(i, e)
  PROVE  /\ Entries(i)' = Entries(i) \cup {e}
         /\ \A n \in Nodes \ {i} : Entries(n)' = Entries(n)
<1>1. /\ e \in CommittedEntry /\ committed \in [Nodes -> Seq(CommittedEntry)]
      /\ committed' = [committed EXCEPT ![i] = Append(committed[i], e)]
  BY DEF Decides, LogTypeOK
<1>2. /\ committed'[i] = Append(committed[i], e)
      /\ \A n \in Nodes \ {i} : committed'[n] = committed[n]
      /\ DOMAIN committed' = Nodes
  BY <1>1
<1>3. /\ Len(committed[i]) \in Nat
      /\ DOMAIN committed[i] = 1 .. Len(committed[i])
      /\ DOMAIN committed'[i] = 1 .. Len(committed[i]) + 1
      /\ \A k \in 1 .. Len(committed[i]) : committed'[i][k] = committed[i][k]
      /\ committed'[i][Len(committed[i]) + 1] = e
  <2>1. /\ committed[i] \in Seq(CommittedEntry)
        /\ committed'[i] \in Seq(CommittedEntry)
        /\ Len(committed'[i]) = Len(committed[i]) + 1
        /\ \A k \in 1 .. Len(committed[i]) : committed'[i][k] = committed[i][k]
        /\ committed'[i][Len(committed[i]) + 1] = e
    BY <1>1, <1>2, AppendProperties
  <2> QED
    BY <2>1, LenProperties
<1>4. /\ Entries(i)' = Entries(i) \cup {e}
      /\ \A n \in Nodes \ {i} : Entries(n)' = Entries(n)
  <2>1. Entries(i)' = Entries(i) \cup {e}
    <3>1. /\ Entries(i) = {committed[i][k] : k \in 1 .. Len(committed[i])}
          /\ Entries(i)' = {committed'[i][k] : k \in 1 .. Len(committed[i]) + 1}
      BY <1>3 DEF Entries, EntriesOf
    <3>2. \A k \in 1 .. Len(committed[i]) + 1 :
            k \in 1 .. Len(committed[i]) \/ k = Len(committed[i]) + 1
      BY <1>3
    <3>3. /\ Len(committed[i]) + 1 \in 1 .. Len(committed[i]) + 1
          /\ 1 .. Len(committed[i]) \subseteq 1 .. Len(committed[i]) + 1
      BY <1>3
    <3> QED
      BY <1>3, <3>1, <3>2, <3>3
  <2> QED
    BY <1>2, <2>1 DEF Entries, EntriesOf
<1> QED
  BY <1>4

\* It adds it to what is chosen, too.
LEMMA DecidesLogs ==
  ASSUME LogTypeOK, NEW i \in Nodes, NEW e, Decides(i, e)
  PROVE  /\ Chosen' = Chosen \cup {Decision(e)}
         /\ Delivered' = [Delivered EXCEPT ![i] = Append(@, Decision(e))]
         /\ Delivered[i] \in Seq({Decision(x) : x \in CommittedEntry})
<1>1. /\ e \in CommittedEntry /\ committed \in [Nodes -> Seq(CommittedEntry)]
      /\ committed' = [committed EXCEPT ![i] = Append(committed[i], e)]
  BY DEF Decides, LogTypeOK
<1>2. /\ committed'[i] = Append(committed[i], e)
      /\ \A n \in Nodes \ {i} : committed'[n] = committed[n]
      /\ DOMAIN committed' = Nodes
  BY <1>1
<1>3. /\ Len(committed[i]) \in Nat
      /\ DOMAIN committed[i] = 1 .. Len(committed[i])
      /\ DOMAIN committed'[i] = 1 .. Len(committed[i]) + 1
      /\ \A k \in 1 .. Len(committed[i]) : committed'[i][k] = committed[i][k]
      /\ committed'[i][Len(committed[i]) + 1] = e
  <2>1. /\ committed[i] \in Seq(CommittedEntry)
        /\ committed'[i] \in Seq(CommittedEntry)
        /\ Len(committed'[i]) = Len(committed[i]) + 1
        /\ \A k \in 1 .. Len(committed[i]) : committed'[i][k] = committed[i][k]
        /\ committed'[i][Len(committed[i]) + 1] = e
    BY <1>1, <1>2, AppendProperties
  <2> QED
    BY <2>1, LenProperties
<1>4. /\ Entries(i)' = Entries(i) \cup {e}
      /\ \A n \in Nodes \ {i} : Entries(n)' = Entries(n)
  BY DecidesEntries
<1>5. AllEntries' = AllEntries \cup {e}
  BY <1>4 DEF AllEntries
<1>6. Chosen' = Chosen \cup {Decision(e)}
  BY <1>5 DEF Chosen, Decision
<1> DEFINE old == [k \in 1 .. Len(committed[i]) |-> Decision(committed[i][k])]
           new == [k \in 1 .. Len(committed[i]) + 1 |->
                     Decision(committed'[i][k])]
<1>7. Delivered[i] = old /\ Delivered'[i] = new
  BY <1>3 DEF Delivered, Decision
<1>8. old \in Seq({Decision(x) : x \in CommittedEntry}) /\ Len(old) = Len(committed[i])
  <2>1. \A k \in 1 .. Len(committed[i]) : committed[i][k] \in CommittedEntry
    BY <1>1, ElementOfSeq
  <2> QED
    BY <1>3, <2>1, SeqDef
<1>9. new = Append(old, Decision(e))
  <2>1. new \in Seq({Decision(x) : x \in CommittedEntry})
        /\ Len(new) = Len(committed[i]) + 1
    <3>1. \A k \in 1 .. Len(committed[i]) + 1 :
            committed'[i][k] \in CommittedEntry
      <4>1. \A k \in 1 .. Len(committed[i]) : committed[i][k] \in CommittedEntry
        BY <1>1, ElementOfSeq
      <4> QED
        BY <1>1, <1>3, <4>1
    <3> QED
      BY <1>3, <3>1, SeqDef
  <2>2. /\ Append(old, Decision(e)) \in Seq({Decision(x) : x \in CommittedEntry})
        /\ Len(Append(old, Decision(e))) = Len(old) + 1
        /\ \A k \in 1 .. Len(old) : Append(old, Decision(e))[k] = old[k]
        /\ Append(old, Decision(e))[Len(old) + 1] = Decision(e)
    <3>1. Decision(e) \in {Decision(x) : x \in CommittedEntry}
      BY <1>1
    <3> HIDE DEF old
    <3> QED
      BY <1>8, <3>1, AppendProperties
  <2>3. ASSUME NEW k \in 1 .. Len(new)
        PROVE  new[k] = Append(old, Decision(e))[k]
    <3>1. CASE k = Len(committed[i]) + 1
      BY <1>3, <1>8, <2>1, <2>2, <3>1
    <3>2. CASE k # Len(committed[i]) + 1
      <4>1. k \in 1 .. Len(committed[i]) /\ k \in 1 .. Len(committed[i]) + 1
        BY <1>3, <2>1, <3>2
      <4>2. new[k] = Decision(committed[i][k]) /\ old[k] = Decision(committed[i][k])
        BY <1>3, <4>1
      <4> HIDE DEF new, old
      <4> QED
        BY <1>8, <2>2, <4>1, <4>2
    <3> QED
      BY <3>1, <3>2
  <2> HIDE DEF old, new
  <2> QED
    BY <1>8, <2>1, <2>2, <2>3, SeqEqual
<1>10. \A n \in Nodes \ {i} : Delivered'[n] = Delivered[n]
  BY <1>2 DEF Delivered, Decision
<1>11. Delivered' = [Delivered EXCEPT ![i] = Append(@, Decision(e))]
  <2>1. DOMAIN Delivered = Nodes /\ DOMAIN Delivered' = Nodes
    BY DEF Delivered
  <2>2. Delivered' = [n \in Nodes |-> Delivered'[n]]
        /\ Delivered = [n \in Nodes |-> Delivered[n]]
    BY DEF Delivered
  <2> HIDE DEF old, new
  <2> QED
    BY <1>7, <1>9, <1>10, <2>1, <2>2
<1> QED
  BY <1>6, <1>7, <1>8, <1>11

\* What a node may commit, Consensus lets it deliver.
LEMMA DecidesDelivers ==
  ASSUME TypeOK, ConsensusInv, NEW i \in Nodes, NEW e, Decides(i, e),
         UNCHANGED Proposed
  PROVE  Abstract!Deliver(i, Decision(e))
<1> DEFINE d == Decision(e)
<1>1. /\ TypeOK /\ LogTypeOK /\ ViewTypeOK
      /\ ClaimInv /\ SlotInv /\ EntriesHeld
  BY TypeParts DEF ConsensusInv, SafeInv, EntryInv
<1>2. /\ e \in CommittedEntry /\ e.view = view[i]
      /\ e.view \in Views /\ e.sequence \in Seqs /\ e.payload \in Payload
      /\ pendingPayloads[i][e.sequence] = e.payload
      /\ Undecided(slots[i][e.sequence])
  BY DEF Decides, CommittedEntry
<1>3. /\ Chosen' = Chosen \cup {d}
      /\ Delivered' = [Delivered EXCEPT ![i] = Append(@, d)]
  BY <1>1, DecidesLogs
<1>4. Claimed(e.view, e.sequence, e.payload)
  BY <1>2 DEF Claimed
<1>5. d.slot = <<e.view, e.sequence>> /\ d.payload = e.payload
  BY DEF Decision
<1>6. d.slot \in TrustedSlots => Leader(e.view) \in NeverEquivocates
  BY <1>5 DEF TrustedSlots
<1>7. d.slot \in TrustedSlots => d.payload \in Proposed
  BY <1>1, <1>2, <1>4, <1>5, <1>6 DEF ClaimInv, ClaimsProposed
<1>8. ASSUME NEW c \in Chosen, c.slot = d.slot, d.slot \in TrustedSlots
      PROVE  c.payload = d.payload
  <2>1. PICK n \in Nodes : \E x \in Entries(n) : c = Decision(x)
    BY DEF Chosen, AllEntries
  <2>2. PICK x \in Entries(n) : c = Decision(x)
    BY <2>1
  <2>3. x \in CommittedEntry
    BY <1>1, <2>2, ElementOfSeq, LenProperties
       DEF LogTypeOK, Entries, EntriesOf
  <2>4. /\ x.view = e.view /\ x.sequence = e.sequence
        /\ c.payload = x.payload /\ x.payload \in Payload
    BY <1>5, <1>8, <2>2, <2>3 DEF Decision, CommittedEntry
  <2>5. Claimed(e.view, e.sequence, x.payload)
    BY <2>2, <2>4 DEF Claimed, Logged
  <2> QED
    BY <1>1, <1>2, <1>4, <1>5, <1>6, <1>8, <2>4, <2>5
       DEF ClaimInv, ClaimsUnique
<1>9. ASSUME NEW k \in DOMAIN Delivered[i]
      PROVE  Delivered[i][k].slot # d.slot
  <2>1. /\ DOMAIN Delivered[i] = 1 .. Len(committed[i])
        /\ Delivered[i][k] = Decision(committed[i][k])
    BY <1>1, <1>9, LenProperties DEF Delivered, LogTypeOK
  <2>2. Delivered[i][k].slot = <<committed[i][k].view, committed[i][k].sequence>>
    BY <2>1 DEF Decision
  <2>3. ~(/\ committed[i][k].view = e.view
          /\ committed[i][k].sequence = e.sequence)
    BY <1>1, <1>2, <1>9, <2>1 DEF EntriesHeld, Undecided, PhaseTag
  <2> QED
    BY <1>5, <2>2, <2>3
<1>10. Abstract!Choosable(d) /\ Abstract!NotYetDelivered(i, d)
  <2> HIDE DEF d
  <2> QED
    BY <1>7, <1>8, <1>9
       DEF Abstract!Choosable, Abstract!NotYetDelivered, Chosen, AllEntries
<1> HIDE DEF d
<1> QED
  BY <1>3, <1>10 DEF Abstract!Deliver, Chosen, AllEntries, d

\* Commits happen when a message is delivered, proposals before.
LEMMA DecidesAlone ==
  ASSUME TypeOK, [Next]_vars, ~UNCHANGED committed
  PROVE  UNCHANGED Proposed
<1>1. DeliverMessage
  BY ClusterEffect DEF ReplicaVars, ProposeAccepted
<1>2. UNCHANGED outcome
  BY <1>1 DEF DeliverMessage, HandleMessage, HandlePropose, RecordVote,
              FormQC, IgnoreQC, FollowQC, DecideByQC, CollectNewView,
              BecomeLeader, Discard
<1> QED
  BY <1>2 DEF Proposed

LEMMA AbstractStep ==
  ConsensusInv /\ [Next]_vars => [Abstract!Next]_(Abstract!vars)
<1> SUFFICES ASSUME ConsensusInv, [Next]_vars
             PROVE  Abstract!Next
  OBVIOUS
<1>1. TypeOK
  BY DEF ConsensusInv, SafeInv, TypeInv
<1>2. CASE UNCHANGED committed
  <2>1. UNCHANGED <<Chosen, Delivered>>
    BY <1>2 DEF Chosen, AllEntries, Entries, EntriesOf, Delivered
  <2>2. Proposed \subseteq Proposed'
    BY <1>1, ProposedGrows
  <2> QED
    BY <2>1, <2>2 DEF Abstract!Next, Abstract!Propose, Chosen, AllEntries
<1>3. CASE ~UNCHANGED committed
  <2>1. PICK i \in Nodes : \E e : Decides(i, e)
    BY <1>1, <1>3, LogSteps
  <2>2. PICK e : Decides(i, e)
    BY <2>1
  <2>3. Abstract!Deliver(i, Decision(e))
    BY <1>1, <1>3, <2>2, DecidesAlone, DecidesDelivers
  <2>4. Decision(e) \in Chosen'
    BY <1>1, <2>2, DecidesLogs, TypeParts
  <2> QED
    BY <2>3, <2>4 DEF Abstract!Next, Chosen, AllEntries
<1> QED
  BY <1>2, <1>3

LEMMA AbstractInit == Init => Abstract!Init
<1> SUFFICES ASSUME Init PROVE Abstract!Init
  OBVIOUS
<1>1. Proposed = {}
  BY DEF Init, Proposed
<1>2. \A n \in Nodes : committed[n] = <<>> /\ Entries(n) = {}
  BY DEF Init, Entries, EntriesOf
<1>3. AllEntries = {}
  BY <1>2 DEF AllEntries
<1>4. Chosen = {}
  BY <1>3 DEF Chosen
<1>5. Delivered = [n \in Nodes |-> <<>>]
  BY <1>2 DEF Delivered
<1> QED
  BY <1>1, <1>4, <1>5 DEF Abstract!Init, Chosen, AllEntries

\* HotStuff implements Consensus, for every number of nodes and every fault
\* the framework can install: what nodes commit for a number of a view whose
\* leader never equivocates is one payload, proposed by a client, and no
\* number of a view is committed twice by a node.
THEOREM HotStuffImplementsConsensus == Spec => ImplementsConsensus
  BY InitConsensus, ConsensusStep, AbstractInit, AbstractStep, PTL
     DEF Spec, ImplementsConsensus, Abstract!Spec

-----------------------------------------------------------------------------
(***************************************************************************)
(* The quorum and the leader behind a slot.  Certificates carry no votes   *)
(* and replicas vote for slots they do not have, so what backs a commit is *)
(* the first round alone: its voters took the proposal.  TookOffer and     *)
(* LeaderAt are stable; a node that has gone on to a later view counts for *)
(* the views it has left.                                                  *)
(***************************************************************************)
TookOffer(j, v, s) == view[j] > v \/ HasSlot(j, v, s)

Takers(v, s) == {j \in Nodes : TookOffer(j, v, s)}

TakenByQuorum(v, s) == Cardinality(Takers(v, s)) >= Quorum

\* The leader of v has got to phase p of number s, or has left the view.
LeaderAt(v, s, p) ==
    LET leader == Leader(v) IN
    \/ view[leader] > v
    \/ HasSlot(leader, v, s) /\ Rank(p) <= Rank(slots[leader][s].phase)

MessageBacked(m) ==
    /\ m.type = "Propose" => LeaderAt(m.view, m.sequence, "Prepare")
    /\ m.type = "Vote" /\ m.phase = "Prepare" =>
         TookOffer(m.voter, m.view, m.sequence)
    /\ m.type = "QuorumCertificate" =>
         /\ TakenByQuorum(m.view, m.sequence)
         /\ LeaderAt(m.view, m.sequence, NextPhase(m.phase))

MessagesBacked == \A e \in Envelopes : MessageBacked(e.msg)

SlotBacked(s, slot) ==
    slot.phase # "Idle" =>
        /\ LeaderAt(slot.view, s, slot.phase)
        /\ \A r \in slot.voters["Prepare"] : TookOffer(r, slot.view, s)
        /\ slot.phase # "Prepare" => TakenByQuorum(slot.view, s)

SlotsBacked == \A i \in Nodes : \A s \in Seqs : SlotBacked(s, slots[i][s])

CommitsBacked ==
    \A i \in Nodes : \A e \in Entries(i) : TakenByQuorum(e.view, e.sequence)

BackingInv == MessagesBacked /\ SlotsBacked /\ CommitsBacked

\* What tampering leaves of a message, as far as it is about slots.
LEMMA TamperedBacked ==
  ASSUME TypeOK, NEW e \in EnvelopeType, MessageBacked(e.msg)
  PROVE  MessageBacked(Tampered(e))
<1>1. e.msg \in Message /\ Tampered(e).type = e.msg.type
  BY TamperedKind DEF EnvelopeType
<1>2. CASE e.msg.type = "Propose"
  <2>1. Tampered(e).view = e.msg.view /\ Tampered(e).sequence = e.msg.sequence
    BY <1>2, TamperedSlot
  <2> QED
    BY <1>1, <1>2, <2>1 DEF MessageBacked
<1>3. CASE e.msg.type = "Vote"
  <2>1. e.msg \in [type : {"Vote"}, view : Views, sequence : Seqs,
                   digest : Digest, phase : PhaseTag, voter : Nodes]
    BY <1>1, <1>3 DEF Message
  <2>2. Tampered(e) = e.msg \/ Tampered(e) = Corrupted(e.msg)
    BY <2>1 DEF Tampered, Equivocated
  <2>3. /\ Tampered(e).view = e.msg.view
        /\ Tampered(e).sequence = e.msg.sequence
        /\ Tampered(e).phase = e.msg.phase
        /\ Tampered(e).voter = e.msg.voter
    BY <2>1, <2>2 DEF Corrupted
  <2> QED
    BY <1>1, <1>3, <2>3 DEF MessageBacked
<1>4. CASE e.msg.type = "QuorumCertificate"
  <2>1. e.msg \in [type : {"QuorumCertificate"}, view : Views,
                   sequence : Seqs, digest : Digest, phase : PhaseTag,
                   voteCount : Nat]
    BY <1>1, <1>4 DEF Message
  <2>2. Tampered(e) = e.msg \/ Tampered(e) = Corrupted(e.msg)
    BY <2>1 DEF Tampered, Equivocated
  <2>3. /\ Tampered(e).view = e.msg.view
        /\ Tampered(e).sequence = e.msg.sequence
        /\ Tampered(e).phase = e.msg.phase
    BY <2>1, <2>2 DEF Corrupted
  <2> QED
    BY <1>1, <1>4, <2>3 DEF MessageBacked
<1>5. CASE e.msg.type = "NewView"
  BY <1>1, <1>5 DEF MessageBacked
<1> QED
  BY <1>1, <1>2, <1>3, <1>4, <1>5 DEF Message

\* What a node has taken, and how far a leader has got, is not lost while it
\* is in the view.
LEMMA NodeStable ==
  ASSUME ViewTypeOK, ViewTypeOK', LogTypeOK, LogTypeOK', SlotInv, Counting,
         NEW j \in Nodes, NEW v \in Views, NEW s \in Seqs, SlotStep(j, s)
  PROVE  /\ view[j] > v => view'[j] > v
         /\ HasSlot(j, v, s) =>
              \/ view'[j] > v
              \/ /\ HasSlot(j, v, s)'
                 /\ Rank(slots[j][s].phase) <= Rank(slots'[j][s].phase)
<1>1. v \in Nat /\ view[j] \in Nat /\ view'[j] \in Nat
  BY DEF ViewTypeOK, Views
<1>2. view[j] > v => view'[j] > v
  BY <1>1 DEF Counting
<1>3. ASSUME HasSlot(j, v, s), ~(view'[j] > v)
      PROVE  /\ HasSlot(j, v, s)'
             /\ Rank(slots[j][s].phase) <= Rank(slots'[j][s].phase)
  <2>1. slots[j][s] \in SlotState /\ slots[j][s].phase \in Phase
    BY DEF LogTypeOK, SlotState
  <2>2. Rank(slots[j][s].phase) <= Rank(slots[j][s].phase)
    <3>1. Rank(slots[j][s].phase) \in Nat
      BY <2>1, Ranks
    <3> QED
      BY <3>1
  <2>3. v <= view[j]
    BY <1>3 DEF SlotInv, SlotsCurrent, HasSlot
  <2>4. ~(view'[j] > view[j])
    BY <1>1, <1>3, <2>3
  <2>5. ~TakesOn(j, s)
    <3> SUFFICES ASSUME NEW w \in Views, view'[j] = w, w >= view[j],
                        ~HasSlot(j, w, s)
                 PROVE  FALSE
      BY DEF TakesOn
    <3>1. w = v
      BY <1>1, <1>3, <2>3
    <3> QED
      BY <1>3, <3>1
  <2>6. \/ slots'[j][s] = slots[j][s]
        \/ Advanced(slots[j][s], slots'[j][s])
    BY <2>4, <2>5 DEF SlotStep
  <2> QED
    BY <1>3, <2>2, <2>6 DEF HasSlot, Advanced
<1> QED
  BY <1>2, <1>3

LEMMA SubsetCounts ==
  \A S \in SUBSET Nodes : \A R \in SUBSET S :
    /\ Cardinality(S) \in Nat /\ Cardinality(R) \in Nat
    /\ Cardinality(R) <= Cardinality(S)
  BY NodesFinite, FS_Subset, FS_CardinalityType

LEMMA BackingStable ==
  ASSUME TypeOK, TypeOK', SlotInv, Counting,
         \A j \in Nodes, s \in Seqs : SlotStep(j, s),
         NEW v \in Views, NEW s \in Seqs
  PROVE  /\ \A j \in Nodes : TookOffer(j, v, s) => TookOffer(j, v, s)'
         /\ TakenByQuorum(v, s) => TakenByQuorum(v, s)'
         /\ \A p \in Phase : LeaderAt(v, s, p) => LeaderAt(v, s, p)'
<1>1. ViewTypeOK /\ ViewTypeOK' /\ LogTypeOK /\ LogTypeOK'
  BY TypeParts, PTL
<1>2. \A j \in Nodes :
        /\ view[j] > v => view'[j] > v
        /\ HasSlot(j, v, s) =>
             \/ view'[j] > v
             \/ /\ HasSlot(j, v, s)'
                /\ Rank(slots[j][s].phase) <= Rank(slots'[j][s].phase)
  BY <1>1, NodeStable
<1>3. \A j \in Nodes : TookOffer(j, v, s) => TookOffer(j, v, s)'
  BY <1>2 DEF TookOffer
<1>4. TakenByQuorum(v, s) => TakenByQuorum(v, s)'
  <2>1. Takers(v, s) \subseteq Takers(v, s)' /\ Takers(v, s)' \subseteq Nodes
    BY <1>3 DEF Takers
  <2>2. /\ Cardinality(Takers(v, s)) <= Cardinality(Takers(v, s)')
        /\ Cardinality(Takers(v, s)) \in Nat /\ Cardinality(Takers(v, s)') \in Nat
    BY <2>1, SubsetCounts
  <2> QED
    BY <2>2, QuorumIsNat DEF TakenByQuorum
<1>5. ASSUME NEW p \in Phase, LeaderAt(v, s, p)
      PROVE  LeaderAt(v, s, p)'
  <2>1. PICK j \in Nodes : j = Leader(v)
    BY LeaderIsNode DEF Views
  <2>2. slots[j][s].phase \in Phase /\ slots'[j][s].phase \in Phase
    BY <1>1 DEF LogTypeOK, SlotState
  <2>3. /\ Rank(p) \in Nat /\ Rank(slots[j][s].phase) \in Nat
        /\ Rank(slots'[j][s].phase) \in Nat
    BY <2>2, Ranks
  <2>4. \/ view[j] > v
        \/ HasSlot(j, v, s) /\ Rank(p) <= Rank(slots[j][s].phase)
    BY <1>5, <2>1 DEF LeaderAt
  <2>5. \/ view'[j] > v
        \/ HasSlot(j, v, s)' /\ Rank(p) <= Rank(slots'[j][s].phase)
    BY <1>2, <2>3, <2>4
  <2> QED
    BY <2>1, <2>5 DEF LeaderAt
<1> QED
  BY <1>3, <1>4, <1>5

\* A step in which everything new is backed: messages, slots and commits.
LEMMA BackingFrame ==
  ASSUME TypeOK, TypeOK', SlotInv, BackingInv, Counting,
         \A j \in Nodes, s \in Seqs : SlotStep(j, s),
         \A e \in Envelopes' : e \in Envelopes \/ MessageBacked(e.msg)',
         \A i \in Nodes, s \in Seqs, slot \in SlotState :
           slots'[i][s] = slot =>
             slots[i][s] = slot \/ SlotBacked(s, slot)',
         \A i \in Nodes : \A e \in Entries(i)' :
           e \in Entries(i) \/ TakenByQuorum(e.view, e.sequence)'
  PROVE  BackingInv'
<1>1. LogTypeOK /\ LogTypeOK' /\ NetTypeOK
  BY TypeParts, PTL
<1>2. \A v \in Views, s \in Seqs :
        /\ \A j \in Nodes : TookOffer(j, v, s) => TookOffer(j, v, s)'
        /\ TakenByQuorum(v, s) => TakenByQuorum(v, s)'
        /\ \A p \in Phase : LeaderAt(v, s, p) => LeaderAt(v, s, p)'
  BY BackingStable
<1>3. MessagesBacked'
  <2>1. ASSUME NEW e \in Envelopes
        PROVE  MessageBacked(e.msg)'
    <3>1. e.msg \in Message /\ MessageBacked(e.msg)
      BY <1>1, EnvelopeFields DEF BackingInv, MessagesBacked
    <3>2. CASE e.msg.type = "Propose"
      <4>1. e.msg.view \in Views /\ e.msg.sequence \in Seqs
        BY <3>1, <3>2, MessageFields
      <4>2. "Prepare" \in Phase
        BY DEF Phase, PhaseTag
      <4> QED
        BY <1>2, <3>1, <3>2, <4>1, <4>2 DEF MessageBacked
    <3>3. CASE e.msg.type = "Vote"
      <4>1. /\ e.msg.view \in Views /\ e.msg.sequence \in Seqs
            /\ e.msg.voter \in Nodes
        BY <3>1, <3>3, MessageFields
      <4> QED
        BY <1>2, <3>1, <3>3, <4>1 DEF MessageBacked
    <3>4. CASE e.msg.type = "QuorumCertificate"
      <4>1. /\ e.msg.view \in Views /\ e.msg.sequence \in Seqs
            /\ e.msg.phase \in PhaseTag
        BY <3>1, <3>4, MessageFields
      <4>2. NextPhase(e.msg.phase) \in Phase
        BY <4>1, PhaseTypes
      <4> QED
        BY <1>2, <3>1, <3>4, <4>1, <4>2 DEF MessageBacked
    <3>5. CASE e.msg.type = "NewView"
      BY <3>5 DEF MessageBacked
    <3> QED
      BY <3>1, <3>2, <3>3, <3>4, <3>5 DEF Message
  <2> QED
    BY <2>1 DEF MessagesBacked
<1>4. SlotsBacked'
  <2>1. ASSUME NEW i \in Nodes, NEW s \in Seqs, NEW slot \in SlotState,
               slots'[i][s] = slot
        PROVE  SlotBacked(s, slot)'
    <3>1. CASE slots[i][s] = slot
      <4>1. SlotBacked(s, slot)
        BY <3>1 DEF BackingInv, SlotsBacked
      <4>2. /\ slot.view \in Views /\ slot.phase \in Phase
            /\ slot.voters["Prepare"] \subseteq Nodes
        BY DEF SlotState, PhaseTag
      <4> QED
        BY <1>2, <4>1, <4>2 DEF SlotBacked
    <3> QED
      BY <2>1, <3>1
  <2>2. \A i \in Nodes, s \in Seqs : slots'[i][s] \in SlotState
    BY <1>1 DEF LogTypeOK
  <2> QED
    BY <2>1, <2>2 DEF SlotsBacked, SlotBacked
<1>5. CommitsBacked'
  <2> SUFFICES ASSUME NEW i \in Nodes, NEW e \in Entries(i)'
               PROVE  TakenByQuorum(e.view, e.sequence)'
    BY DEF CommitsBacked
  <2>1. CASE e \in Entries(i)
    <3>1. e \in CommittedEntry
      BY <1>1, <2>1, ElementOfSeq, LenProperties
         DEF LogTypeOK, Entries, EntriesOf
    <3>2. e.view \in Views /\ e.sequence \in Seqs
      BY <3>1 DEF CommittedEntry
    <3>3. TakenByQuorum(e.view, e.sequence)
      BY <2>1 DEF BackingInv, CommitsBacked
    <3> QED
      BY <1>2, <3>2, <3>3
  <2> QED
    BY <2>1
<1> QED
  BY <1>3, <1>4, <1>5 DEF BackingInv

\* A step that sends nothing about slots, keeps them or empties them and logs
\* nothing.
LEMMA BackingUntouched ==
  ASSUME TypeOK, TypeOK', SlotInv, BackingInv, Counting,
         \A j \in Nodes, s \in Seqs : SlotStep(j, s),
         UNCHANGED committed,
         \A e \in Envelopes' : e \in Envelopes \/ e.msg.type = "NewView",
         \A n \in Nodes, s \in Seqs :
           slots'[n][s] = slots[n][s] \/ slots'[n][s] = NoSlot
  PROVE  BackingInv'
<1>1. \A n \in Nodes, t \in Seqs, slot \in SlotState :
        slots'[n][t] = slot => slots[n][t] = slot \/ SlotBacked(t, slot)'
  BY SlotPhases DEF SlotBacked
<1>2. \A e \in Envelopes' : e \in Envelopes \/ MessageBacked(e.msg)'
  BY DEF MessageBacked
<1>3. \A n \in Nodes : Entries(n)' = Entries(n)
  BY DEF Entries, EntriesOf
<1> HIDE DEF Entries, Envelopes
<1> QED
  BY <1>1, <1>2, <1>3, BackingFrame

\* A step that writes one slot, which is backed.
LEMMA WriteBacked ==
  ASSUME TypeOK, TypeOK', SlotInv, BackingInv, Counting,
         \A j \in Nodes, s \in Seqs : SlotStep(j, s),
         NEW i \in Nodes, NEW s \in Seqs, NEW new,
         WritesSlot(i, s, new), SlotBacked(s, new)',
         \A e \in Envelopes' : e \in Envelopes \/ MessageBacked(e.msg)',
         \A n \in Nodes : \A e \in Entries(n)' :
           e \in Entries(n) \/ TakenByQuorum(e.view, e.sequence)'
  PROVE  BackingInv'
<1>1. \A n \in Nodes, t \in Seqs, slot \in SlotState :
        slots'[n][t] = slot => slots[n][t] = slot \/ SlotBacked(t, slot)'
  BY DEF WritesSlot
<1> HIDE DEF Entries, Envelopes
<1> QED
  BY <1>1, BackingFrame

\* A leader has the slot it numbers.
LEMMA ProposeBacked ==
  ASSUME TypeOK, TypeOK', SlotInv, BackingInv, Counting,
         \A j \in Nodes, s \in Seqs : SlotStep(j, s),
         NEW p \in Payloads, ProposeAccepted(p)
  PROVE  BackingInv'
<1>1. PICK j \in Nodes : \E w \in Views, t \in Seqs :
        /\ w = view[j] /\ t = nextSequence[j] /\ Leader(w) = j
        /\ Assign(j, <<p, 0>>)
        /\ \A e \in Envelopes' :
             \/ e \in Envelopes
             \/ Sent(e, j, ProposeMsg(w, t, <<p, 0>>)) /\ e.to # j
  BY ProposeSends
<1>2. PICK w \in Views, t \in Seqs :
        /\ w = view[j] /\ t = nextSequence[j] /\ Leader(w) = j
        /\ Assign(j, <<p, 0>>)
        /\ \A e \in Envelopes' :
             \/ e \in Envelopes
             \/ Sent(e, j, ProposeMsg(w, t, <<p, 0>>)) /\ e.to # j
  BY <1>1
<1>3. slots' = [slots EXCEPT ![j][t] = PrepareSlot(w, {j})]
  BY <1>2 DEF Assign
<1>4. WritesSlot(j, t, PrepareSlot(w, {j}))
  BY <1>3, ExceptWrites, TypeParts
<1>5. slots'[j][t].phase = "Prepare" /\ slots'[j][t].view = w
  BY <1>4 DEF WritesSlot, PrepareSlot
<1>6. LeaderAt(w, t, "Prepare")' /\ TookOffer(j, w, t)'
  <2>1. HasSlot(j, w, t)'
    BY <1>5 DEF HasSlot
  <2>2. Rank("Prepare") <= Rank("Prepare")
    BY Ranks DEF PhaseTag
  <2> QED
    BY <1>2, <1>5, <2>1, <2>2 DEF LeaderAt, TookOffer
<1>7. PICK new : new = PrepareSlot(w, {j})
  OBVIOUS
<1>8. SlotBacked(t, new)'
  <2>1. /\ new.phase = "Prepare" /\ new.view = w
        /\ new.voters["Prepare"] = {j}
    BY <1>7 DEF PrepareSlot, PhaseTag
  <2> QED
    BY <1>6, <2>1 DEF SlotBacked
<1>9. ASSUME NEW e \in Envelopes', e \notin Envelopes
      PROVE  MessageBacked(e.msg)'
  <2>1. e.msg = ProposeMsg(w, t, <<p, 0>>)
    BY <1>2, <1>9 DEF Sent
  <2>2. e.msg.type = "Propose" /\ e.msg.view = w /\ e.msg.sequence = t
    BY <2>1 DEF ProposeMsg
  <2> QED
    BY <1>6, <2>2 DEF MessageBacked
<1>10. \A n \in Nodes : Entries(n)' = Entries(n)
  BY DEF ProposeAccepted, Entries, EntriesOf
<1> HIDE DEF Entries, Envelopes
<1> QED
  BY <1>4, <1>7, <1>8, <1>9, <1>10, WriteBacked

\* A replica takes the slot its leader has, before it votes for it.
LEMMA HandleProposeBacked ==
  ASSUME TypeOK, TypeOK', SlotInv, BackingInv, Counting,
         \A j \in Nodes, s \in Seqs : SlotStep(j, s), inflight # <<>>,
         NEW i \in Nodes, NEW m \in Message, MessageBacked(m),
         HandlePropose(i, m)
  PROVE  BackingInv'
<1>1. PICK v \in Views, s \in Seqs : /\ v = m.view /\ s = m.sequence
                                     /\ m.type = "Propose"
                                     /\ Takes(i, v, s, m.payload)
  BY HandleProposeTakes
<1>2. slots'[i][s] = PrepareSlot(v, {}) /\ UNCHANGED committed
  BY <1>1 DEF Takes
<1>3. LeaderAt(v, s, "Prepare")' /\ TookOffer(i, v, s)'
  <2>1. LeaderAt(v, s, "Prepare")
    BY <1>1 DEF MessageBacked
  <2>2. "Prepare" \in Phase
    BY DEF Phase, PhaseTag
  <2>3. HasSlot(i, v, s)'
    BY <1>2 DEF HasSlot, PrepareSlot
  <2> QED
    BY <2>1, <2>2, <2>3, BackingStable DEF TookOffer
<1>4. ASSUME NEW slot, slot = PrepareSlot(v, {})
      PROVE  SlotBacked(s, slot)'
  <2>1. /\ slot.phase = "Prepare" /\ slot.view = v
        /\ slot.voters["Prepare"] = {}
    BY <1>4 DEF PrepareSlot, PhaseTag
  <2> QED
    BY <1>3, <2>1 DEF SlotBacked
<1>5. ASSUME NEW slot, slot = NoSlot, NEW t \in Seqs
      PROVE  SlotBacked(t, slot)'
  BY <1>5, SlotPhases DEF SlotBacked
<1>6. \A n \in Nodes, t \in Seqs :
        \/ slots'[n][t] = slots[n][t]
        \/ slots'[n][t] = NoSlot
        \/ t = s /\ slots'[n][t] = PrepareSlot(v, {})
  BY <1>1 DEF Takes, KeptSlots
<1>7. \A n \in Nodes, t \in Seqs, slot \in SlotState :
        slots'[n][t] = slot => slots[n][t] = slot \/ SlotBacked(t, slot)'
  BY <1>4, <1>5, <1>6
<1>8. ASSUME NEW e \in Envelopes', e \notin Envelopes
      PROVE  MessageBacked(e.msg)'
  <2>1. e.msg = VoteMsg(v, s, m.digest, "Prepare", i)
    BY <1>1, <1>8, HandleProposeSends DEF Sent
  <2>2. /\ e.msg.type = "Vote" /\ e.msg.voter = i
        /\ e.msg.view = v /\ e.msg.sequence = s
    BY <2>1 DEF VoteMsg
  <2> QED
    BY <1>3, <2>2 DEF MessageBacked
<1>9. \A n \in Nodes : Entries(n)' = Entries(n)
  BY <1>2 DEF Entries, EntriesOf
<1> HIDE DEF Entries, Envelopes
<1> QED
  BY <1>7, <1>8, <1>9, BackingFrame

\* What a leader that counts a vote knows about the slot.
LEMMA VoteSlot ==
  ASSUME TypeOK, SlotInv, BackingInv,
         NEW i \in Nodes, NEW m \in Message, AcceptsVote(i, m),
         MessageBacked(m)
  PROVE  \E v \in Views, s \in Seqs, t \in PhaseTag, slot \in SlotState :
           /\ v = m.view /\ s = m.sequence /\ t = m.phase
           /\ slot = slots[i][s] /\ view[i] = v /\ Leader(v) = i
           /\ slot.phase = t /\ slot.view = v
           /\ LeaderAt(v, s, t)
           /\ \A r \in slot.voters["Prepare"] : TookOffer(r, v, s)
           /\ t # "Prepare" => TakenByQuorum(v, s)
           /\ t = "Prepare" =>
                \A r \in VotersAfter(i, m) : TookOffer(r, v, s)
<1>1. PICK v \in Views, s \in Seqs, t \in PhaseTag, slot \in SlotState :
        /\ v = m.view /\ s = m.sequence /\ t = m.phase /\ slot = slots[i][s]
  BY VoteTypes
<1>2. view[i] = v /\ Leader(v) = i /\ slot.phase = t /\ m.type = "Vote"
  BY <1>1 DEF AcceptsVote
<1>3. slot.view = v /\ slot.phase # "Idle"
  BY <1>1, <1>2 DEF SlotInv, SlotsCurrent, Undecided, PhaseTag
<1>4. SlotBacked(s, slot)
  BY <1>1 DEF BackingInv, SlotsBacked
<1>5. /\ LeaderAt(v, s, t)
      /\ \A r \in slot.voters["Prepare"] : TookOffer(r, v, s)
      /\ t # "Prepare" => TakenByQuorum(v, s)
  BY <1>2, <1>3, <1>4 DEF SlotBacked
<1>6. t = "Prepare" => \A r \in VotersAfter(i, m) : TookOffer(r, v, s)
  BY <1>1, <1>2, <1>5 DEF MessageBacked, VotersAfter
<1> QED
  BY <1>1, <1>2, <1>3, <1>5, <1>6

\* The votes a leader counts in the first round are backed.
LEMMA RecordVoteBacked ==
  ASSUME TypeOK, TypeOK', SlotInv, BackingInv, Counting,
         \A j \in Nodes, s \in Seqs : SlotStep(j, s), inflight # <<>>,
         NEW i \in Nodes, NEW m \in Message, MessageBacked(m),
         RecordVote(i, m)
  PROVE  BackingInv'
<1>1. AcceptsVote(i, m)
  BY DEF RecordVote
<1>2. PICK v \in Views, s \in Seqs, t \in PhaseTag, slot \in SlotState :
        /\ v = m.view /\ s = m.sequence /\ t = m.phase
        /\ slot = slots[i][s] /\ view[i] = v /\ Leader(v) = i
        /\ slot.phase = t /\ slot.view = v
        /\ LeaderAt(v, s, t)
        /\ \A r \in slot.voters["Prepare"] : TookOffer(r, v, s)
        /\ t # "Prepare" => TakenByQuorum(v, s)
        /\ t = "Prepare" =>
             \A r \in VotersAfter(i, m) : TookOffer(r, v, s)
  BY <1>1, VoteSlot
<1>3. PICK voters \in SUBSET Nodes : voters = VotersAfter(i, m)
  BY <1>1, VoteTypes
<1>4. PICK new : new = [slot EXCEPT !.voters[t] = voters]
  OBVIOUS
<1>5. slots' = [slots EXCEPT ![i][s] = new]
  BY <1>2, <1>3, <1>4 DEF RecordVote
<1>6. WritesSlot(i, s, new)
  BY <1>5, ExceptWrites, TypeParts
<1>7. /\ new.phase = t /\ new.view = v
      /\ new.voters["Prepare"] =
           IF t = "Prepare" THEN voters ELSE slot.voters["Prepare"]
  BY <1>2, <1>4 DEF SlotState, PhaseTag
<1>8. \A r \in new.voters["Prepare"] : r \in Nodes /\ TookOffer(r, v, s)
  <2>1. slot.voters["Prepare"] \subseteq Nodes
    BY DEF SlotState, PhaseTag
  <2> QED
    BY <1>2, <1>3, <1>7, <2>1
<1>9. /\ LeaderAt(v, s, t)'
      /\ \A r \in new.voters["Prepare"] : TookOffer(r, v, s)'
      /\ t # "Prepare" => TakenByQuorum(v, s)'
  BY <1>2, <1>8, BackingStable, Ranks
<1>10. SlotBacked(s, new)'
  BY <1>7, <1>9 DEF SlotBacked
<1>11. Envelopes' \subseteq Envelopes
  BY SilentSends DEF RecordVote
<1>12. \A n \in Nodes : Entries(n)' = Entries(n)
  BY DEF RecordVote, Entries, EntriesOf
<1> HIDE DEF Entries, Envelopes
<1> QED
  BY <1>6, <1>10, <1>11, <1>12, WriteBacked

\* The slot a decision is about is the one it is logged for.
LEMMA DecideBacked ==
  ASSUME TypeOK, NEW i \in Nodes, NEW s \in Seqs, Decide(i, s),
         NEW v, v = view[i], TakenByQuorum(v, s)',
         NEW n \in Nodes, NEW e \in Entries(n)'
  PROVE  e \in Entries(n) \/ TakenByQuorum(e.view, e.sequence)'
<1>1. \/ e \in Entries(n)
      \/ Logged(e, view[i], s, pendingPayloads[i][s])
  BY DecideEntries, TypeParts
<1>2. CASE Logged(e, view[i], s, pendingPayloads[i][s])
  BY <1>2 DEF Logged
<1> QED
  BY <1>1, <1>2

\* A certificate of the first round is one of nodes that took the slot, those
\* of later rounds are formed where there is one; the leader has moved on
\* when it sends them.
LEMMA FormQCBacked ==
  ASSUME TypeOK, TypeOK', SlotInv, BackingInv, Counting,
         \A j \in Nodes, s \in Seqs : SlotStep(j, s), inflight # <<>>,
         NEW i \in Nodes, NEW m \in Message, MessageBacked(m),
         FormQC(i, m)
  PROVE  BackingInv'
<1>1. AcceptsVote(i, m) /\ QuorumReached(i, m)
  BY DEF FormQC
<1>2. PICK v \in Views, s \in Seqs, t \in PhaseTag, slot \in SlotState :
        /\ v = m.view /\ s = m.sequence /\ t = m.phase
        /\ slot = slots[i][s] /\ view[i] = v /\ Leader(v) = i
        /\ slot.phase = t /\ slot.view = v
        /\ LeaderAt(v, s, t)
        /\ \A r \in slot.voters["Prepare"] : TookOffer(r, v, s)
        /\ t # "Prepare" => TakenByQuorum(v, s)
        /\ t = "Prepare" =>
             \A r \in VotersAfter(i, m) : TookOffer(r, v, s)
  BY <1>1, VoteSlot
<1>3. PICK voters \in SUBSET Nodes : voters = VotersAfter(i, m)
  BY <1>1, VoteTypes
<1>4. PICK new : new = Certified(i, m)
  OBVIOUS
<1>5. slots' = [slots EXCEPT ![i][s] = new]
  BY <1>2, <1>4 DEF FormQC
<1>6. WritesSlot(i, s, new)
  BY <1>5, ExceptWrites, TypeParts
<1>7. /\ new.phase = NextPhase(t) /\ new.view = v
      /\ new.voters["Prepare"] =
           IF t = "Prepare" THEN voters ELSE slot.voters["Prepare"]
  <2>1. /\ new.phase = NextPhase(t) /\ new.view = slot.view
        /\ new.voters["Prepare"] =
             CASE "Prepare" = t -> voters
               [] "Prepare" = NextPhase(t) -> slot.voters["Prepare"] \cup {i}
               [] OTHER -> slot.voters["Prepare"]
    BY <1>2, <1>3, <1>4 DEF Certified, SlotState, PhaseTag
  <2>2. NextPhase(t) # "Prepare"
    BY DEF NextPhase, PhaseTag
  <2> QED
    BY <1>2, <2>1, <2>2
<1>8. \A r \in new.voters["Prepare"] : r \in Nodes /\ TookOffer(r, v, s)
  <2>1. slot.voters["Prepare"] \subseteq Nodes
    BY DEF SlotState, PhaseTag
  <2> QED
    BY <1>2, <1>3, <1>7, <2>1
<1>9. \A r \in new.voters["Prepare"] : TookOffer(r, v, s)'
  BY <1>8, BackingStable
<1>10. TakenByQuorum(v, s)'
  <2>1. CASE t = "Prepare"
    <3>1. voters \subseteq Takers(v, s)' /\ Takers(v, s)' \subseteq Nodes
      BY <1>7, <1>8, <1>9, <2>1 DEF Takers
    <3>2. /\ Cardinality(voters) >= Quorum
          /\ Cardinality(voters) <= Cardinality(Takers(v, s)')
          /\ Cardinality(voters) \in Nat /\ Cardinality(Takers(v, s)') \in Nat
      BY <1>1, <1>3, <3>1, SubsetCounts DEF QuorumReached
    <3> QED
      BY <3>2, QuorumIsNat DEF TakenByQuorum
  <2>2. CASE t # "Prepare"
    BY <1>2, <2>2, BackingStable
  <2> QED
    BY <2>1, <2>2
<1>11. LeaderAt(v, s, NextPhase(t))'
  <2>1. slots'[i][s] = new /\ NextPhase(t) \in Phase /\ NextPhase(t) # "Idle"
    BY <1>6, PhaseTypes DEF WritesSlot
  <2>2. Rank(NextPhase(t)) <= Rank(slots'[i][s].phase)
    <3>1. Rank(NextPhase(t)) \in Nat
      BY <2>1, Ranks
    <3> QED
      BY <1>7, <2>1, <3>1
  <2>3. HasSlot(i, v, s)'
    BY <1>7, <2>1 DEF HasSlot
  <2> QED
    BY <1>2, <2>2, <2>3 DEF LeaderAt
<1>12. SlotBacked(s, new)'
  BY <1>7, <1>9, <1>10, <1>11 DEF SlotBacked
<1>13. ASSUME NEW e \in Envelopes', e \notin Envelopes
       PROVE  MessageBacked(e.msg)'
  <2>1. PICK k : e.msg = QCMsg(v, s, m.digest, t, k)
    BY <1>2, <1>13, FormQCSends DEF Sent
  <2>2. /\ e.msg.type = "QuorumCertificate" /\ e.msg.phase = t
        /\ e.msg.view = v /\ e.msg.sequence = s
    BY <2>1 DEF QCMsg
  <2> QED
    BY <1>10, <1>11, <2>2 DEF MessageBacked
<1>14. ASSUME NEW n \in Nodes, NEW e \in Entries(n)'
       PROVE  e \in Entries(n) \/ TakenByQuorum(e.view, e.sequence)'
  <2>1. CASE UNCHANGED committed
    BY <2>1 DEF Entries, EntriesOf
  <2>2. CASE Decide(i, s)
    <3> HIDE DEF Entries
    <3> QED
      BY <1>2, <1>10, <2>2, DecideBacked
  <2> QED
    BY <1>2, <2>1, <2>2 DEF FormQC
<1> HIDE DEF Entries, Envelopes
<1> QED
  BY <1>6, <1>12, <1>13, <1>14, WriteBacked

\* A replica follows a certificate, and decides by one, no further than the
\* leader has gone.
LEMMA CertificateBacked ==
  ASSUME TypeOK, TypeOK', SlotInv, BackingInv, Counting,
         \A j \in Nodes, s \in Seqs : SlotStep(j, s), inflight # <<>>,
         NEW i \in Nodes, NEW m \in Message, MessageBacked(m),
         FollowQC(i, m) \/ DecideByQC(i, m)
  PROVE  BackingInv'
<1>1. PICK v \in Views, s \in Seqs, t \in PhaseTag :
        /\ v = m.view /\ s = m.sequence /\ t = m.phase
        /\ view[i] = v /\ m.type = "QuorumCertificate"
  BY MessageFields DEF FollowQC, DecideByQC, AcceptsQC
<1>2. PICK slot \in SlotState : slot = slots[i][s]
  BY TypeParts DEF LogTypeOK
<1>3. TakenByQuorum(v, s)' /\ LeaderAt(v, s, NextPhase(t))'
  <2>1. TakenByQuorum(v, s) /\ LeaderAt(v, s, NextPhase(t))
    BY <1>1 DEF MessageBacked
  <2> QED
    BY <2>1, PhaseTypes, BackingStable
<1>4. ASSUME NEW new, slot.phase \in PhaseTag,
             new = [slot EXCEPT !.phase = NextPhase(t)]
      PROVE  SlotBacked(s, new)'
  <2>1. slot.view = v /\ slot.phase # "Idle"
    BY <1>1, <1>2, <1>4 DEF SlotInv, SlotsCurrent, Undecided, PhaseTag
  <2>2. SlotBacked(s, slot)
    BY <1>2 DEF BackingInv, SlotsBacked
  <2>3. slot.voters["Prepare"] \subseteq Nodes
    BY DEF SlotState, PhaseTag
  <2>4. \A r \in slot.voters["Prepare"] : TookOffer(r, v, s)'
    BY <2>1, <2>2, <2>3, BackingStable DEF SlotBacked
  <2>5. /\ new.phase = NextPhase(t) /\ new.view = v
        /\ new.voters = slot.voters
    BY <1>4, <2>1 DEF SlotState
  <2> QED
    BY <1>3, <2>4, <2>5 DEF SlotBacked
<1>5. CASE FollowQC(i, m)
  <2>1. \A n \in Nodes, q \in Seqs, x \in SlotState :
          slots'[n][q] = x => slots[n][q] = x \/ SlotBacked(q, x)'
    <3>1. CASE slot.phase = t
      <4>1. PICK new : new = [slot EXCEPT !.phase = NextPhase(t)]
        OBVIOUS
      <4>2. slots' = [slots EXCEPT ![i][s] = new]
        BY <1>1, <1>2, <1>5, <3>1, <4>1 DEF FollowQC
      <4>3. WritesSlot(i, s, new)
        BY <4>2, ExceptWrites, TypeParts
      <4>4. SlotBacked(s, new)'
        BY <1>4, <3>1, <4>1
      <4> QED
        BY <4>3, <4>4 DEF WritesSlot
    <3>2. CASE slot.phase # t
      BY <1>1, <1>2, <1>5, <3>2 DEF FollowQC
    <3> QED
      BY <3>1, <3>2
  <2>2. ASSUME NEW e \in Envelopes', e \notin Envelopes
        PROVE  MessageBacked(e.msg)'
    <3>1. e.msg = VoteMsg(v, s, m.digest, NextPhase(t), i)
      BY <1>1, <1>5, <2>2, FollowQCSends DEF Sent
    <3>2. NextPhase(t) # "Prepare"
      BY DEF NextPhase, PhaseTag
    <3>3. e.msg.type = "Vote" /\ e.msg.phase # "Prepare"
      BY <3>1, <3>2 DEF VoteMsg
    <3> QED
      BY <3>3 DEF MessageBacked
  <2>3. \A n \in Nodes : Entries(n)' = Entries(n)
    BY <1>5 DEF FollowQC, Entries, EntriesOf
  <2> HIDE DEF Entries, Envelopes
  <2> QED
    BY <2>1, <2>2, <2>3, BackingFrame
<1>6. CASE DecideByQC(i, m)
  <2>1. PICK new : new = [slot EXCEPT !.phase = NextPhase(t)]
    OBVIOUS
  <2>2. t = "Commit" /\ NextPhase(t) = "Decided" /\ slot.phase \in PhaseTag
    <3>1. t = "Commit" /\ slot.phase \notin {"Idle", "Decided"}
      BY <1>1, <1>2, <1>6 DEF DecideByQC
    <3> QED
      BY <3>1 DEF NextPhase, SlotState, Phase
  <2>3. slots' = [slots EXCEPT ![i][s] = new] /\ Decide(i, s)
    BY <1>1, <1>2, <1>6, <2>1, <2>2 DEF DecideByQC
  <2>4. WritesSlot(i, s, new)
    BY <2>3, ExceptWrites, TypeParts
  <2>5. SlotBacked(s, new)'
    BY <1>4, <2>1, <2>2
  <2>6. Envelopes' \subseteq Envelopes
    BY <1>6, SilentSends DEF DecideByQC
  <2> HIDE DEF Entries, Envelopes
  <2>7. \A n \in Nodes : \A e \in Entries(n)' :
          e \in Entries(n) \/ TakenByQuorum(e.view, e.sequence)'
    BY <1>1, <1>3, <2>3, DecideBacked
  <2> QED
    BY <2>4, <2>5, <2>6, <2>7, WriteBacked
<1> QED
  BY <1>5, <1>6

LEMMA DeliverBacked ==
  ASSUME TypeOK, TypeOK', SlotInv, BackingInv, Counting,
         \A j \in Nodes, s \in Seqs : SlotStep(j, s), DeliverMessage
  PROVE  BackingInv'
<1> DEFINE e == Head(inflight)
           i == e.to
           m == Tampered(e)
<1>1. NetTypeOK /\ Deliverable
  BY TypeParts DEF DeliverMessage
<1>2. /\ HandleMessage(i, m) /\ inflight # <<>>
      /\ e \in EnvelopeType /\ i \in Nodes /\ m \in Message
  BY <1>1, DeliveredType DEF DeliverMessage
<1>3. MessageBacked(e.msg)
  BY <1>1, DeliveredOnNetwork DEF BackingInv, MessagesBacked
<1>4. MessageBacked(m)
  BY <1>2, <1>3, TamperedBacked
<1> HIDE DEF e, i, m
<1>5. CASE HandlePropose(i, m)
  BY <1>2, <1>4, <1>5, HandleProposeBacked
<1>6. CASE RecordVote(i, m)
  BY <1>2, <1>4, <1>6, RecordVoteBacked
<1>7. CASE FormQC(i, m)
  BY <1>2, <1>4, <1>7, FormQCBacked
<1>8. CASE FollowQC(i, m) \/ DecideByQC(i, m)
  BY <1>2, <1>4, <1>8, CertificateBacked
<1>9. CASE \/ IgnoreQC(i, m) \/ CollectNewView(i, m) \/ BecomeLeader(i, m)
           \/ Discard(i, m)
  <2>1. UNCHANGED committed
    BY <1>9 DEF IgnoreQC, CollectNewView, BecomeLeader, Discard, logVars,
                nodeVars
  <2>2. Envelopes' \subseteq Envelopes
    <3>1. Consume(<<>>)
      BY <1>9 DEF IgnoreQC, CollectNewView, BecomeLeader, Discard
    <3> QED
      BY <1>2, <3>1, SilentSends
  <2>3. \A n \in Nodes, s \in Seqs :
          slots'[n][s] = slots[n][s] \/ slots'[n][s] = NoSlot
    <3>1. CASE IgnoreQC(i, m) \/ CollectNewView(i, m) \/ Discard(i, m)
      BY <3>1 DEF IgnoreQC, CollectNewView, Discard, logVars, nodeVars
    <3>2. CASE BecomeLeader(i, m)
      <4>1. slots' = [slots EXCEPT ![i] = KeptSlots(i)]
        BY <3>2 DEF BecomeLeader
      <4>2. \A s \in Seqs :
              KeptSlots(i)[s] = slots[i][s] \/ KeptSlots(i)[s] = NoSlot
        BY DEF KeptSlots
      <4>3. slots \in [Nodes -> [Seqs -> SlotState]]
        BY TypeParts DEF LogTypeOK
      <4> QED
        BY <1>2, <4>1, <4>2, <4>3
    <3> QED
      BY <1>9, <3>1, <3>2
  <2> HIDE DEF Envelopes
  <2> QED
    BY <2>1, <2>2, <2>3, BackingUntouched
<1> QED
  BY <1>2, <1>5, <1>6, <1>7, <1>8, <1>9 DEF HandleMessage

LEMMA BackingStep ==
  ASSUME TypeInv, TypeOK', SlotInv, BackingInv, Counting,
         \A j \in Nodes, s \in Seqs : SlotStep(j, s), [Next]_vars
  PROVE  BackingInv'
<1>1. TypeOK
  BY DEF TypeInv
<1>2. CASE \E p \in Payloads : ProposeAccepted(p)
  BY <1>1, <1>2, ProposeBacked
<1>3. CASE DeliverMessage
  BY <1>1, <1>3, DeliverBacked
<1>4. CASE Tick
  <2>1. UNCHANGED <<slots, committed>>
    BY <1>4 DEF Tick, TickQuiet, TickCountdown, TickTimeout, nodeVars, logVars
  <2>2. PICK i \in Nodes : TickQuiet(i) \/ TickCountdown(i) \/ TickTimeout(i)
    BY <1>4 DEF Tick
  <2>3. \A w : NewViewMsg(w, i).type = "NewView"
    BY DEF NewViewMsg
  <2>4. \A e \in Envelopes' : e \in Envelopes \/ e.msg.type = "NewView"
    BY <1>4, <2>2, <2>3, TickSends DEF Sent
  <2> HIDE DEF Envelopes
  <2> QED
    BY <1>1, <2>1, <2>4, BackingUntouched
<1>5. CASE \/ BeginStep \/ LoseMessage \/ ChangeFaults \/ UNCHANGED vars
           \/ \E p \in Payloads : ProposeRejected(p)
  <2>1. Envelopes' \subseteq Envelopes /\ UNCHANGED <<slots, committed>>
    BY <1>1, <1>5, ClusterSends DEF nodeVars, logVars
  <2> HIDE DEF Envelopes
  <2> QED
    BY <1>1, <2>1, BackingUntouched
<1> QED
  BY <1>2, <1>3, <1>4, <1>5 DEF Next

LEMMA InitBacking == Init => BackingInv
<1> SUFFICES ASSUME Init PROVE BackingInv
  OBVIOUS
<1>1. Envelopes = {}
  BY EmptyRange DEF Init, ClusterInit, Envelopes
<1>2. \A n \in Nodes : Entries(n) = {}
  BY DEF Init, Entries, EntriesOf
<1>3. \A n \in Nodes, s \in Seqs : slots[n][s].phase = "Idle"
  BY SlotPhases DEF Init
<1> QED
  BY <1>1, <1>2, <1>3
     DEF BackingInv, MessagesBacked, SlotsBacked, SlotBacked, CommitsBacked

QuorumInv == SafeInv /\ BackingInv

LEMMA QuorumStep == QuorumInv /\ [Next]_vars => QuorumInv'
<1> SUFFICES ASSUME QuorumInv, [Next]_vars, SafeInv', TypeOK'
             PROVE  QuorumInv'
  BY SafeStep DEF QuorumInv, SafeInv, TypeInv
<1>1. TypeInv /\ ClaimInv /\ SlotInv /\ OfferInv /\ BackingInv
  BY DEF QuorumInv, SafeInv
<1>2. Counting /\ \A j \in Nodes, s \in Seqs : SlotStep(j, s)
  BY <1>1, SlotSteps
<1>3. BackingInv'
  BY <1>1, <1>2, BackingStep
<1> QED
  BY <1>3 DEF QuorumInv

\* A commit rests on 2f + 1 nodes that were given its proposal, for every
\* number of nodes, although the later rounds count the votes of replicas
\* without the slot and a certificate names no voters.
THEOREM CommitsBackedByProposal == Spec => []CommitBackedByProposal
<1>1. QuorumInv => CommitBackedByProposal
  <2> SUFFICES ASSUME BackingInv, NEW i \in Nodes, NEW e \in Entries(i)
               PROVE  Cardinality({j \in Nodes :
                        \/ view[j] > e.view
                        \/ /\ slots[j][e.sequence].view = e.view
                           /\ slots[j][e.sequence].phase # "Idle"})
                          >= 2 * F + 1
    BY DEF CommitBackedByProposal, QuorumInv
  <2>1. Takers(e.view, e.sequence) =
          {j \in Nodes : \/ view[j] > e.view
                         \/ /\ slots[j][e.sequence].view = e.view
                            /\ slots[j][e.sequence].phase # "Idle"}
    BY DEF Takers, TookOffer, HasSlot
  <2>2. Cardinality(Takers(e.view, e.sequence)) >= 2 * F + 1
    BY DEF BackingInv, CommitsBacked, TakenByQuorum, Quorum
  <2> QED
    BY <2>1, <2>2
<1>2. Init => QuorumInv
  BY InitSafe, InitBacking DEF QuorumInv
<1> QED
  BY <1>1, <1>2, QuorumStep, PTL DEF Spec

\* No replica gets further in a slot than the slot's leader while the leader
\* is in the view, whatever certificates are lost, late or tampered with.
THEOREM ReplicasBehindLeader == Spec => []ReplicaBehindLeader
<1>1. QuorumInv => ReplicaBehindLeader
  BY DEF QuorumInv, BackingInv, SlotsBacked, SlotBacked, LeaderAt, HasSlot,
         ReplicaBehindLeader
<1>2. Init => QuorumInv
  BY InitSafe, InitBacking DEF QuorumInv
<1> QED
  BY <1>1, <1>2, QuorumStep, PTL DEF Spec

-----------------------------------------------------------------------------
(***************************************************************************)
(* The order of the commits of a view.  A number goes through seven        *)
(* messages, each an answer to the one before it, and numbers start in     *)
(* increasing order: on the queue a lower number is always ahead, by a     *)
(* stage when its message comes later.  So nothing about a lower number    *)
(* is left on the way to a node that commits.                              *)
(***************************************************************************)
AboutSlot(e) == e.msg.type # "NewView"

\* How many rounds of messages a message is away from the proposal.
Stage(m) ==
    CASE m.type = "Propose" -> 0
      [] m.type = "Vote" -> 2 * PhaseOrd(m.phase) + 1
      [] m.type = "QuorumCertificate" -> 2 * PhaseOrd(m.phase) + 2

\* Message d may be delivered before message e.
InOrder(d, e) ==
    AboutSlot(d) /\ AboutSlot(e) /\ d.msg.view = e.msg.view =>
        /\ d.msg.sequence < e.msg.sequence => Stage(e.msg) <= Stage(d.msg)
        /\ d.msg.sequence > e.msg.sequence => Stage(d.msg) < Stage(e.msg)

Ordered(q) == \A k, l \in 1 .. Len(q) : k < l => InOrder(q[k], q[l])

MessagesNumbered ==
    \A e \in Envelopes : AboutSlot(e) => Numbered(e.msg.view, e.msg.sequence)

\* Certificates go to the replicas.
CertificatesOut ==
    \A e \in Envelopes :
        e.msg.type = "QuorumCertificate" => e.to # Leader(e.msg.view)

\* What is still under way about the numbers below an entry of node i: at
\* most the last certificates, which node i formed.
EntriesPassed ==
    \A i \in Nodes : \A x \in Entries(i) : \A e \in Envelopes :
        /\ AboutSlot(e)
        /\ e.msg.view = x.view
        /\ e.msg.sequence < x.sequence
        => Stage(e.msg) = 6 /\ i = Leader(x.view)

OrderInv ==
    /\ Ordered(Queue)
    /\ MessagesNumbered
    /\ CertificatesOut
    /\ EntriesPassed
    /\ PerViewOrder

LEMMA SlotMessageFields ==
  ASSUME NEW m \in Message, m.type # "NewView"
  PROVE  /\ m.view \in Views /\ m.sequence \in Seqs /\ Stage(m) \in 0 .. 6
         /\ m.type = "Vote" => Stage(m) # 6
         /\ m.type = "QuorumCertificate" => Stage(m) # 0
<1>1. CASE m.type = "Propose"
  BY <1>1, MessageFields DEF Stage
<1>2. CASE m.type = "Vote"
  <2>1. m.phase \in PhaseTag /\ m.view \in Views /\ m.sequence \in Seqs
    BY <1>2, MessageFields
  <2>2. Stage(m) = 2 * PhaseOrd(m.phase) + 1 /\ PhaseOrd(m.phase) \in 0 .. 2
    BY <1>2, <2>1 DEF Stage, PhaseOrd, PhaseTag
  <2> QED
    BY <1>2, <2>1, <2>2
<1>3. CASE m.type = "QuorumCertificate"
  <2>1. m.phase \in PhaseTag /\ m.view \in Views /\ m.sequence \in Seqs
    BY <1>3, MessageFields
  <2>2. Stage(m) = 2 * PhaseOrd(m.phase) + 2 /\ PhaseOrd(m.phase) \in 0 .. 2
    BY <1>3, <2>1 DEF Stage, PhaseOrd, PhaseTag
  <2> QED
    BY <1>3, <2>1, <2>2
<1> QED
  BY <1>1, <1>2, <1>3 DEF Message

\* Taking the first message off the queue.
LEMMA TailOrdered ==
  ASSUME NEW q \in Seq(EnvelopeType), q # <<>>, Ordered(q)
  PROVE  /\ Ordered(Tail(q))
         /\ \A e \in Range(Tail(q)) : InOrder(q[1], e)
<1>1. /\ Len(q) \in Nat /\ Len(q) >= 1
      /\ Tail(q) \in Seq(EnvelopeType)
      /\ Len(Tail(q)) = Len(q) - 1
      /\ \A k \in 1 .. Len(Tail(q)) : Tail(q)[k] = q[k + 1]
  BY HeadTailProperties, LenProperties
<1>2. Ordered(Tail(q))
  <2> SUFFICES ASSUME NEW k \in 1 .. Len(Tail(q)), NEW l \in 1 .. Len(Tail(q)),
                      k < l
               PROVE  InOrder(Tail(q)[k], Tail(q)[l])
    BY DEF Ordered
  <2>1. /\ Tail(q)[k] = q[k + 1] /\ Tail(q)[l] = q[l + 1]
        /\ k + 1 \in 1 .. Len(q) /\ l + 1 \in 1 .. Len(q) /\ k + 1 < l + 1
    BY <1>1
  <2> QED
    BY <2>1 DEF Ordered
<1>3. ASSUME NEW e \in Range(Tail(q))
      PROVE  InOrder(q[1], e)
  <2>1. Range(Tail(q)) = {Tail(q)[k] : k \in 1 .. Len(Tail(q))}
    BY <1>1, RangeEquality
  <2>2. PICK k \in 1 .. Len(Tail(q)) : Tail(q)[k] = e
    BY <2>1
  <2>3. e = q[k + 1] /\ k + 1 \in 1 .. Len(q) /\ 1 \in 1 .. Len(q) /\ 1 < k + 1
    BY <1>1, <2>2
  <2> QED
    BY <2>3 DEF Ordered
<1> QED
  BY <1>2, <1>3

\* Adding messages in order.
LEMMA ConcatOrdered ==
  ASSUME NEW q \in Seq(EnvelopeType), NEW out \in Seq(EnvelopeType),
         Ordered(q), Ordered(out),
         \A d \in Range(q), e \in Range(out) : InOrder(d, e)
  PROVE  Ordered(q \o out)
<1>1. /\ Len(q) \in Nat /\ Len(out) \in Nat
      /\ Len(q \o out) = Len(q) + Len(out)
      /\ \A k \in 1 .. Len(q) + Len(out) :
           (q \o out)[k] = IF k <= Len(q) THEN q[k] ELSE out[k - Len(q)]
  BY ConcatProperties, LenProperties
<1>2. /\ Range(q) = {q[k] : k \in 1 .. Len(q)}
      /\ Range(out) = {out[k] : k \in 1 .. Len(out)}
  BY RangeEquality
<1> SUFFICES ASSUME NEW k \in 1 .. Len(q \o out), NEW l \in 1 .. Len(q \o out),
                    k < l
             PROVE  InOrder((q \o out)[k], (q \o out)[l])
  BY DEF Ordered
<1>3. CASE l <= Len(q)
  <2>1. /\ (q \o out)[k] = q[k] /\ (q \o out)[l] = q[l]
        /\ k \in 1 .. Len(q) /\ l \in 1 .. Len(q)
    BY <1>1, <1>3
  <2> QED
    BY <2>1 DEF Ordered
<1>4. CASE k > Len(q)
  <2>1. /\ (q \o out)[k] = out[k - Len(q)] /\ (q \o out)[l] = out[l - Len(q)]
        /\ k - Len(q) \in 1 .. Len(out) /\ l - Len(q) \in 1 .. Len(out)
        /\ k - Len(q) < l - Len(q)
    BY <1>1, <1>4
  <2> QED
    BY <2>1 DEF Ordered
<1>5. CASE k <= Len(q) /\ l > Len(q)
  <2>1. (q \o out)[k] \in Range(q) /\ (q \o out)[l] \in Range(out)
    BY <1>1, <1>2, <1>5
  <2> QED
    BY <2>1
<1> QED
  BY <1>1, <1>3, <1>4, <1>5

\* Messages all about one slot, at one stage, or about none are in order.
LEMMA OneSlotOrdered ==
  ASSUME NEW out \in Seq(EnvelopeType), NEW v, NEW s \in Nat,
         \A e \in Range(out) :
           AboutSlot(e) => e.msg.view = v /\ e.msg.sequence = s
  PROVE  Ordered(out)
<1>1. \A k \in 1 .. Len(out) : out[k] \in Range(out)
  BY RangeEquality
<1>2. \A d, e \in Range(out) : InOrder(d, e)
  BY DEF InOrder
<1> QED
  BY <1>1, <1>2 DEF Ordered

\* Message x answers message m: it is about the same slot, a stage on.
Answers(x, m) ==
    /\ x.view = m.view
    /\ x.sequence = m.sequence
    /\ Stage(x) = Stage(m) + 1

\* A handler only answers the message it is given.
LEMMA HandlersAnswer ==
  ASSUME TypeOK, NEW i \in Nodes, NEW m \in Message, HandleMessage(i, m)
  PROVE  \E out \in Seq(EnvelopeType) :
           /\ Consume(out)
           /\ \A e \in Range(out) :
                /\ AboutSlot(e)
                /\ m.type # "NewView"
                /\ Answers(e.msg, m)
                /\ e.msg.type = "QuorumCertificate"
                     => e.to # Leader(e.msg.view)
<1>1. <<>> \in Seq(EnvelopeType) /\ \A e \in Range(<<>>) : FALSE
  BY EmptySeq, EmptyRange
<1>2. \A v \in Views : Leader(v) \in Nodes
  BY LeaderIsNode DEF Views
<1>3. CASE HandlePropose(i, m)
  <2> DEFINE x == VoteMsg(m.view, m.sequence, m.digest, "Prepare", i)
  <2>1. m.type = "Propose" /\ m.view \in Views /\ x \in Message
    BY <1>3, MessageFields, MessageTypes
       DEF HandlePropose, AcceptsPropose, PhaseTag
  <2>2. x.type = "Vote" /\ Answers(x, m)
    BY <2>1 DEF VoteMsg, Answers, Stage, PhaseOrd
  <2>3. Consume(To(i, Leader(m.view), x))
    BY <1>3 DEF HandlePropose
  <2> HIDE DEF x
  <2>4. \A e \in Range(To(i, Leader(m.view), x)) : e.msg = x
    BY <1>2, <2>1, SendRange DEF Sent
  <2> QED
    BY <1>2, <2>1, <2>2, <2>3, <2>4, SendType DEF AboutSlot
<1>4. CASE FormQC(i, m)
  <2> DEFINE x == QCMsg(m.view, m.sequence, m.digest, m.phase,
                        Cardinality(VotersAfter(i, m)))
  <2>1. AcceptsVote(i, m) /\ Consume(Broadcast(i, x))
    BY <1>4 DEF FormQC
  <2>2. Cardinality(VotersAfter(i, m)) \in Nat
    BY <2>1, VoteTypes, NodesFinite, FS_Subset, FS_CardinalityType
  <2>3. x \in Message /\ m.phase \in PhaseTag
    BY <2>1, <2>2, VoteTypes, MessageTypes
  <2>4. m.type = "Vote" /\ Leader(m.view) = i
    BY <2>1 DEF AcceptsVote
  <2>5. x.type = "QuorumCertificate" /\ x.view = m.view
    BY DEF QCMsg
  <2>6. Answers(x, m)
    <3>1. /\ Stage(x) = 2 * PhaseOrd(m.phase) + 2
          /\ Stage(m) = 2 * PhaseOrd(m.phase) + 1
      BY <2>4 DEF QCMsg, Stage
    <3>2. PhaseOrd(m.phase) \in Nat
      BY <2>3 DEF PhaseOrd, PhaseTag
    <3> QED
      BY <3>1, <3>2 DEF Answers, QCMsg
  <2> HIDE DEF x
  <2>7. \A e \in Range(Broadcast(i, x)) : e.msg = x /\ e.to # i
    <3>1. \A e \in Range(Broadcast(i, x)) : Sent(e, i, x) /\ e.to # i
      BY SendRange
    <3> QED
      BY <3>1 DEF Sent
  <2> QED
    BY <2>1, <2>3, <2>4, <2>5, <2>6, <2>7, SendType DEF AboutSlot
<1>5. CASE FollowQC(i, m)
  <2> DEFINE x == VoteMsg(m.view, m.sequence, m.digest, NextPhase(m.phase), i)
  <2>1. /\ m.type = "QuorumCertificate"
        /\ m.view \in Views /\ m.phase \in PhaseTag \ {"Commit"}
        /\ x \in Message
    BY <1>5, MessageFields, MessageTypes, PhaseTypes
       DEF FollowQC, AcceptsQC
  <2>2. x.type = "Vote"
    BY DEF VoteMsg
  <2>3. Consume(To(i, Leader(m.view), x))
    BY <1>5 DEF FollowQC
  <2>4. Answers(x, m)
    <3>1. /\ Stage(x) = 2 * PhaseOrd(NextPhase(m.phase)) + 1
          /\ Stage(m) = 2 * PhaseOrd(m.phase) + 2
      BY <2>1 DEF VoteMsg, Stage
    <3>2. /\ PhaseOrd(m.phase) \in Nat
          /\ PhaseOrd(NextPhase(m.phase)) = PhaseOrd(m.phase) + 1
      BY <2>1 DEF PhaseOrd, PhaseTag, NextPhase
    <3> QED
      BY <3>1, <3>2 DEF Answers, VoteMsg
  <2> HIDE DEF x
  <2>5. \A e \in Range(To(i, Leader(m.view), x)) : e.msg = x
    BY <1>2, <2>1, SendRange DEF Sent
  <2> QED
    BY <1>2, <2>1, <2>2, <2>3, <2>4, <2>5, SendType DEF AboutSlot
<1>6. CASE \/ RecordVote(i, m) \/ IgnoreQC(i, m) \/ DecideByQC(i, m)
           \/ CollectNewView(i, m) \/ BecomeLeader(i, m) \/ Discard(i, m)
  <2>1. Consume(<<>>)
    BY <1>6 DEF RecordVote, IgnoreQC, DecideByQC, CollectNewView,
                BecomeLeader, Discard
  <2> QED
    BY <1>1, <2>1
<1> QED
  BY <1>3, <1>4, <1>5, <1>6 DEF HandleMessage

\* Ticks only send votes for a view.
LEMMA TicksSendNewViews ==
  ASSUME TypeInv, Tick
  PROVE  /\ UNCHANGED inflight
         /\ \E out \in Seq(EnvelopeType) :
              Enqueue(out) /\ \A e \in Range(out) : ~AboutSlot(e)
<1>1. PICK i \in Nodes : TickQuiet(i) \/ TickCountdown(i) \/ TickTimeout(i)
  BY DEF Tick
<1>2. UNCHANGED inflight
  BY <1>1 DEF TickQuiet, TickCountdown, TickTimeout, TickTurn
<1>3. CASE TickTimeout(i)
  <2> DEFINE v == view[i] + 1
             x == NewViewMsg(v, i)
  <2>1. Enqueue(To(i, Leader(v), x))
    BY <1>3 DEF TickTimeout, TickTurn
  <2>2. v \in Views
    <3>1. view[i] < MaxView
      BY <1>3, TickRoom, SizeAssumption DEF TickTimeout, TickTurn, Nodes
    <3> QED
      BY <3>1, TypeParts, HotStuffAssumption DEF TypeInv, ViewTypeOK, Views
  <2> HIDE DEF v
  <2>3. x \in Message /\ Leader(v) \in Nodes
    BY <2>2, MessageTypes, LeaderIsNode DEF Views
  <2>4. x.type = "NewView"
    BY DEF NewViewMsg
  <2> HIDE DEF x
  <2>5. To(i, Leader(v), x) \in Seq(EnvelopeType)
    BY <2>3, SendType
  <2>6. \A e \in Range(To(i, Leader(v), x)) : e.msg = x
    BY <2>3, SendRange DEF Sent
  <2> QED
    BY <1>2, <2>1, <2>4, <2>5, <2>6 DEF AboutSlot
<1>4. CASE ~TickTimeout(i)
  <2>1. Enqueue(<<>>)
    BY <1>1, <1>4 DEF TickQuiet, TickCountdown, TickTurn
  <2> QED
    BY <1>2, <2>1, EmptySeq, EmptyRange
<1> QED
  BY <1>3, <1>4

\* Tampering leaves the slot and the stage of a message alone.
LEMMA TamperedStage ==
  ASSUME NEW e \in EnvelopeType, e.msg.type # "NewView"
  PROVE  LET m == Tampered(e) IN
         /\ m.type = e.msg.type
         /\ m.view = e.msg.view
         /\ m.sequence = e.msg.sequence
         /\ Stage(m) = Stage(e.msg)
<1>1. e.msg \in Message
  BY DEF EnvelopeType
<1>2. CASE e.msg.type = "Propose"
  BY <1>1, <1>2 DEF Tampered, Equivocated, Corrupted, Message, Stage
<1>3. CASE e.msg.type = "Vote"
  BY <1>1, <1>3 DEF Tampered, Equivocated, Corrupted, Message, Stage
<1>4. CASE e.msg.type = "QuorumCertificate"
  BY <1>1, <1>4 DEF Tampered, Equivocated, Corrupted, Message, Stage
<1> QED
  BY <1>1, <1>2, <1>3, <1>4 DEF Message

\* Whose log a decision is added to, and what for.
LEMMA DecideAppends ==
  ASSUME LogTypeOK, NEW i \in Nodes, NEW s \in Seqs, Decide(i, s),
         NEW j \in Nodes, NEW x, Decides(j, x)
  PROVE  j = i /\ x.sequence = s
<1> DEFINE y == [sequence |-> s, payload |-> pendingPayloads[i][s],
                 view |-> view[i]]
<1>1. /\ committed \in [Nodes -> Seq(CommittedEntry)]
      /\ committed' = [committed EXCEPT ![j] = Append(committed[j], x)]
      /\ committed[j] \in Seq(CommittedEntry)
  BY DEF LogTypeOK, Decides
<1>2. /\ committed'[j] = Append(committed[j], x)
      /\ committed'[j] # committed[j]
      /\ committed'[j][Len(committed[j]) + 1] = x
  <2>1. committed'[j] = Append(committed[j], x)
    BY <1>1
  <2>2. x \in CommittedEntry
    BY DEF Decides
  <2>3. /\ Len(Append(committed[j], x)) = Len(committed[j]) + 1
        /\ Append(committed[j], x)[Len(committed[j]) + 1] = x
        /\ Len(committed[j]) \in Nat
    BY <1>1, <2>2, AppendProperties, LenProperties
  <2> QED
    BY <2>1, <2>3
<1>3. committed' = [committed EXCEPT ![i] = Append(committed[i], y)]
  BY <1>2 DEF Decide
<1> HIDE DEF y
<1>4. j = i
  BY <1>1, <1>2, <1>3
<1>5. committed'[i] = Append(committed[i], y)
  BY <1>1, <1>3
<1>6. committed'[i][Len(committed[i]) + 1] = y
  BY <1>1, <1>4, <1>5
<1>7. x = y
  BY <1>2, <1>4, <1>6
<1> QED
  BY <1>4, <1>7 DEF y

\* A commit is the effect of a vote of the last round at the leader, or of
\* the last certificate.
LEMMA CommitMessage ==
  ASSUME TypeOK, NEW i \in Nodes, NEW m \in Message, HandleMessage(i, m),
         NEW j \in Nodes, NEW x, Decides(j, x)
  PROVE  /\ j = i
         /\ m.type # "NewView"
         /\ m.view = x.view
         /\ m.sequence = x.sequence
         /\ \/ Stage(m) = 5 /\ i = Leader(x.view)
            \/ Stage(m) = 6
<1>1. LogTypeOK /\ x.view = view[j] /\ ~UNCHANGED committed
  <2>1. LogTypeOK /\ x.view = view[j] /\ x \in CommittedEntry
    BY TypeParts DEF Decides
  <2>2. committed'[j] = Append(committed[j], x) /\ committed[j] \in Seq(CommittedEntry)
    BY <2>1 DEF Decides, LogTypeOK
  <2>3. Len(committed'[j]) = Len(committed[j]) + 1 /\ Len(committed[j]) \in Nat
    BY <2>1, <2>2, AppendProperties, LenProperties
  <2> QED
    BY <2>1, <2>3
<1>2. CASE FormQC(i, m)
  <2>1. AcceptsVote(i, m) /\ m.phase = "Commit" /\ Decide(i, m.sequence)
    BY <1>1, <1>2 DEF FormQC
  <2>2. m.type = "Vote" /\ Leader(m.view) = i /\ m.view = view[i]
    BY <2>1 DEF AcceptsVote
  <2>3. Stage(m) = 5
    BY <2>1, <2>2 DEF Stage, PhaseOrd
  <2>4. j = i /\ x.sequence = m.sequence
    BY <1>1, <2>1, VoteTypes, DecideAppends
  <2> QED
    BY <1>1, <2>2, <2>3, <2>4
<1>3. CASE DecideByQC(i, m)
  <2>1. /\ m.type = "QuorumCertificate" /\ m.phase = "Commit"
        /\ m.view = view[i] /\ Decide(i, m.sequence)
    BY <1>3 DEF DecideByQC, AcceptsQC
  <2>2. m.sequence \in Seqs
    BY <2>1, MessageFields
  <2>3. Stage(m) = 6
    BY <2>1 DEF Stage, PhaseOrd
  <2>4. j = i /\ x.sequence = m.sequence
    BY <1>1, <2>1, <2>2, DecideAppends
  <2> QED
    BY <1>1, <2>1, <2>3, <2>4
<1>4. CASE \/ HandlePropose(i, m) \/ RecordVote(i, m) \/ IgnoreQC(i, m)
           \/ FollowQC(i, m) \/ CollectNewView(i, m) \/ BecomeLeader(i, m)
           \/ Discard(i, m)
  BY <1>1, <1>4 DEF HandlePropose, RecordVote, IgnoreQC, FollowQC,
                    CollectNewView, BecomeLeader, Discard, logVars, nodeVars
<1> QED
  BY <1>2, <1>3, <1>4 DEF HandleMessage

\* What answers the first message of the queue is in order behind the rest.
LEMMA AnswerInOrder ==
  ASSUME NEW d \in EnvelopeType, NEW e \in EnvelopeType, NEW x \in EnvelopeType,
         AboutSlot(d), AboutSlot(x), Answers(x.msg, d.msg), InOrder(d, e)
  PROVE  InOrder(e, x)
<1> SUFFICES ASSUME AboutSlot(e), e.msg.view = x.msg.view
             PROVE  /\ e.msg.sequence < x.msg.sequence
                         => Stage(x.msg) <= Stage(e.msg)
                    /\ e.msg.sequence > x.msg.sequence
                         => Stage(e.msg) < Stage(x.msg)
  BY DEF InOrder
<1>1. /\ d.msg.sequence \in Nat /\ e.msg.sequence \in Nat
      /\ Stage(d.msg) \in Nat /\ Stage(e.msg) \in Nat
  BY SlotMessageFields DEF AboutSlot, EnvelopeType, Seqs
<1>2. /\ x.msg.view = d.msg.view /\ x.msg.sequence = d.msg.sequence
      /\ Stage(x.msg) = Stage(d.msg) + 1
  BY DEF Answers
<1>3. /\ d.msg.sequence < e.msg.sequence => Stage(e.msg) <= Stage(d.msg)
      /\ d.msg.sequence > e.msg.sequence => Stage(d.msg) < Stage(e.msg)
  BY <1>2 DEF InOrder
<1> QED
  BY <1>1, <1>2, <1>3

\* A step that keeps the logs and sends nothing about a slot.
LEMMA OrderKept ==
  ASSUME TypeOK, TypeOK', OrderInv, Counting, UNCHANGED committed,
         Ordered(Queue'),
         \A e \in Envelopes' : AboutSlot(e) => e \in Envelopes
  PROVE  OrderInv'
<1>1. NetTypeOK
  BY TypeParts
<1>2. MessagesNumbered'
  <2> SUFFICES ASSUME NEW e \in Envelopes', AboutSlot(e)
               PROVE  Numbered(e.msg.view, e.msg.sequence)'
    BY DEF MessagesNumbered
  <2>1. PICK v, s : v = e.msg.view /\ s = e.msg.sequence
    OBVIOUS
  <2>2. e \in Envelopes /\ e.msg \in Message
    BY <1>1, EnvelopeFields
  <2>3. v \in Views /\ s \in Seqs /\ Numbered(v, s)
    BY <2>1, <2>2, SlotMessageFields DEF OrderInv, MessagesNumbered, AboutSlot
  <2>4. Numbered(v, s)'
    BY <2>3, NumberedStays
  <2> QED
    BY <2>1, <2>4
<1>3. CertificatesOut'
  BY DEF OrderInv, CertificatesOut, AboutSlot
<1>4. EntriesPassed' /\ PerViewOrder'
  BY DEF OrderInv, EntriesPassed, PerViewOrder, Entries
<1> QED
  BY <1>2, <1>3, <1>4 DEF OrderInv

\* What is left of the queue, and added to it, by a delivery.
LEMMA DeliveryQueue ==
  ASSUME TypeOK, TypeOK', OrderInv, inflight # <<>>,
         NEW out \in Seq(EnvelopeType), Consume(out)
  PROVE  /\ Head(inflight) \in Envelopes
         /\ Ordered(Tail(Queue)) /\ Tail(Queue) \in Seq(EnvelopeType)
         /\ Range(Tail(Queue)) \subseteq Envelopes
         /\ \A e \in Range(Tail(Queue)) : InOrder(Head(inflight), e)
         /\ Queue' = Tail(Queue) \o out
         /\ Envelopes' = Range(Tail(Queue)) \cup Range(out)
<1>1. NetTypeOK /\ NetTypeOK'
  BY TypeParts, PTL
<1>2. Queue \in Seq(EnvelopeType) /\ Range(Queue) = Envelopes
  BY <1>1, QueueType
<1>3. /\ Queue # <<>> /\ Queue[1] = Head(inflight)
      /\ Queue' = Tail(Queue) \o out
  BY <1>1, QueueSteps
<1>4. /\ Head(Queue) = Queue[1] /\ Tail(Queue) \in Seq(EnvelopeType)
      /\ Head(Queue) \in Range(Queue)
      /\ Range(Tail(Queue)) \subseteq Range(Queue)
  BY <1>2, <1>3, HeadTailProperties, HeadTailRange
<1>5. /\ Ordered(Tail(Queue))
      /\ \A e \in Range(Tail(Queue)) : InOrder(Queue[1], e)
  BY <1>2, <1>3, TailOrdered DEF OrderInv
<1>6. Envelopes' = Range(Queue')
  <2>1. inflight' \in Seq(EnvelopeType) /\ pending' \in Seq(EnvelopeType)
    BY <1>1 DEF NetTypeOK
  <2>2. Range(inflight' \o pending') = Range(inflight') \cup Range(pending')
    BY <2>1, QueueParts
  <2> QED
    BY <2>2 DEF Envelopes, Queue
<1>7. Range(Tail(Queue) \o out) = Range(Tail(Queue)) \cup Range(out)
  BY <1>4, QueueParts
<1> QED
  BY <1>2, <1>3, <1>4, <1>5, <1>6, <1>7

LEMMA EntryFields ==
  ASSUME LogTypeOK, NEW n \in Nodes, NEW x \in Entries(n)
  PROVE  /\ x \in CommittedEntry
         /\ x.view \in Views /\ x.sequence \in Seqs /\ x.payload \in Payload
<1>1. committed[n] \in Seq(CommittedEntry)
  BY DEF LogTypeOK
<1>2. PICK k \in 1 .. Len(committed[n]) : x = committed[n][k]
  BY <1>1, LenProperties DEF Entries, EntriesOf
<1>3. x \in CommittedEntry
  BY <1>1, <1>2, ElementOfSeq
<1> QED
  BY <1>3 DEF CommittedEntry

\* Entries and what is under way after a delivery.
LEMMA DeliverPassed ==
  ASSUME TypeOK, TypeOK', ConsensusInv, OrderInv, DeliverMessage,
         NEW h, h = Head(inflight), h \in Envelopes,
         NEW out, \A e \in Range(out) :
           /\ e \in EnvelopeType
           /\ AboutSlot(e)
           /\ AboutSlot(h)
           /\ Answers(e.msg, h.msg),
         \A e \in Envelopes' :
           \/ e \in Envelopes /\ InOrder(h, e)
           \/ e \in Range(out),
         \A i \in Nodes : \A x : Decides(i, x) =>
           /\ h.to = i
           /\ AboutSlot(h)
           /\ h.msg.view = x.view
           /\ h.msg.sequence = x.sequence
           /\ \/ Stage(h.msg) = 5 /\ i = Leader(x.view)
              \/ Stage(h.msg) = 6
  PROVE  EntriesPassed' /\ PerViewOrder'
<1>20. NetTypeOK /\ LogTypeOK /\ LogTypeOK' /\ ViewTypeOK
  BY TypeParts, PTL
<1>21. h \in EnvelopeType /\ h.msg \in Message
  BY <1>20, EnvelopeFields
<1>1. /\ NetTypeOK /\ LogTypeOK /\ LogTypeOK' /\ ViewTypeOK
      /\ EntryInv /\ h \in EnvelopeType /\ h.msg \in Message
  BY <1>20, <1>21 DEF ConsensusInv
<1>2. UNCHANGED committed \/ \E i \in Nodes : \E x : Decides(i, x)
  BY LogSteps DEF DeliverMessage, Next
<1>3. \A i \in Nodes : \A x \in Entries(i) : x \in CommittedEntry
  BY <1>1, EntryFields
<1>4. ASSUME NEW i \in Nodes, NEW x \in Entries(i), NEW e \in Envelopes',
             AboutSlot(e), e.msg.view = x.view, e.msg.sequence < x.sequence
      PROVE  Stage(e.msg) = 6 /\ i = Leader(x.view)
  <2>1. CASE e \in Envelopes
    BY <1>4, <2>1 DEF OrderInv, EntriesPassed
  <2>2. CASE e \in Range(out)
    <3>1. /\ e \in EnvelopeType /\ AboutSlot(h)
          /\ h.msg.view = x.view /\ h.msg.sequence < x.sequence
          /\ Stage(e.msg) = Stage(h.msg) + 1
      BY <1>4, <2>2 DEF Answers
    <3>2. Stage(h.msg) = 6
      BY <1>4, <3>1 DEF OrderInv, EntriesPassed
    <3>3. Stage(e.msg) \in 0 .. 6
      BY <1>4, <3>1, SlotMessageFields DEF AboutSlot, EnvelopeType
    <3> QED
      BY <3>1, <3>2, <3>3
  <2> QED
    BY <2>1, <2>2
<1>5. CASE UNCHANGED committed
  BY <1>4, <1>5 DEF OrderInv, EntriesPassed, PerViewOrder, Entries
<1>6. CASE \E i \in Nodes : \E x : Decides(i, x)
  <2>1. PICK j \in Nodes : \E x : Decides(j, x)
    BY <1>6
  <2>2. PICK y : Decides(j, y)
    BY <2>1
  <2>20. /\ Entries(j)' = Entries(j) \cup {y}
        /\ \A n \in Nodes \ {j} : Entries(n)' = Entries(n)
    BY <1>1, <2>2, DecidesEntries
  <2>21. y \in CommittedEntry /\ y.view = view[j]
    BY <2>2 DEF Decides
  <2>22. y.sequence \in Nat
    BY <2>21 DEF CommittedEntry, Seqs
  <2>3. /\ Entries(j)' = Entries(j) \cup {y}
        /\ \A n \in Nodes \ {j} : Entries(n)' = Entries(n)
        /\ y \in CommittedEntry /\ y.view = view[j] /\ y.sequence \in Nat
    BY <2>20, <2>21, <2>22
  <2>4. /\ h.to = j /\ AboutSlot(h)
        /\ h.msg.view = y.view /\ h.msg.sequence = y.sequence
        /\ \/ Stage(h.msg) = 5 /\ j = Leader(y.view)
           \/ Stage(h.msg) = 6
    BY <2>2
  <2>5. ASSUME NEW e \in Envelopes', AboutSlot(e), e.msg.view = y.view,
               e.msg.sequence < y.sequence
        PROVE  Stage(e.msg) = 6 /\ j = Leader(y.view)
    <3>1. CASE e \in Envelopes /\ InOrder(h, e)
      <4>1. e \in EnvelopeType
        BY <1>1, <3>1, EnvelopeFields
      <4>2. Stage(e.msg) \in 0 .. 6 /\ e.msg.sequence \in Nat
        BY <2>5, <4>1, SlotMessageFields DEF AboutSlot, EnvelopeType, Seqs
      <4>3. h.msg.sequence > e.msg.sequence /\ h.msg.view = e.msg.view
        BY <2>3, <2>4, <2>5, <4>2
      <4>4. Stage(h.msg) < Stage(e.msg)
        BY <2>4, <2>5, <3>1, <4>3 DEF InOrder
      <4> QED
        BY <2>4, <4>2, <4>4
    <3>2. CASE e \in Range(out)
      BY <2>3, <2>4, <2>5, <3>2 DEF Answers
    <3> QED
      BY <3>1, <3>2
  <2>6. EntriesPassed'
    <3> SUFFICES ASSUME NEW i \in Nodes, NEW x \in Entries(i)',
                        NEW e \in Envelopes', AboutSlot(e),
                        e.msg.view = x.view, e.msg.sequence < x.sequence
                 PROVE  Stage(e.msg) = 6 /\ i = Leader(x.view)
      BY DEF EntriesPassed
    <3>1. CASE x \in Entries(i)
      BY <1>4, <3>1
    <3>2. CASE i = j /\ x = y
      BY <2>5, <3>2
    <3> QED
      BY <2>3, <3>1, <3>2
  <2>7. \A k \in 1 .. Len(committed[j]) :
          \/ committed[j][k].view < y.view
          \/ /\ committed[j][k].view = y.view
             /\ committed[j][k].sequence < y.sequence
    <3> SUFFICES ASSUME NEW k \in 1 .. Len(committed[j])
                 PROVE  \/ committed[j][k].view < y.view
                        \/ /\ committed[j][k].view = y.view
                           /\ committed[j][k].sequence < y.sequence
      OBVIOUS
    <3>1. PICK x : x = committed[j][k]
      OBVIOUS
    <3>2. x \in Entries(j) /\ x \in CommittedEntry
      <4>1. x \in Entries(j)
        BY <1>1, <3>1 DEF Entries, EntriesOf, LogTypeOK
      <4> QED
        BY <1>3, <4>1
    <3>3. x.sequence \in Nat /\ x.view \in Nat /\ y.view \in Nat
      BY <2>3, <3>2 DEF CommittedEntry, Seqs, Views
    <3>4. /\ x.view <= y.view
          /\ x.view = y.view => slots[j][x.sequence].phase = "Decided"
      BY <1>1, <2>3, <3>1 DEF EntryInv, EntriesHeld
    <3>5. x.view = y.view => x.sequence # y.sequence
      BY <2>2, <3>4 DEF Decides, Undecided, PhaseTag
    <3>6. ASSUME x.view = y.view, y.sequence < x.sequence
          PROVE  FALSE
      <4>1. Stage(h.msg) = 6 /\ j = Leader(x.view)
        BY <2>4, <3>2, <3>6 DEF OrderInv, EntriesPassed
      <4>2. h.msg.type \in {"Propose", "Vote", "QuorumCertificate"}
        BY <1>1, <2>4 DEF AboutSlot, Message
      <4>3. h.msg.type = "QuorumCertificate"
        BY <1>1, <2>4, <4>1, <4>2, SlotMessageFields DEF AboutSlot, Stage
      <4> QED
        BY <2>4, <3>6, <4>1, <4>3 DEF OrderInv, CertificatesOut
    <3> QED
      BY <2>3, <3>1, <3>3, <3>4, <3>5, <3>6
  <2>8. /\ committed' = [committed EXCEPT ![j] = Append(committed[j], y)]
        /\ \A n \in Nodes : /\ committed[n] \in Seq(CommittedEntry)
                            /\ DOMAIN committed[n] = 1 .. Len(committed[n])
                            /\ Len(committed[n]) \in Nat
    BY <1>1, <2>2, LenProperties DEF Decides, LogTypeOK
  <2>9. /\ \A n \in Nodes \ {j} : committed'[n] = committed[n]
        /\ DOMAIN committed'[j] = 1 .. Len(committed[j]) + 1
        /\ \A k \in 1 .. Len(committed[j]) : committed'[j][k] = committed[j][k]
        /\ committed'[j][Len(committed[j]) + 1] = y
    <3>1. committed'[j] = Append(committed[j], y)
      BY <1>1, <2>8 DEF LogTypeOK
    <3>2. \A n \in Nodes \ {j} : committed'[n] = committed[n]
      BY <1>1, <2>8 DEF LogTypeOK
    <3> QED
      BY <2>3, <2>8, <3>1, <3>2, AppendProperties, LenProperties
  <2>10. PerViewOrder'
    <3> SUFFICES ASSUME NEW n \in Nodes, NEW k \in DOMAIN committed'[n],
                        NEW l \in DOMAIN committed'[n], k < l
                 PROVE  \/ committed'[n][k].view < committed'[n][l].view
                        \/ /\ committed'[n][k].view = committed'[n][l].view
                           /\ committed'[n][k].sequence
                                < committed'[n][l].sequence
      BY DEF PerViewOrder
    <3>1. CASE n # j
      BY <2>9, <3>1 DEF OrderInv, PerViewOrder
    <3>2. CASE n = j /\ l <= Len(committed[j])
      <4>1. k \in 1 .. Len(committed[j]) /\ l \in 1 .. Len(committed[j])
        BY <2>8, <2>9, <3>2
      <4>2. /\ committed'[n][k] = committed[n][k]
            /\ committed'[n][l] = committed[n][l]
        BY <2>9, <3>2, <4>1
      <4>3. k \in DOMAIN committed[n] /\ l \in DOMAIN committed[n]
        BY <2>8, <3>2, <4>1
      <4> QED
        BY <4>2, <4>3 DEF OrderInv, PerViewOrder
    <3>3. CASE n = j /\ l = Len(committed[j]) + 1
      <4>1. k \in 1 .. Len(committed[j])
        BY <2>8, <2>9, <3>3
      <4> QED
        BY <2>7, <2>9, <3>3, <4>1
    <3> QED
      BY <2>8, <2>9, <3>1, <3>2, <3>3
  <2> QED
    BY <2>6, <2>10
<1> QED
  BY <1>2, <1>5, <1>6

LEMMA DeliverOrder ==
  ASSUME TypeOK, TypeOK', ConsensusInv, OrderInv, Counting, DeliverMessage
  PROVE  OrderInv'
<1> DEFINE i == Head(inflight).to
           m == Tampered(Head(inflight))
<1>1. PICK h : h = Head(inflight)
  OBVIOUS
<1>2. /\ NetTypeOK /\ inflight # <<>> /\ Deliverable
      /\ i \in Nodes /\ m \in Message /\ HandleMessage(i, m)
  BY DeliveredType, TypeParts DEF DeliverMessage
<1>3. /\ h \in Envelopes /\ h \in EnvelopeType /\ h.msg \in Message
      /\ i = h.to /\ m = Tampered(h)
  BY <1>1, <1>2, DeliveredOnNetwork, EnvelopeFields
<1> HIDE DEF i, m
<1>4. /\ m.type = h.msg.type
      /\ AboutSlot(h) => /\ m.view = h.msg.view
                         /\ m.sequence = h.msg.sequence
                         /\ Stage(m) = Stage(h.msg)
  BY <1>3, TamperedKind, TamperedStage DEF AboutSlot
<1>5. PICK out \in Seq(EnvelopeType) :
        /\ Consume(out)
        /\ \A e \in Range(out) :
             /\ AboutSlot(e)
             /\ m.type # "NewView"
             /\ Answers(e.msg, m)
             /\ e.msg.type = "QuorumCertificate" => e.to # Leader(e.msg.view)
  BY <1>2, HandlersAnswer
<1>6. /\ Ordered(Tail(Queue)) /\ Tail(Queue) \in Seq(EnvelopeType)
      /\ Range(Tail(Queue)) \subseteq Envelopes
      /\ \A e \in Range(Tail(Queue)) : InOrder(h, e)
      /\ Queue' = Tail(Queue) \o out
      /\ Envelopes' = Range(Tail(Queue)) \cup Range(out)
  BY <1>1, <1>2, <1>5, DeliveryQueue
<1>7. \A e \in Range(out) :
        /\ e \in EnvelopeType /\ AboutSlot(e)
        /\ AboutSlot(h) /\ Answers(e.msg, h.msg)
  <2>1. \A e \in Range(out) : e \in EnvelopeType
    BY <1>5, RangeEquality, ElementOfSeq
  <2> QED
    BY <1>4, <1>5, <2>1 DEF AboutSlot, Answers
<1>8. \A e \in Range(Tail(Queue)) : e \in EnvelopeType
  BY <1>2, <1>6, EnvelopeFields
<1>9. Ordered(Queue')
  <2>1. Ordered(out)
    <3>1. CASE AboutSlot(h)
      <4>1. h.msg.sequence \in Nat
        BY <1>3, <3>1, SlotMessageFields DEF AboutSlot, Seqs
      <4>2. PICK v, s : /\ v = h.msg.view
                        /\ s = h.msg.sequence /\ s \in Nat
        BY <4>1
      <4>3. \A e \in Range(out) :
              AboutSlot(e) => e.msg.view = v /\ e.msg.sequence = s
        BY <1>7, <4>2 DEF Answers
      <4> QED
        BY <4>2, <4>3, OneSlotOrdered
    <3>2. CASE ~AboutSlot(h)
      BY <1>5, <1>7, <3>2, OneSlotOrdered
    <3> QED
      BY <3>1, <3>2
  <2>2. \A d \in Range(Tail(Queue)), e \in Range(out) : InOrder(d, e)
    BY <1>3, <1>6, <1>7, <1>8, AnswerInOrder
  <2> QED
    BY <1>5, <1>6, <2>1, <2>2, ConcatOrdered
<1>10. MessagesNumbered'
  <2> SUFFICES ASSUME NEW e \in Envelopes', AboutSlot(e)
               PROVE  Numbered(e.msg.view, e.msg.sequence)'
    BY DEF MessagesNumbered
  <2>1. PICK d \in Envelopes : /\ AboutSlot(d)
                               /\ d.msg.view = e.msg.view
                               /\ d.msg.sequence = e.msg.sequence
    BY <1>3, <1>6, <1>7 DEF Answers
  <2>2. PICK v, s : v = e.msg.view /\ s = e.msg.sequence
    OBVIOUS
  <2>3. v \in Views /\ s \in Seqs /\ Numbered(v, s)
    BY <1>2, <2>1, <2>2, EnvelopeFields, SlotMessageFields
       DEF OrderInv, MessagesNumbered, AboutSlot
  <2>4. Numbered(v, s)'
    BY <2>3, NumberedStays
  <2> QED
    BY <2>2, <2>4
<1>11. CertificatesOut'
  BY <1>5, <1>6 DEF OrderInv, CertificatesOut
<1>12. \A j \in Nodes : \A x : Decides(j, x) =>
         /\ h.to = j
         /\ AboutSlot(h)
         /\ h.msg.view = x.view
         /\ h.msg.sequence = x.sequence
         /\ \/ Stage(h.msg) = 5 /\ j = Leader(x.view)
            \/ Stage(h.msg) = 6
  <2> SUFFICES ASSUME NEW j \in Nodes, NEW x, Decides(j, x)
               PROVE  /\ h.to = j
                      /\ AboutSlot(h)
                      /\ h.msg.view = x.view
                      /\ h.msg.sequence = x.sequence
                      /\ \/ Stage(h.msg) = 5 /\ j = Leader(x.view)
                         \/ Stage(h.msg) = 6
    OBVIOUS
  <2>1. /\ j = i
        /\ m.type # "NewView"
        /\ m.view = x.view
        /\ m.sequence = x.sequence
        /\ \/ Stage(m) = 5 /\ i = Leader(x.view)
           \/ Stage(m) = 6
    BY <1>2, CommitMessage
  <2> QED
    BY <1>3, <1>4, <2>1 DEF AboutSlot
<1>13. EntriesPassed' /\ PerViewOrder'
  BY <1>1, <1>3, <1>6, <1>7, <1>12, DeliverPassed
<1> QED
  BY <1>9, <1>10, <1>11, <1>13 DEF OrderInv

\* A leader numbers beyond everything under way about its view.
LEMMA ProposeOrder ==
  ASSUME TypeOK, TypeOK', OrderInv, NEW p \in Payloads, ProposeAccepted(p),
         \A n \in Nodes : \A x \in Entries(n) : Numbered(x.view, x.sequence)
  PROVE  OrderInv'
<1> DEFINE q == <<p, 0>>
<1>1. PICK j \in Nodes, w \in Views, t \in Seqs : Numbers(j, w, t, q)
  BY ProposeNumbers
<1>2. q \in Payload
  BY ProposeNumbers
<1> HIDE DEF q
<1> DEFINE offers == Broadcast(j, ProposeMsg(w, t, q))
<1>3. NetTypeOK /\ NetTypeOK' /\ LogTypeOK
  BY TypeParts, PTL
<1>4. Counting /\ ~Numbered(w, t) /\ Numbered(w, t)'
  BY <1>1, NumbersCount
<1>5. w = view[j] /\ Leader(w) = j /\ t = nextSequence[j]
      /\ UNCHANGED <<view, inflight, committed>> /\ Enqueue(offers)
  BY <1>1 DEF Numbers
<1>6. /\ offers \in Seq(EnvelopeType)
      /\ \A e \in Range(offers) :
           /\ e.msg.type = "Propose" /\ AboutSlot(e) /\ Stage(e.msg) = 0
           /\ e.msg.view = w /\ e.msg.sequence = t
  <2>1. ProposeMsg(w, t, q) \in Message
    BY <1>2, MessageTypes
  <2>2. /\ ProposeMsg(w, t, q).type = "Propose"
        /\ ProposeMsg(w, t, q).view = w
        /\ ProposeMsg(w, t, q).sequence = t
    BY DEF ProposeMsg
  <2>3. \A e \in Range(offers) : e.msg = ProposeMsg(w, t, q)
    <3>1. \A e \in Range(offers) :
            Sent(e, j, ProposeMsg(w, t, q)) /\ e.to # j
      BY SendRange
    <3> HIDE DEF offers
    <3> QED
      BY <3>1 DEF Sent
  <2> QED
    BY <2>1, <2>2, <2>3, SendType DEF AboutSlot, Stage
<1> HIDE DEF offers
<1>7. \A s \in Seqs : Numbered(w, s) => s < t
  BY <1>4, <1>5 DEF Numbered, Seqs
<1>8. /\ Queue \in Seq(EnvelopeType) /\ Range(Queue) = Envelopes
      /\ Queue' = Queue \o offers
      /\ Envelopes' = Envelopes \cup Range(offers)
  BY <1>3, <1>5, <1>6, QueueType, QueueSteps, EnqueueEnvelopes
<1>9. ASSUME NEW e \in Envelopes, AboutSlot(e), e.msg.view = w
      PROVE  e.msg.sequence \in Nat /\ e.msg.sequence < t
             /\ Stage(e.msg) \in Nat
  BY <1>3, <1>7, <1>9, EnvelopeFields, SlotMessageFields
     DEF AboutSlot, OrderInv, MessagesNumbered, Seqs
<1>10. Ordered(Queue')
  <2>1. Ordered(offers)
    <3>1. t \in Nat
      BY DEF Seqs
    <3> QED
      BY <1>6, <3>1, OneSlotOrdered
  <2>2. ASSUME NEW d \in Range(Queue), NEW e \in Range(offers)
        PROVE  InOrder(d, e)
    <3> SUFFICES ASSUME AboutSlot(d), d.msg.view = w
                 PROVE  /\ d.msg.sequence < t => 0 <= Stage(d.msg)
                        /\ ~(d.msg.sequence > t)
      BY <1>6 DEF InOrder
    <3> QED
      BY <1>8, <1>9 DEF Seqs
  <2> QED
    BY <1>6, <1>8, <2>1, <2>2, ConcatOrdered DEF OrderInv
<1>11. MessagesNumbered'
  <2> SUFFICES ASSUME NEW e \in Envelopes', AboutSlot(e)
               PROVE  Numbered(e.msg.view, e.msg.sequence)'
    BY DEF MessagesNumbered
  <2>1. PICK v, s : v = e.msg.view /\ s = e.msg.sequence
    OBVIOUS
  <2>2. CASE e \in Envelopes
    <3>1. v \in Views /\ s \in Seqs /\ Numbered(v, s)
      BY <1>3, <2>1, <2>2, EnvelopeFields, SlotMessageFields
         DEF OrderInv, MessagesNumbered, AboutSlot
    <3>2. Numbered(v, s)'
      BY <1>4, <3>1, NumberedStays
    <3> QED
      BY <2>1, <3>2
  <2>3. CASE e \in Range(offers)
    BY <1>4, <1>6, <2>3
  <2> QED
    BY <1>8, <2>2, <2>3
<1>12. CertificatesOut'
  BY <1>6, <1>8 DEF OrderInv, CertificatesOut
<1>13. EntriesPassed'
  <2> SUFFICES ASSUME NEW i \in Nodes, NEW x \in Entries(i)',
                      NEW e \in Envelopes', AboutSlot(e),
                      e.msg.view = x.view, e.msg.sequence < x.sequence
               PROVE  Stage(e.msg) = 6 /\ i = Leader(x.view)
    BY DEF EntriesPassed
  <2>1. x \in Entries(i)
    BY <1>5 DEF Entries
  <2>2. CASE e \in Envelopes
    BY <2>1, <2>2 DEF OrderInv, EntriesPassed
  <2>3. CASE e \in Range(offers)
    <3>1. x.sequence \in Seqs /\ Numbered(w, x.sequence) /\ t < x.sequence
      BY <1>3, <1>6, <2>1, <2>3, EntryFields
    <3> QED
      BY <1>7, <3>1 DEF Seqs
  <2> QED
    BY <1>8, <2>2, <2>3
<1>14. PerViewOrder'
  BY <1>5 DEF OrderInv, PerViewOrder
<1> QED
  BY <1>10, <1>11, <1>12, <1>13, <1>14 DEF OrderInv

LEMMA OrderStep ==
  ASSUME ConsensusInv, TypeOK', OrderInv, [Next]_vars
  PROVE  OrderInv'
<1>1. /\ TypeOK /\ TypeInv /\ ClaimInv /\ SlotInv /\ OfferInv
      /\ NetTypeOK /\ NetTypeOK' /\ LogTypeOK /\ Ordered(Queue)
  BY TypeParts, PTL DEF ConsensusInv, SafeInv, TypeInv, OrderInv
<1>2. Counting
  BY <1>1, SlotSteps
<1>3. Queue \in Seq(EnvelopeType) /\ Range(Queue) = Envelopes
  BY <1>1, QueueType
<1>4. CASE DeliverMessage
  BY <1>1, <1>2, <1>4, DeliverOrder
<1>5. CASE \E p \in Payloads : ProposeAccepted(p)
  <2>1. \A n \in Nodes : \A x \in Entries(n) : Numbered(x.view, x.sequence)
    <3> SUFFICES ASSUME NEW n \in Nodes, NEW x \in Entries(n)
                 PROVE  Numbered(x.view, x.sequence)
      OBVIOUS
    <3>1. /\ x.view \in Views /\ x.sequence \in Seqs /\ x.payload \in Payload
      BY <1>1, EntryFields
    <3>2. Claimed(x.view, x.sequence, x.payload)
      BY DEF Claimed, Logged
    <3> QED
      BY <1>1, <3>1, <3>2 DEF ClaimInv, ClaimsNumbered
  <2> QED
    BY <1>1, <1>5, <2>1, ProposeOrder
<1>6. CASE Tick
  <2>1. PICK out \in Seq(EnvelopeType) :
          Enqueue(out) /\ \A e \in Range(out) : ~AboutSlot(e)
    BY <1>1, <1>6, TicksSendNewViews
  <2>2. UNCHANGED inflight /\ UNCHANGED committed
    BY <1>1, <1>6, TicksSendNewViews
       DEF Tick, TickQuiet, TickCountdown, TickTimeout, nodeVars, logVars
  <2>3. Queue' = Queue \o out /\ Envelopes' = Envelopes \cup Range(out)
    BY <1>1, <2>1, <2>2, QueueSteps, EnqueueEnvelopes
  <2>4. Ordered(out) /\ \A d \in Range(Queue), e \in Range(out) : InOrder(d, e)
    BY <2>1, OneSlotOrdered DEF InOrder
  <2>5. Ordered(Queue')
    BY <1>1, <1>3, <2>1, <2>3, <2>4, ConcatOrdered
  <2> QED
    BY <1>1, <1>2, <2>1, <2>2, <2>3, <2>5, OrderKept
<1>7. CASE BeginStep \/ LoseMessage \/ ChangeFaults \/ UNCHANGED vars
           \/ \E p \in Payloads : ProposeRejected(p)
  <2>1. UNCHANGED nodeVars /\ Envelopes' \subseteq Envelopes
    BY <1>1, <1>7, ClusterSends
  <2>2. UNCHANGED committed
    BY <2>1 DEF nodeVars
  <2>3. Ordered(Queue')
    <3>1. CASE BeginStep
      BY <1>1, <3>1, QueueSteps DEF BeginStep
    <3>2. CASE LoseMessage
      BY <1>1, <1>3, <3>2, QueueSteps, TailOrdered DEF LoseMessage
    <3>3. CASE ChangeFaults \/ UNCHANGED vars
               \/ \E p \in Payloads : ProposeRejected(p)
      <4>1. UNCHANGED <<inflight, pending>>
        BY <3>3 DEF ChangeFaults, SetFaults, vars, clusterVars, ProposeRejected
      <4> QED
        BY <1>1, <4>1 DEF Queue
    <3> QED
      BY <1>7, <3>1, <3>2, <3>3
  <2> QED
    BY <1>1, <1>2, <2>1, <2>2, <2>3, OrderKept
<1> QED
  BY <1>4, <1>5, <1>6, <1>7 DEF Next

LEMMA InitOrder == Init => OrderInv
<1> SUFFICES ASSUME Init
             PROVE  OrderInv
  OBVIOUS
<1>1. /\ inflight = <<>> /\ pending = <<>>
      /\ \A n \in Nodes : committed[n] = <<>>
  BY DEF Init, ClusterInit
<1>2. Envelopes = {} /\ Queue = <<>>
  BY <1>1, EmptyRange DEF Envelopes, Queue
<1>3. Ordered(Queue)
  BY <1>2 DEF Ordered
<1>4. MessagesNumbered /\ CertificatesOut /\ EntriesPassed
  BY <1>2 DEF MessagesNumbered, CertificatesOut, EntriesPassed
<1>5. PerViewOrder
  BY <1>1 DEF PerViewOrder
<1> QED
  BY <1>3, <1>4, <1>5 DEF OrderInv

\* A node commits views in increasing order and the numbers of a view in
\* increasing order, each once, whatever is lost, for every number of nodes
\* and every fault: the rounds of a number never overtake those of another.
THEOREM CommitsInOrder == Spec => []PerViewOrder
<1>1. Init => ConsensusInv /\ OrderInv
  BY InitConsensus, InitOrder
<1>2. ConsensusInv /\ OrderInv /\ [Next]_vars => (ConsensusInv /\ OrderInv)'
  BY ConsensusStep, OrderStep DEF ConsensusInv, SafeInv, TypeInv
<1>3. ConsensusInv /\ OrderInv => PerViewOrder
  BY DEF OrderInv
<1> QED
  BY <1>1, <1>2, <1>3, PTL DEF Spec
=============================================================================
