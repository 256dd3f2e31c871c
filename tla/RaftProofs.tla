----------------------------- MODULE RaftProofs -----------------------------
(***************************************************************************)
(* Proofs about module Raft, for every number of nodes, every set of fault *)
(* configurations and every value of the bounds.  With or without a forced *)
(* leader: types, the order of the logs, what is handed out, votes.        *)
(* Without one, and with completed calls: one leader per term.             *)
(***************************************************************************)
EXTENDS Raft, SequenceTheorems, FiniteSetTheorems, TLAPS

LOCAL INSTANCE FiniteSetsExt

-----------------------------------------------------------------------------
(***************************************************************************)
(* Induction over sets of numbers.  The library's principles take an       *)
(* operator as a parameter; these take a set, which is all that is needed. *)
(***************************************************************************)

\* A set of numbers that has a member has a least one: of the intervals up
\* to its members one is minimal, since finite sets are well-founded.
LEMMA LeastNumber ==
  ASSUME NEW S \in SUBSET Nat, S # {}
  PROVE  \E m \in S : \A k \in S : m <= k
<1> DEFINE T == {0 .. k : k \in S}
<1>1. T \subseteq FiniteSubsetsOf(Nat)
  <2>1. ASSUME NEW k \in S
        PROVE  0 .. k \in FiniteSubsetsOf(Nat)
    <3>1. k \in Nat /\ k \in Int /\ 0 \in Int
      OBVIOUS
    <3>2. IsFiniteSet(0 .. k)
      BY <3>1, FS_Interval
    <3>3. 0 .. k \in SUBSET Nat
      BY <3>1
    <3> QED
      BY <3>2, <3>3 DEF FiniteSubsetsOf
  <2> QED
    BY <2>1
<1>2. T # {}
  OBVIOUS
<1>3. IsWellFoundedOn(StrictSubsetOrdering(Nat), FiniteSubsetsOf(Nat))
  BY FS_StrictSubsetOrderingWellFounded
<1> HIDE DEF T
<1>4. PICK I \in T : \A J \in T : <<J, I>> \notin StrictSubsetOrdering(Nat)
  BY <1>1, <1>2, <1>3, WFMin
<1>5. PICK m \in S : I = 0 .. m
  BY <1>4 DEF T
<1>6. ASSUME NEW k \in S, k < m
      PROVE  FALSE
  <2>1. 0 .. k \in T
    BY DEF T
  <2>2. m \in Nat /\ k \in Nat
    OBVIOUS
  <2>3. 0 .. k \subseteq 0 .. m /\ 0 .. k # 0 .. m
    BY <1>6, <2>2
  <2>4. 0 .. k \in SUBSET Nat /\ 0 .. m \in SUBSET Nat
    BY <2>2
  <2>5. <<0 .. k, 0 .. m>> \in StrictSubsetOrdering(Nat)
    BY <2>3, <2>4 DEF StrictSubsetOrdering
  <2> QED
    BY <1>4, <1>5, <2>1, <2>5
<1> QED
  BY <1>6

\* A set of numbers with 0 and the successor of each member is all of them.
LEMMA NumberInduction ==
  ASSUME NEW G, 0 \in G, \A k \in Nat : k \in G => k + 1 \in G
  PROVE  Nat \subseteq G
<1> SUFFICES ASSUME ~(Nat \subseteq G) PROVE FALSE
  OBVIOUS
<1>1. Nat \ G \in SUBSET Nat /\ Nat \ G # {}
  OBVIOUS
<1>2. PICK m \in Nat \ G : \A k \in Nat \ G : m <= k
  BY <1>1, LeastNumber
<1>3. m \in Nat /\ m # 0 /\ m \notin G
  BY <1>2
<1>4. m - 1 \in Nat /\ m = (m - 1) + 1
  BY <1>3
<1>5. m - 1 \in G
  BY <1>2, <1>4
<1> QED
  BY <1>3, <1>4, <1>5

\* A bounded set of numbers that has a member has a greatest one, and Max
\* is in it.
LEMMA MaxInSet ==
  ASSUME NEW n \in Nat, NEW S \in SUBSET (0 .. n), S # {}
  PROVE  Max(S) \in S
<1> DEFINE T == {n - k : k \in S}
<1>1. T \in SUBSET Nat /\ T # {}
  <2>1. \A k \in S : n - k \in Nat
    OBVIOUS
  <2> QED
    BY <2>1
<1>2. PICK m \in T : \A k \in T : m <= k
  <2> HIDE DEF T
  <2> QED
    BY <1>1, LeastNumber
<1>3. PICK x \in S : m = n - x
  BY <1>2
<1>4. \A y \in S : x >= y
  <2> TAKE y \in S
  <2>1. m <= n - y
    BY <1>2
  <2> QED
    BY <1>3, <2>1
<1> QED
  BY <1>3, <1>4 DEF Max

-----------------------------------------------------------------------------
(* Lemmas about the operators *)

\* A peer of a node is another node.
LEMMA PeerIsOther ==
  \A i \in Nodes : \A k \in 1 .. N - 1 : Peer(i, k) \in Nodes \ {i}
  BY SizeAssumption, SMT DEF Peer, Nodes

\* The loop over the entries of a message takes one entry after the other:
\* the recursive function Merged is defined with exists.
LEMMA MergeSteps ==
  ASSUME NEW l, NEW entries, Len(entries) \in Nat
  PROVE  \E f : /\ f[0] = l
                /\ \A k \in 1 .. Len(entries) :
                     f[k] = AppendOrReplace(f[k - 1], entries[k])
                /\ Merged(l, entries) = f[Len(entries)]
<1> DEFINE Rec(n, f) ==
             f = [k \in 0 .. n |->
                    IF k = 0 THEN l
                    ELSE AppendOrReplace(f[k - 1], entries[k])]
           G == {n \in Nat : \E f : Rec(n, f)}
<1>1. 0 \in G
  <2> DEFINE f == [k \in 0 .. 0 |-> l]
  <2>1. Rec(0, f)
    OBVIOUS
  <2> QED
    BY <2>1
<1>2. ASSUME NEW n \in Nat, n \in G
      PROVE  n + 1 \in G
  <2>1. PICK f : Rec(n, f)
    BY <1>2
  <2> DEFINE g == [k \in 0 .. n + 1 |->
                     IF k <= n THEN f[k]
                     ELSE AppendOrReplace(f[n], entries[n + 1])]
  <2>2. ASSUME NEW k \in 0 .. n + 1
        PROVE  g[k] = IF k = 0 THEN l
                      ELSE AppendOrReplace(g[k - 1], entries[k])
    <3>1. CASE k = 0
      BY <2>1, <3>1
    <3>2. CASE k # 0 /\ k <= n
      <4>1. g[k] = f[k] /\ g[k - 1] = f[k - 1]
        BY <3>2
      <4>2. f[k] = AppendOrReplace(f[k - 1], entries[k])
        BY <2>1, <3>2
      <4> QED
        BY <3>2, <4>1, <4>2
    <3>3. CASE k = n + 1
      BY <3>3
    <3> QED
      BY <3>1, <3>2, <3>3
  <2>3. Rec(n + 1, g)
    BY <2>2
  <2> HIDE DEF g, Rec
  <2> QED
    BY <2>3
<1>3. Nat \subseteq G
  <2> HIDE DEF G
  <2> QED
    BY <1>1, <1>2, NumberInduction
<1>4. \E f : Rec(Len(entries), f)
  BY <1>3
<1> DEFINE merged == CHOOSE f : Rec(Len(entries), f)
<1>5. Rec(Len(entries), merged)
  BY <1>4
<1>6. Merged(l, entries) = merged[Len(entries)]
  BY DEF Merged
<1>7. /\ merged[0] = l
      /\ \A k \in 1 .. Len(entries) :
           merged[k] = AppendOrReplace(merged[k - 1], entries[k])
  <2> HIDE DEF merged
  <2> QED
    BY <1>5
<1> QED
  BY <1>6, <1>7

\* One entry pushed or written over the log keeps it a log.
LEMMA AppendOrReplaceType ==
  ASSUME NEW l \in Seq(LogEntry), NEW entry \in LogEntry
  PROVE  AppendOrReplace(l, entry) \in Seq(LogEntry)
<1>1. entry.index \in Nat \ {0}
  BY DEF LogEntry
<1>2. Append(l, entry) \in Seq(LogEntry)
  BY AppendProperties
<1>3. CASE entry.index > Len(l)
  BY <1>2, <1>3 DEF AppendOrReplace
<1>4. CASE ~(entry.index > Len(l))
  <2>1. SubSeq(l, 1, entry.index - 1) \in Seq(LogEntry)
    <3>1. Len(l) \in Nat /\ entry.index - 1 \in Int /\ 1 \in Int
      BY <1>1, LenProperties
    <3>2. \A k \in 1 .. entry.index - 1 : l[k] \in LogEntry
      BY <1>1, <1>4, <3>1, ElementOfSeq
    <3> QED
      BY <3>1, <3>2, SubSeqProperties
  <2>2. Append(SubSeq(l, 1, entry.index - 1), entry) \in Seq(LogEntry)
    BY <2>1, AppendProperties
  <2> QED
    BY <1>4, <2>2 DEF AppendOrReplace
<1> QED
  BY <1>3, <1>4

\* So do all the entries of a message.
LEMMA MergedType ==
  ASSUME NEW l \in Seq(LogEntry), NEW entries \in Seq(LogEntry)
  PROVE  Merged(l, entries) \in Seq(LogEntry)
<1>1. Len(entries) \in Nat
  BY LenProperties
<1>2. PICK f : /\ f[0] = l
               /\ \A k \in 1 .. Len(entries) :
                    f[k] = AppendOrReplace(f[k - 1], entries[k])
               /\ Merged(l, entries) = f[Len(entries)]
  BY <1>1, MergeSteps
<1> DEFINE G == {k \in Nat : k <= Len(entries) => f[k] \in Seq(LogEntry)}
<1>3. 0 \in G
  BY <1>2
<1>4. ASSUME NEW k \in Nat, k \in G
      PROVE  k + 1 \in G
  <2>1. CASE k + 1 <= Len(entries)
    <3>1. f[k] \in Seq(LogEntry)
      BY <1>1, <1>4, <2>1
    <3>2. k + 1 \in 1 .. Len(entries) /\ (k + 1) - 1 = k
      BY <1>1, <2>1
    <3>3. entries[k + 1] \in LogEntry
      BY <3>2, ElementOfSeq
    <3>4. f[k + 1] = AppendOrReplace(f[k], entries[k + 1])
      BY <1>2, <3>2
    <3>5. f[k + 1] \in Seq(LogEntry)
      BY <3>1, <3>3, <3>4, AppendOrReplaceType
    <3> QED
      BY <3>5
  <2>2. CASE ~(k + 1 <= Len(entries))
    BY <2>2
  <2> QED
    BY <2>1, <2>2
<1>5. Nat \subseteq G
  <2> HIDE DEF G
  <2> QED
    BY <1>3, <1>4, NumberInduction
<1> QED
  BY <1>1, <1>2, <1>5

\* The messages nodes send are messages.
LEMMA MessageTypes ==
  /\ \A t \in Terms, i \in Nodes, l \in Seq(LogEntry) :
       RequestVoteMsg(t, i, l) \in Message
  /\ \A t \in Terms, granted \in BOOLEAN :
       RequestVoteResponseMsg(t, granted) \in Message
  /\ \A t \in Terms, success \in BOOLEAN, match \in Nat :
       AppendEntriesResponseMsg(t, success, match) \in Message
<1>1. ASSUME NEW t \in Terms, NEW i \in Nodes, NEW l \in Seq(LogEntry)
      PROVE  RequestVoteMsg(t, i, l) \in Message
  <2>1. Len(l) \in Nat
    BY LenProperties
  <2>2. LastTerm(l) \in Terms
    <3>1. CASE l = <<>>
      BY <3>1, RaftAssumption DEF LastTerm, Terms
    <3>2. CASE l # <<>>
      <4>1. Len(l) \in 1 .. Len(l)
        BY <3>2, EmptySeq
      <4>2. l[Len(l)] \in LogEntry
        BY <4>1, ElementOfSeq
      <4> QED
        BY <3>2, <4>2 DEF LastTerm, LogEntry
    <3> QED
      BY <3>1, <3>2
  <2> QED
    BY <2>1, <2>2 DEF RequestVoteMsg, Message
<1>2. \A t \in Terms, granted \in BOOLEAN :
        RequestVoteResponseMsg(t, granted) \in Message
  BY DEF RequestVoteResponseMsg, Message
<1>3. \A t \in Terms, success \in BOOLEAN, match \in Nat :
        AppendEntriesResponseMsg(t, success, match) \in Message
  BY DEF AppendEntriesResponseMsg, Message
<1> QED
  BY <1>1, <1>2, <1>3

\* What the type of a message says of its fields.
LEMMA MessageFields ==
  ASSUME NEW m \in Message
  PROVE  /\ m.term \in Terms
         /\ m.type = "RequestVote" =>
              /\ m.candidateId \in Nodes
              /\ m.lastLogIndex \in Nat
              /\ m.lastLogTerm \in Terms
         /\ m.type = "RequestVoteResponse" => m.voteGranted \in BOOLEAN
         /\ m.type = "AppendEntries" =>
              /\ m.leaderId \in Nodes
              /\ m.prevLogIndex \in Nat
              /\ m.prevLogTerm \in Terms
              /\ m.entries \in Seq(LogEntry)
              /\ m.leaderCommit \in Nat
         /\ m.type = "AppendEntriesResponse" =>
              m.success \in BOOLEAN /\ m.matchIndex \in Nat
  BY DEF Message

\* What is left of a log from some place on is a sequence of entries.
LEMMA SuffixType ==
  ASSUME NEW l \in Seq(LogEntry), NEW next \in Nat \ {0}
  PROVE  /\ SubSeq(l, next, Len(l)) \in Seq(LogEntry)
         /\ Len(SubSeq(l, next, Len(l))) =
              IF next <= Len(l) THEN Len(l) - next + 1 ELSE 0
         /\ \A k \in 1 .. Len(l) - next + 1 :
              SubSeq(l, next, Len(l))[k] = l[next + k - 1]
<1>1. Len(l) \in Nat /\ Len(l) \in Int /\ next \in Int
  BY LenProperties
<1>2. \A k \in next .. Len(l) : l[k] \in LogEntry
  BY <1>1, ElementOfSeq
<1> QED
  BY <1>1, <1>2, SubSeqProperties

LEMMA AppendEntriesType ==
  ASSUME NEW i \in Nodes, NEW l \in Seq(LogEntry), NEW commit \in Nat,
         NEW next \in Nat \ {0}, currentTerm[i] \in Terms
  PROVE  BuildAppendEntries(i, l, next, commit) \in Message
<1>1. SubSeq(l, next, Len(l)) \in Seq(LogEntry)
  BY SuffixType
<1>2. next - 1 \in Nat
  OBVIOUS
<1>3. (IF next - 1 \in DOMAIN l THEN l[next - 1].term ELSE 0) \in Terms
  <2>1. DOMAIN l = 1 .. Len(l) /\ 0 \in Terms
    BY LenProperties, RaftAssumption DEF Terms
  <2>2. next - 1 \in DOMAIN l => l[next - 1] \in LogEntry
    BY <2>1, ElementOfSeq
  <2> QED
    BY <2>1, <2>2 DEF LogEntry
<1> QED
  BY <1>1, <1>2, <1>3 DEF BuildAppendEntries, AppendEntriesMsg, Message

\* What is sent is a sequence of envelopes.
LEMMA SendType ==
  ASSUME NEW i \in Nodes
  PROVE  /\ \A m \in Message : Broadcast(i, m) \in Seq(EnvelopeType)
         /\ \A j \in Nodes : \A m \in Message :
              <<Envelope(i, j, m)>> \in Seq(EnvelopeType)
         /\ \A l \in Seq(LogEntry) : \A next \in [Nodes -> Nat \ {0}] :
              commitIndex[i] \in Nat /\ currentTerm[i] \in Terms
                => AppendEntriesToAll(i, l, next) \in Seq(EnvelopeType)
<1>1. \A j \in Nodes : \A m \in Message : Envelope(i, j, m) \in EnvelopeType
  BY DEF Envelope, EnvelopeType
<1>2. N - 1 \in Nat
  BY SizeAssumption
<1>3. ASSUME NEW m \in Message
      PROVE  Broadcast(i, m) \in Seq(EnvelopeType)
  <2>1. Broadcast(i, m) \in [1 .. N - 1 -> EnvelopeType]
    BY <1>1, PeerIsOther DEF Broadcast
  <2> QED
    BY <1>2, <2>1, SeqDef
<1>4. ASSUME NEW j \in Nodes, NEW m \in Message
      PROVE  <<Envelope(i, j, m)>> \in Seq(EnvelopeType)
  BY <1>1
<1>5. ASSUME NEW l \in Seq(LogEntry), NEW next \in [Nodes -> Nat \ {0}],
             commitIndex[i] \in Nat, currentTerm[i] \in Terms
      PROVE  AppendEntriesToAll(i, l, next) \in Seq(EnvelopeType)
  <2>1. ASSUME NEW k \in 1 .. N - 1
        PROVE  Envelope(i, Peer(i, k),
                        BuildAppendEntries(i, l, next[Peer(i, k)],
                                           commitIndex[i])) \in EnvelopeType
    <3>1. Peer(i, k) \in Nodes
      BY PeerIsOther
    <3>2. next[Peer(i, k)] \in Nat \ {0}
      BY <3>1
    <3> QED
      BY <1>1, <1>5, <3>1, <3>2, AppendEntriesType
  <2>2. AppendEntriesToAll(i, l, next) \in [1 .. N - 1 -> EnvelopeType]
    BY <2>1 DEF AppendEntriesToAll
  <2> QED
    BY <1>2, <2>2, SeqDef
<1> QED
  BY <1>3, <1>4, <1>5

\* Tampering changes nothing but the payloads of entries.
LEMMA TamperedType ==
  ASSUME NEW e \in EnvelopeType
  PROVE  /\ Tampered(e) \in Message
         /\ Tampered(e) # e.msg =>
              /\ e.msg.type = "AppendEntries"
              /\ Tampered(e).entries =
                   [k \in DOMAIN e.msg.entries |->
                      [e.msg.entries[k] EXCEPT
                         !.payload = Extended(@)]]
              /\ Tampered(e) = [e.msg EXCEPT !.entries = Tampered(e).entries]
<1> DEFINE m == e.msg
           es == [k \in DOMAIN m.entries |->
                    [m.entries[k] EXCEPT !.payload = Extended(@)]]
<1>1. m \in Message
  BY DEF EnvelopeType
<1>2. m.type \notin {"PrePrepare", "Prepare", "Commit", "Propose", "Vote",
                     "QuorumCertificate"}
  BY <1>1 DEF Message
<1>3. \A x : x.type = m.type => Corrupted(x) = x
  BY <1>2 DEF Corrupted
<1>4. CASE m.type = "AppendEntries"
  <2>1. /\ m \in [type : {"AppendEntries"}, term : Terms, leaderId : Nodes,
                  prevLogIndex : Nat, prevLogTerm : Terms,
                  entries : Seq(LogEntry), leaderCommit : Nat]
        /\ m.entries \in Seq(LogEntry)
    BY <1>1, <1>4 DEF Message
  <2>2. Len(m.entries) \in Nat /\ DOMAIN m.entries = 1 .. Len(m.entries)
    BY <2>1, LenProperties
  <2>3. ASSUME NEW k \in DOMAIN m.entries
        PROVE  [m.entries[k] EXCEPT !.payload = Extended(@)] \in LogEntry
    <3>1. m.entries[k] \in LogEntry
      BY <2>1, <2>2, ElementOfSeq
    <3>2. Extended(m.entries[k].payload) \in Payload
      BY <3>1 DEF LogEntry, Payload, Extended
    <3> QED
      BY <3>1, <3>2 DEF LogEntry
  <2>4. es \in Seq(LogEntry)
    BY <2>2, <2>3, SeqDef
  <2> HIDE DEF es
  <2>5. [m EXCEPT !.entries = es] \in Message
    BY <2>1, <2>4 DEF Message
  <2>6. Tampered(e) = m \/ Tampered(e) = [m EXCEPT !.entries = es]
    <3>1. Equivocated(m, e.to) = m \/
          Equivocated(m, e.to) = [m EXCEPT !.entries = es]
      BY <1>4 DEF Equivocated, es
    <3>2. Equivocated(m, e.to).type = m.type
      BY <2>1, <3>1
    <3> QED
      BY <1>3, <3>1, <3>2 DEF Tampered
  <2>7. [m EXCEPT !.entries = es].entries = es
    BY <2>1
  <2> QED
    BY <1>1, <1>4, <2>5, <2>6, <2>7 DEF es
<1>5. CASE m.type # "AppendEntries"
  <2>1. Equivocated(m, e.to) = m
    BY <1>2, <1>5 DEF Equivocated
  <2> QED
    BY <1>1, <1>3, <2>1 DEF Tampered
<1> QED
  BY <1>4, <1>5

-----------------------------------------------------------------------------
(***************************************************************************)
(* Type correctness.  As in the other protocols TypeOK is not inductive: a *)
(* tick that has started must not carry a node beyond MaxTerm.             *)
(***************************************************************************)
NetTypeOK ==
    /\ pending \in Seq(EnvelopeType)
    /\ inflight \in Seq(EnvelopeType)
    /\ ticking \in Nodes
    /\ faults \in FaultConfigs \cup {NoFaults}
    /\ drops \in 0 .. MaxDrops
    /\ faultChanges \in 0 .. MaxFaultChanges

TermTypeOK ==
    /\ currentTerm \in [Nodes -> Terms]
    /\ votedFor \in [Nodes -> Nodes \cup {None}]
    /\ role \in [Nodes -> {"Follower", "Candidate", "Leader"}]
    /\ leaderId \in [Nodes -> Nodes \cup {None}]

LogTypeOK ==
    /\ log \in [Nodes -> Seq(LogEntry)]
    /\ commitIndex \in [Nodes -> Nat]
    /\ committed \in [Nodes -> Seq(CommittedEntry)]

LeaderTypeOK ==
    /\ nextIndex \in [Nodes -> [Nodes -> Nat \ {0}]]
    /\ matchIndex \in [Nodes -> [Nodes -> Nat]]
    /\ votesReceived \in [Nodes -> Nat]

Countdown == UNION {0 .. t : t \in ElectionTimeouts}

TimerTypeOK ==
    /\ electionTicksRemaining \in [Nodes -> Countdown]
    /\ heartbeatTicksRemaining \in [Nodes -> 0 .. HEARTBEAT_INTERVAL]

OutcomeOK == outcome \in [Payloads -> {"unsent", "accepted", "rejected"}]

NodeTypeOK == TermTypeOK /\ LogTypeOK /\ LeaderTypeOK /\ TimerTypeOK

TickBounded ==
    ticking # 0 =>
        /\ inflight = <<>>
        /\ \A i \in Nodes :
             i >= ticking /\ role[i] # "Leader" /\ electionTicksRemaining[i] = 0
                => currentTerm[i] < MaxTerm

TypeInv == TypeOK /\ TickBounded

LEMMA TypeParts ==
  TypeOK <=> /\ NetTypeOK
             /\ TermTypeOK
             /\ LogTypeOK
             /\ LeaderTypeOK
             /\ TimerTypeOK
             /\ OutcomeOK
  BY DEF TypeOK, NetTypeOK, TermTypeOK, LogTypeOK, LeaderTypeOK, TimerTypeOK,
         OutcomeOK, Countdown

\* A countdown stays one while it is not at zero, and timeouts are countdowns.
LEMMA CountdownTypes ==
  /\ Countdown \subseteq Nat
  /\ ElectionTimeouts \subseteq Countdown
  /\ \A k \in Countdown : k > 0 => k - 1 \in Countdown
<1>1. ElectionTimeouts \subseteq Nat
  BY RaftAssumption
<1>2. \A t \in ElectionTimeouts : t \in 0 .. t
  BY <1>1
<1>3. \A t \in ElectionTimeouts : \A k \in 0 .. t :
        k \in Nat /\ (k > 0 => k - 1 \in 0 .. t)
  BY <1>1
<1> QED
  BY <1>2, <1>3 DEF Countdown

\* A delivery keeps the network well-typed when the handler sends envelopes.
LEMMA ConsumeType ==
  ASSUME NetTypeOK, inflight # <<>>,
         NEW out \in Seq(EnvelopeType), Consume(out)
  PROVE  NetTypeOK'
<1>1. Tail(inflight) \in Seq(EnvelopeType)
  BY HeadTailProperties DEF NetTypeOK
<1>2. pending \o out \in Seq(EnvelopeType)
  BY ConcatProperties DEF NetTypeOK
<1> QED
  BY <1>1, <1>2 DEF NetTypeOK, Consume, Enqueue

\* So does a turn of a tick.
LEMMA TickTurnType ==
  ASSUME NetTypeOK, NEW i \in Nodes,
         NEW out \in Seq(EnvelopeType), TickTurn(i, out)
  PROVE  NetTypeOK'
<1>1. pending \o out \in Seq(EnvelopeType)
  BY ConcatProperties DEF NetTypeOK
<1>2. (ticking + 1) % N \in Nodes
  BY SizeAssumption DEF NetTypeOK, Nodes
<1> QED
  BY <1>1, <1>2 DEF NetTypeOK, TickTurn, Enqueue

\* What is delivered comes from a node and reaches one, as a message.
LEMMA DeliveredType ==
  ASSUME NetTypeOK, Deliverable,
         NEW e, e = [Head(inflight) EXCEPT !.msg = Tampered(Head(inflight))]
  PROVE  /\ inflight # <<>>
         /\ Head(inflight) \in EnvelopeType
         /\ e \in EnvelopeType
         /\ e.from = Head(inflight).from
         /\ e.to = Head(inflight).to
         /\ e.msg = Tampered(Head(inflight))
<1>1. inflight # <<>> /\ Head(inflight) \in EnvelopeType
  BY HeadTailProperties DEF NetTypeOK, Deliverable
<1>2. Tampered(Head(inflight)) \in Message
  BY <1>1, TamperedType
<1> QED
  BY <1>1, <1>2 DEF EnvelopeType

LEMMA InitType == Init => TypeInv
<1> SUFFICES ASSUME Init PROVE TypeInv
  OBVIOUS
<1>1. NetTypeOK
  BY SizeAssumption, FaultAssumption, EmptySeq
     DEF Init, ClusterInit, NetTypeOK, Nodes
<1>2. TermTypeOK
  BY RaftAssumption DEF Init, TermTypeOK, Terms
<1>3. LogTypeOK /\ LeaderTypeOK
  BY EmptySeq DEF Init, LogTypeOK, LeaderTypeOK
<1>4. TimerTypeOK /\ OutcomeOK
  <2>1. electionTicksRemaining \in [Nodes -> Countdown]
    BY CountdownTypes DEF Init
  <2> QED
    BY <2>1, RaftAssumption DEF Init, TimerTypeOK, OutcomeOK
<1>5. TickBounded
  BY DEF Init, ClusterInit, TickBounded
<1> QED
  BY <1>1, <1>2, <1>3, <1>4, <1>5, TypeParts DEF TypeInv

\* The node a client is sent to is one.
LEMMA TargetIsNode ==
  ASSUME TermTypeOK, NEW i \in Asked
  PROVE  ProposalTarget(i) \in Nodes
  BY DEF TermTypeOK, Asked, Answers, ProposalTarget

LEMMA ProposeType ==
  ASSUME TypeOK, NEW p \in Payloads, ProposeAccepted(p)
  PROVE  TypeOK'
<1>1. PICK i \in Asked : /\ role[ProposalTarget(i)] = "Leader"
                         /\ AppendProposal(ProposalTarget(i), <<p, 0>>)
  BY DEF ProposeAccepted
<1> DEFINE j == ProposalTarget(i)
           entry == [term |-> currentTerm[j], index |-> Len(log[j]) + 1,
                     payload |-> <<p, 0>>]
           l == Append(log[j], entry)
           out == AppendEntriesToAll(j, l, nextIndex[j])
<1>2. j \in Nodes
  BY TargetIsNode, TypeParts
<1>3. /\ currentTerm[j] \in Terms
      /\ log[j] \in Seq(LogEntry)
      /\ commitIndex[j] \in Nat
      /\ nextIndex[j] \in [Nodes -> Nat \ {0}]
  BY <1>2 DEF TypeOK
<1>4. l \in Seq(LogEntry)
  <2>1. Len(log[j]) + 1 \in Nat \ {0}
    BY <1>3, LenProperties
  <2>2. entry \in LogEntry
    BY <1>3, <2>1 DEF LogEntry, Payload
  <2> QED
    BY <1>3, <2>2, AppendProperties
<1>5. /\ log' = [log EXCEPT ![j] = l]
      /\ pending' = pending \o out
  BY <1>1 DEF AppendProposal, Enqueue
<1> HIDE DEF j, l
<1>6. out \in Seq(EnvelopeType)
  BY <1>2, <1>3, <1>4, SendType
<1>7. NetTypeOK'
  <2>1. pending' \in Seq(EnvelopeType)
    BY <1>5, <1>6, ConcatProperties DEF TypeOK
  <2> QED
    BY <2>1 DEF ProposeAccepted, TypeOK, NetTypeOK
<1>8. LogTypeOK'
  BY <1>4, <1>5, TypeParts DEF LogTypeOK, ProposeAccepted
<1>9. TermTypeOK' /\ LeaderTypeOK' /\ TimerTypeOK' /\ OutcomeOK'
  BY TypeParts DEF ProposeAccepted, TermTypeOK, LeaderTypeOK, TimerTypeOK,
                   OutcomeOK, termVars, leaderVars, timerVars
<1> QED
  BY <1>7, <1>8, <1>9, TypeParts, PTL

\* A reply is one envelope back to the sender.
LEMMA ReplyType ==
  ASSUME NetTypeOK, inflight # <<>>, NEW e \in EnvelopeType,
         NEW m \in Message, Reply(e, m)
  PROVE  NetTypeOK'
<1>1. e.to \in Nodes /\ e.from \in Nodes
  BY DEF EnvelopeType
<1>2. <<Envelope(e.to, e.from, m)>> \in Seq(EnvelopeType)
  BY <1>1, SendType
<1> QED
  BY <1>2, ConsumeType DEF Reply

\* Requests for a vote and what answers them.
LEMMA RequestVoteType ==
  ASSUME TypeOK, inflight # <<>>, NEW e \in EnvelopeType, HandleRequestVote(e)
  PROVE  TypeOK'
<1> DEFINE i == e.to
           m == e.msg
           term == IF IsNewer(i, m) THEN m.term ELSE currentTerm[i]
<1>1. i \in Nodes /\ m \in Message
  BY DEF EnvelopeType
<1>2. m.term \in Terms /\ m.candidateId \in Nodes
  BY <1>1, MessageFields DEF HandleRequestVote
<1>3. term \in Terms /\ Grants(i, m) \in BOOLEAN
  BY <1>1, <1>2 DEF TypeOK, Grants
<1>4. NetTypeOK'
  BY <1>3, MessageTypes, ReplyType, TypeParts DEF HandleRequestVote
<1>5. TermTypeOK'
  <2>1. currentTerm' \in [Nodes -> Terms]
    BY <1>1, <1>3 DEF HandleRequestVote, TypeOK
  <2>2. votedFor' \in [Nodes -> Nodes \cup {None}]
    BY <1>1, <1>2 DEF HandleRequestVote, TypeOK
  <2>3. /\ role' \in [Nodes -> {"Follower", "Candidate", "Leader"}]
        /\ leaderId' \in [Nodes -> Nodes \cup {None}]
    BY <1>1 DEF HandleRequestVote, TypeOK
  <2> QED
    BY <2>1, <2>2, <2>3 DEF TermTypeOK
<1>6. TimerTypeOK'
  BY <1>1, CountdownTypes, TypeParts DEF HandleRequestVote, TimerTypeOK
<1>7. LogTypeOK' /\ LeaderTypeOK' /\ OutcomeOK'
  BY TypeParts DEF HandleRequestVote, LogTypeOK, LeaderTypeOK, OutcomeOK,
                   logVars, leaderVars
<1> QED
  BY <1>4, <1>5, <1>6, <1>7, TypeParts, PTL

LEMMA StepDownType ==
  ASSUME TypeOK, inflight # <<>>, NEW e \in EnvelopeType, StepDown(e)
  PROVE  TypeOK'
<1>1. e.to \in Nodes /\ e.msg.term \in Terms
  BY MessageFields DEF EnvelopeType
<1>2. NetTypeOK'
  BY EmptySeq, ConsumeType, TypeParts DEF StepDown
<1>3. TermTypeOK'
  BY <1>1, TypeParts DEF StepDown, TermTypeOK
<1>4. LogTypeOK' /\ LeaderTypeOK' /\ TimerTypeOK' /\ OutcomeOK'
  BY TypeParts DEF StepDown, LogTypeOK, LeaderTypeOK, TimerTypeOK, OutcomeOK,
                   logVars, leaderVars, timerVars
<1> QED
  BY <1>2, <1>3, <1>4, TypeParts, PTL

LEMMA CountVoteType ==
  ASSUME TypeOK, inflight # <<>>, NEW e \in EnvelopeType, CountVote(e)
  PROVE  TypeOK'
<1>1. NetTypeOK'
  BY EmptySeq, ConsumeType, TypeParts DEF CountVote
<1>2. LeaderTypeOK'
  <2>1. votesReceived' = [votesReceived EXCEPT ![e.to] = @ + 1]
    BY DEF CountVote
  <2>2. votesReceived' \in [Nodes -> Nat]
    <3>1. e.to \in Nodes /\ votesReceived \in [Nodes -> Nat]
      BY DEF EnvelopeType, TypeOK
    <3>2. votesReceived[e.to] + 1 \in Nat
      BY <3>1
    <3> QED
      BY <2>1, <3>1, <3>2
  <2> QED
    BY <2>2 DEF CountVote, TypeOK, LeaderTypeOK, leaderVars
<1>3. TermTypeOK' /\ LogTypeOK' /\ TimerTypeOK' /\ OutcomeOK'
  BY TypeParts DEF CountVote, TermTypeOK, LogTypeOK, TimerTypeOK, OutcomeOK,
                   termVars, logVars, timerVars
<1> QED
  BY <1>1, <1>2, <1>3, TypeParts, PTL

LEMMA WinElectionType ==
  ASSUME TypeOK, inflight # <<>>, NEW e \in EnvelopeType, WinElection(e)
  PROVE  TypeOK'
<1> DEFINE i == e.to
           next == [p \in Nodes |-> IF p = i THEN nextIndex[i][p]
                                             ELSE Len(log[i]) + 1]
           out == AppendEntriesToAll(i, log[i], next)
<1>1. i \in Nodes
  BY DEF EnvelopeType
<1>2. /\ currentTerm[i] \in Terms
      /\ log[i] \in Seq(LogEntry)
      /\ commitIndex[i] \in Nat
      /\ nextIndex[i] \in [Nodes -> Nat \ {0}]
  BY <1>1 DEF TypeOK
<1>3. next \in [Nodes -> Nat \ {0}]
  <2>1. Len(log[i]) + 1 \in Nat \ {0}
    BY <1>2, LenProperties
  <2> QED
    BY <1>2, <2>1
<1>4. nextIndex' = [nextIndex EXCEPT ![i] = next] /\ Consume(out)
  BY DEF WinElection
<1> HIDE DEF next, i
<1>5. NetTypeOK'
  BY <1>1, <1>2, <1>3, <1>4, SendType, ConsumeType, TypeParts
<1>6. TermTypeOK'
  BY <1>1, TypeParts DEF WinElection, TermTypeOK, i
<1>7. LeaderTypeOK'
  <2>1. nextIndex' \in [Nodes -> [Nodes -> Nat \ {0}]]
    BY <1>3, <1>4 DEF TypeOK
  <2>2. matchIndex' \in [Nodes -> [Nodes -> Nat]]
    BY DEF WinElection, TypeOK
  <2>3. votesReceived' \in [Nodes -> Nat]
    <3>1. votesReceived' = [votesReceived EXCEPT ![i] = @ + 1]
      BY DEF WinElection, i
    <3>2. votesReceived \in [Nodes -> Nat]
      BY DEF TypeOK
    <3>3. votesReceived[i] + 1 \in Nat
      BY <1>1, <3>2
    <3> QED
      BY <1>1, <3>1, <3>2, <3>3
  <2> QED
    BY <2>1, <2>2, <2>3 DEF LeaderTypeOK
<1>8. LogTypeOK' /\ TimerTypeOK' /\ OutcomeOK'
  BY TypeParts DEF WinElection, LogTypeOK, TimerTypeOK, OutcomeOK, logVars,
                   timerVars
<1> QED
  BY <1>5, <1>6, <1>7, <1>8, TypeParts, PTL

\* Every branch of AppendEntries that takes the sender as the leader.
LEMMA FollowLeaderType ==
  ASSUME TypeOK, NEW i \in Nodes, NEW m \in Message, FollowLeader(i, m)
  PROVE  /\ TermTypeOK' /\ LeaderTypeOK' /\ TimerTypeOK' /\ OutcomeOK'
         /\ m.term \in Terms
<1>1. m.term \in Terms /\ m.leaderId \in Nodes
  BY MessageFields DEF FollowLeader
<1>2. TermTypeOK'
  BY <1>1, TypeParts DEF FollowLeader, TermTypeOK
<1>3. LeaderTypeOK' /\ OutcomeOK'
  BY TypeParts DEF FollowLeader, LeaderTypeOK, OutcomeOK, leaderVars
<1>4. TimerTypeOK'
  BY CountdownTypes, TypeParts DEF FollowLeader, TimerTypeOK
<1> QED
  BY <1>1, <1>2, <1>3, <1>4

\* A log cut off is a log.
LEMMA PrefixType ==
  ASSUME NEW l \in Seq(LogEntry), NEW n \in Int, n <= Len(l)
  PROVE  /\ SubSeq(l, 1, n) \in Seq(LogEntry)
         /\ n >= 0 => Len(SubSeq(l, 1, n)) = n
         /\ \A k \in 1 .. n : SubSeq(l, 1, n)[k] = l[k]
<1>1. Len(l) \in Nat /\ 1 \in Int
  BY LenProperties
<1>2. \A k \in 1 .. n : l[k] \in LogEntry
  BY <1>1, ElementOfSeq
<1>3. /\ SubSeq(l, 1, n) \in Seq(LogEntry)
      /\ Len(SubSeq(l, 1, n)) = IF 1 <= n THEN n - 1 + 1 ELSE 0
      /\ \A k \in 1 .. n - 1 + 1 : SubSeq(l, 1, n)[k] = l[1 + k - 1]
  BY <1>1, <1>2, SubSeqProperties
<1> QED
  BY <1>1, <1>3

LEMMA RefuseType ==
  ASSUME TypeOK, inflight # <<>>, NEW e \in EnvelopeType,
         RejectOldLeader(e) \/ RefuseGap(e) \/ RefuseConflict(e)
  PROVE  TypeOK'
<1> DEFINE i == e.to
           m == e.msg
           kept == m.prevLogIndex - 1
<1>1. i \in Nodes /\ m \in Message
  BY DEF EnvelopeType
<1>2. log[i] \in Seq(LogEntry) /\ currentTerm[i] \in Terms
  BY <1>1 DEF TypeOK
<1>3. CASE RejectOldLeader(e)
  <2>1. NetTypeOK'
    BY <1>2, <1>3, MessageTypes, ReplyType, TypeParts DEF RejectOldLeader
  <2>2. TermTypeOK' /\ LogTypeOK' /\ LeaderTypeOK' /\ TimerTypeOK' /\ OutcomeOK'
    BY <1>3, TypeParts
       DEF RejectOldLeader, TermTypeOK, LogTypeOK, LeaderTypeOK, TimerTypeOK,
           OutcomeOK, nodeVars, termVars, logVars, leaderVars, timerVars
  <2> QED
    BY <2>1, <2>2, TypeParts, PTL
<1>4. CASE RefuseGap(e)
  <2>1. TermTypeOK' /\ LeaderTypeOK' /\ TimerTypeOK' /\ OutcomeOK'
        /\ m.term \in Terms
    BY <1>1, <1>4, FollowLeaderType DEF RefuseGap
  <2>2. Len(log[i]) \in Nat
    BY <1>2, LenProperties
  <2>3. NetTypeOK'
    BY <1>4, <2>1, <2>2, MessageTypes, ReplyType, TypeParts DEF RefuseGap
  <2>4. LogTypeOK'
    BY <1>4, TypeParts DEF RefuseGap, LogTypeOK, logVars
  <2> QED
    BY <2>1, <2>3, <2>4, TypeParts, PTL
<1>5. CASE RefuseConflict(e)
  <2>1. TermTypeOK' /\ LeaderTypeOK' /\ TimerTypeOK' /\ OutcomeOK'
        /\ m.term \in Terms
    BY <1>1, <1>5, FollowLeaderType DEF RefuseConflict
  <2>2. kept \in Nat /\ kept <= Len(log[i])
    <3>1. DOMAIN log[i] = 1 .. Len(log[i]) /\ Len(log[i]) \in Nat
      BY <1>2, LenProperties
    <3> QED
      BY <1>5, <3>1 DEF RefuseConflict, Conflicts
  <2>3. NetTypeOK'
    BY <1>5, <2>1, <2>2, MessageTypes, ReplyType, TypeParts DEF RefuseConflict
  <2>4. LogTypeOK'
    <3>1. SubSeq(log[i], 1, kept) \in Seq(LogEntry)
      BY <1>2, <2>2, PrefixType
    <3>2. log' = [log EXCEPT ![i] = SubSeq(log[i], 1, kept)]
      BY <1>5 DEF RefuseConflict
    <3> HIDE DEF kept
    <3> QED
      BY <1>5, <3>1, <3>2, TypeParts DEF RefuseConflict, LogTypeOK
  <2> QED
    BY <2>1, <2>3, <2>4, TypeParts, PTL
<1> QED
  BY <1>3, <1>4, <1>5

\* What is handed out when the commit index moves on within a log: an entry
\* for every place passed.
LEMMA NewlyType ==
  ASSUME NEW l \in Seq(LogEntry), NEW a \in Nat, NEW b \in Nat, a <= b,
         b = a \/ b <= Len(l)
  PROVE  /\ Newly(l, a, b) \in Seq(CommittedEntry)
         /\ Len(Newly(l, a, b)) = b - a
         /\ \A k \in 1 .. b - a :
              /\ a + k \in DOMAIN l
              /\ Newly(l, a, b)[k].sequence = l[a + k].index
<1>1. b - a \in Nat
  OBVIOUS
<1>2. ASSUME NEW k \in 1 .. b - a
      PROVE  /\ a + k \in DOMAIN l
             /\ [sequence |-> l[a + k].index, payload |-> l[a + k].payload]
                  \in CommittedEntry
  <2>1. Len(l) \in Nat /\ DOMAIN l = 1 .. Len(l)
    BY LenProperties
  <2>2. a + k \in 1 .. Len(l)
    BY <2>1
  <2>3. l[a + k] \in LogEntry
    BY <2>2, ElementOfSeq
  <2> QED
    BY <2>1, <2>2, <2>3 DEF LogEntry, CommittedEntry
<1>3. Newly(l, a, b) \in [1 .. b - a -> CommittedEntry]
  BY <1>2 DEF Newly
<1>4. Newly(l, a, b) \in Seq(CommittedEntry) /\ Len(Newly(l, a, b)) = b - a
  <2>1. Newly(l, a, b) \in Seq(CommittedEntry)
    BY <1>1, <1>3, SeqDef
  <2>2. DOMAIN Newly(l, a, b) = 1 .. b - a
    BY <1>3
  <2> HIDE DEF Newly
  <2>3. /\ Len(Newly(l, a, b)) \in Nat
        /\ DOMAIN Newly(l, a, b) = 1 .. Len(Newly(l, a, b))
    BY <2>1, LenProperties
  <2> QED
    BY <1>1, <2>1, <2>2, <2>3
<1> QED
  BY <1>2, <1>4 DEF Newly

\* The commit index of a follower moves within its log, if at all.
LEMMA FollowedCommitType ==
  ASSUME NEW i \in Nodes, commitIndex[i] \in Nat, NEW m, m.leaderCommit \in Nat,
         NEW l \in Seq(LogEntry), NEW commit, commit = FollowedCommit(i, m, l)
  PROVE  /\ commit \in Nat
         /\ commit = commitIndex[i] \/ commit <= Len(l)
<1>1. Len(l) \in Nat
  BY LenProperties
<1> QED
  BY <1>1 DEF FollowedCommit

LEMMA ReplicateType ==
  ASSUME TypeOK, inflight # <<>>, NEW e \in EnvelopeType, Replicate(e)
  PROVE  TypeOK'
<1> DEFINE i == e.to
           m == e.msg
           l == Merged(log[i], m.entries)
           commit == FollowedCommit(i, m, l)
           new == Newly(l, commitIndex[i], commit)
<1>1. i \in Nodes /\ m \in Message
  BY DEF EnvelopeType
<1>2. TermTypeOK' /\ LeaderTypeOK' /\ TimerTypeOK' /\ OutcomeOK'
      /\ m.term \in Terms
  BY <1>1, FollowLeaderType DEF Replicate
<1>3. m.entries \in Seq(LogEntry) /\ m.leaderCommit \in Nat
  BY <1>1, MessageFields DEF Replicate, FollowLeader
<1>4. /\ log[i] \in Seq(LogEntry)
      /\ commitIndex[i] \in Nat
      /\ committed[i] \in Seq(CommittedEntry)
  BY <1>1 DEF TypeOK
<1>5. l \in Seq(LogEntry)
  BY <1>3, <1>4, MergedType
<1>6. commitIndex[i] <= commit
  BY DEF Replicate
<1>7. /\ log' = [log EXCEPT ![i] = l]
      /\ commitIndex' = [commitIndex EXCEPT ![i] = commit]
      /\ committed' = [committed EXCEPT ![i] = @ \o new]
      /\ Reply(e, AppendEntriesResponseMsg(m.term, TRUE, Len(l)))
  BY DEF Replicate
<1> HIDE DEF l
<1>8. commit \in Nat /\ (commit = commitIndex[i] \/ commit <= Len(l))
  BY <1>1, <1>3, <1>4, <1>5, FollowedCommitType
<1>9. committed[i] \o new \in Seq(CommittedEntry)
  <2> HIDE DEF commit
  <2>1. new \in Seq(CommittedEntry)
    BY <1>4, <1>5, <1>6, <1>8, NewlyType
  <2> QED
    BY <1>4, <2>1, ConcatProperties
<1>10. LogTypeOK'
  <2> HIDE DEF commit, new
  <2> QED
    BY <1>5, <1>7, <1>8, <1>9 DEF LogTypeOK, TypeOK
<1>11. NetTypeOK'
  <2>1. Len(l) \in Nat
    BY <1>5, LenProperties
  <2> QED
    BY <1>2, <1>7, <2>1, MessageTypes, ReplyType, TypeParts
<1> QED
  BY <1>2, <1>10, <1>11, TypeParts, PTL

\* The commit index of a leader moves within its log, if at all.
LEMMA LeaderCommitType ==
  ASSUME NEW i \in Nodes, commitIndex[i] \in Nat, log[i] \in Seq(LogEntry),
         NEW match
  PROVE  /\ LeaderCommit(i, match) \in Nat
         /\ commitIndex[i] <= LeaderCommit(i, match)
         /\ \/ LeaderCommit(i, match) = commitIndex[i]
            \/ LeaderCommit(i, match) <= Len(log[i])
<1> DEFINE Committable(n) ==
             /\ log[i][n].term = currentTerm[i]
             /\ Cardinality({p \in Nodes \ {i} : match[p] >= n}) + 1 >= Majority
           candidates == {n \in commitIndex[i] + 1 .. Len(log[i]) :
                            Committable(n)}
<1>1. LeaderCommit(i, match) =
        IF candidates = {} THEN commitIndex[i] ELSE Max(candidates)
  BY DEF LeaderCommit
<1>2. candidates \subseteq commitIndex[i] + 1 .. Len(log[i])
  OBVIOUS
<1> HIDE DEF candidates
<1>3. Len(log[i]) \in Nat
  BY LenProperties
<1>4. candidates \in SUBSET (0 .. Len(log[i]))
  BY <1>2, <1>3
<1>5. CASE candidates # {}
  <2>1. Max(candidates) \in candidates
    BY <1>3, <1>4, <1>5, MaxInSet
  <2>2. LeaderCommit(i, match) \in commitIndex[i] + 1 .. Len(log[i])
    BY <1>1, <1>2, <1>5, <2>1
  <2> QED
    BY <1>3, <2>2
<1>6. CASE candidates = {}
  BY <1>1, <1>6
<1> QED
  BY <1>5, <1>6

LEMMA NoteReplicatedType ==
  ASSUME TypeOK, inflight # <<>>, NEW e \in EnvelopeType, NoteReplicated(e)
  PROVE  TypeOK'
<1> DEFINE i == e.to
           reported == e.msg.matchIndex
           match == [matchIndex[i] EXCEPT ![e.from] = reported]
           commit == LeaderCommit(i, match)
           new == Newly(log[i], commitIndex[i], commit)
<1>1. i \in Nodes /\ e.from \in Nodes /\ e.msg \in Message
  BY DEF EnvelopeType
<1>2. reported \in Nat
  BY <1>1, MessageFields DEF NoteReplicated, AcceptsResponse
<1>3. /\ log[i] \in Seq(LogEntry)
      /\ commitIndex[i] \in Nat
      /\ committed[i] \in Seq(CommittedEntry)
      /\ matchIndex[i] \in [Nodes -> Nat]
      /\ nextIndex[i] \in [Nodes -> Nat \ {0}]
  BY <1>1 DEF TypeOK
<1>4. /\ matchIndex' = [matchIndex EXCEPT ![i] = match]
      /\ nextIndex' = [nextIndex EXCEPT ![i][e.from] = reported + 1]
      /\ commitIndex' = [commitIndex EXCEPT ![i] = commit]
      /\ committed' = [committed EXCEPT ![i] = @ \o new]
      /\ UNCHANGED <<log, votesReceived>>
  BY DEF NoteReplicated
<1>5. /\ commit \in Nat
      /\ commitIndex[i] <= commit
      /\ commit = commitIndex[i] \/ commit <= Len(log[i])
  BY <1>1, <1>3, LeaderCommitType
<1>6. match \in [Nodes -> Nat]
  BY <1>1, <1>2, <1>3
<1> HIDE DEF match, commit, reported
<1>7. committed[i] \o new \in Seq(CommittedEntry)
  <2>1. new \in Seq(CommittedEntry)
    BY <1>3, <1>5, NewlyType
  <2> QED
    BY <1>3, <2>1, ConcatProperties
<1> HIDE DEF new
<1>8. LogTypeOK'
  BY <1>4, <1>5, <1>7 DEF LogTypeOK, TypeOK
<1>9. LeaderTypeOK'
  <2>1. reported + 1 \in Nat \ {0}
    BY <1>2
  <2>2. nextIndex' \in [Nodes -> [Nodes -> Nat \ {0}]]
    BY <1>1, <1>4, <2>1 DEF TypeOK
  <2>3. matchIndex' \in [Nodes -> [Nodes -> Nat]]
    BY <1>1, <1>4, <1>6 DEF TypeOK
  <2> QED
    BY <1>4, <2>2, <2>3 DEF LeaderTypeOK, TypeOK
<1>10. NetTypeOK'
  BY EmptySeq, ConsumeType, TypeParts DEF NoteReplicated
<1>11. TermTypeOK' /\ TimerTypeOK' /\ OutcomeOK'
  BY TypeParts DEF NoteReplicated, TermTypeOK, TimerTypeOK, OutcomeOK,
                   termVars, timerVars
<1> QED
  BY <1>8, <1>9, <1>10, <1>11, TypeParts, PTL

LEMMA BackUpType ==
  ASSUME TypeOK, inflight # <<>>, NEW e \in EnvelopeType, BackUp(e)
  PROVE  TypeOK'
<1> DEFINE i == e.to
           next == IF nextIndex[i][e.from] > 1 THEN nextIndex[i][e.from] - 1
                                               ELSE 1
           m == BuildAppendEntries(i, log[i], next, commitIndex[i])
<1>1. i \in Nodes /\ e.from \in Nodes
  BY DEF EnvelopeType
<1>2. /\ log[i] \in Seq(LogEntry)
      /\ commitIndex[i] \in Nat
      /\ currentTerm[i] \in Terms
      /\ nextIndex[i][e.from] \in Nat \ {0}
  BY <1>1 DEF TypeOK
<1>3. next \in Nat \ {0}
  BY <1>2
<1>4. nextIndex' = [nextIndex EXCEPT ![i][e.from] = next] /\ Reply(e, m)
  BY DEF BackUp
<1> HIDE DEF next
<1>5. m \in Message
  BY <1>1, <1>2, <1>3, AppendEntriesType
<1> HIDE DEF m
<1>6. NetTypeOK'
  BY <1>4, <1>5, ReplyType, TypeParts
<1>7. LeaderTypeOK'
  <2>1. nextIndex' \in [Nodes -> [Nodes -> Nat \ {0}]]
    BY <1>1, <1>3, <1>4 DEF TypeOK
  <2> QED
    BY <2>1 DEF LeaderTypeOK, TypeOK, BackUp
<1>8. TermTypeOK' /\ LogTypeOK' /\ TimerTypeOK' /\ OutcomeOK'
  BY TypeParts DEF BackUp, TermTypeOK, LogTypeOK, TimerTypeOK, OutcomeOK,
                   termVars, logVars, timerVars
<1> QED
  BY <1>6, <1>7, <1>8, TypeParts, PTL

\* Variables of the nodes left alone keep their types.
LEMMA NodesUnchangedType ==
  ASSUME TypeOK, NetTypeOK', UNCHANGED nodeVars, OutcomeOK'
  PROVE  TypeOK'
<1>1. TermTypeOK' /\ LogTypeOK' /\ LeaderTypeOK' /\ TimerTypeOK'
  BY TypeParts
     DEF nodeVars, termVars, logVars, leaderVars, timerVars, TermTypeOK,
         LogTypeOK, LeaderTypeOK, TimerTypeOK
<1> QED
  BY <1>1, TypeParts, PTL

LEMMA DeliverType ==
  ASSUME TypeOK, DeliverMessage
  PROVE  TypeOK'
<1> DEFINE e == [Head(inflight) EXCEPT !.msg = Tampered(Head(inflight))]
<1>1. Deliverable /\ HandleMessage(e)
  BY DEF DeliverMessage
<1>2. inflight # <<>> /\ e \in EnvelopeType
  BY <1>1, DeliveredType, TypeParts
<1> HIDE DEF e
<1>3. CASE HandleRequestVote(e)
  BY <1>2, <1>3, RequestVoteType
<1>4. CASE StepDown(e)
  BY <1>2, <1>4, StepDownType
<1>5. CASE CountVote(e) \/ WinElection(e)
  BY <1>2, <1>5, CountVoteType, WinElectionType
<1>6. CASE RejectOldLeader(e) \/ RefuseGap(e) \/ RefuseConflict(e)
  BY <1>2, <1>6, RefuseType
<1>7. CASE Replicate(e)
  BY <1>2, <1>7, ReplicateType
<1>8. CASE NoteReplicated(e) \/ BackUp(e)
  BY <1>2, <1>8, NoteReplicatedType, BackUpType
<1>9. CASE Discard(e)
  <2>1. NetTypeOK'
    BY <1>2, <1>9, EmptySeq, ConsumeType, TypeParts DEF Discard
  <2>2. OutcomeOK'
    BY <1>9, TypeParts DEF Discard, OutcomeOK
  <2> QED
    BY <1>9, <2>1, <2>2, NodesUnchangedType DEF Discard
<1> QED
  BY <1>1, <1>3, <1>4, <1>5, <1>6, <1>7, <1>8, <1>9 DEF HandleMessage

\* The turn after that of node t belongs to the next node, if there is one.
LEMMA NextTurn ==
  \A t \in Nodes : (t + 1) % N # 0 => (t + 1) % N = t + 1
<1> TAKE t \in Nodes
<1>1. CASE t + 1 < N
  BY <1>1, SizeAssumption DEF Nodes
<1>2. CASE t + 1 = N
  BY <1>2, SizeAssumption DEF Nodes
<1> QED
  BY <1>1, <1>2, SizeAssumption DEF Nodes

\* The node whose turn it is may still start an election within MaxTerm.
LEMMA TickRoom ==
  ASSUME TypeInv, Tick, NEW j \in Nodes, j >= ticking,
         role[j] # "Leader", electionTicksRemaining[j] = 0
  PROVE  currentTerm[j] < MaxTerm
  BY DEF TypeInv, Tick, TickAllowed, TickBounded

LEMMA LeaderTickType ==
  ASSUME TypeOK, NEW i \in Nodes, Heartbeat(i) \/ TickLeader(i)
  PROVE  TypeOK'
<1>1. /\ log[i] \in Seq(LogEntry)
      /\ commitIndex[i] \in Nat
      /\ currentTerm[i] \in Terms
      /\ nextIndex[i] \in [Nodes -> Nat \ {0}]
  BY DEF TypeOK
<1>2. NetTypeOK'
  <2>1. AppendEntriesToAll(i, log[i], nextIndex[i]) \in Seq(EnvelopeType)
    BY <1>1, SendType
  <2>2. <<>> \in Seq(EnvelopeType)
    BY EmptySeq
  <2> QED
    BY <2>1, <2>2, TickTurnType, TypeParts DEF Heartbeat, TickLeader
<1>3. TimerTypeOK'
  <2>1. heartbeatTicksRemaining' \in [Nodes -> 0 .. HEARTBEAT_INTERVAL]
    <3>1. heartbeatTicksRemaining[i] \in 0 .. HEARTBEAT_INTERVAL
      BY DEF TypeOK
    <3>2. heartbeatTicksRemaining[i] > 0
            => heartbeatTicksRemaining[i] - 1 \in 0 .. HEARTBEAT_INTERVAL
      BY <3>1, RaftAssumption
    <3>3. HEARTBEAT_INTERVAL \in 0 .. HEARTBEAT_INTERVAL
      BY RaftAssumption
    <3> QED
      BY <3>2, <3>3 DEF Heartbeat, TickLeader, TypeOK
  <2> QED
    BY <2>1, TypeParts DEF Heartbeat, TickLeader, TimerTypeOK
<1>4. TermTypeOK' /\ LogTypeOK' /\ LeaderTypeOK' /\ OutcomeOK'
  BY TypeParts
     DEF Heartbeat, TickLeader, TermTypeOK, LogTypeOK, LeaderTypeOK,
         OutcomeOK, termVars, logVars, leaderVars
<1> QED
  BY <1>2, <1>3, <1>4, TypeParts, PTL

LEMMA FollowerTickType ==
  ASSUME TypeOK, NEW i \in Nodes, TickFollower(i)
  PROVE  TypeOK'
<1>1. NetTypeOK'
  BY EmptySeq, TickTurnType, TypeParts DEF TickFollower
<1>2. TimerTypeOK'
  <2>1. electionTicksRemaining[i] - 1 \in Countdown
    BY CountdownTypes, TypeParts DEF TickFollower, TimerTypeOK
  <2> QED
    BY <2>1, TypeParts DEF TickFollower, TimerTypeOK
<1>3. TermTypeOK' /\ LogTypeOK' /\ LeaderTypeOK' /\ OutcomeOK'
  BY TypeParts
     DEF TickFollower, TermTypeOK, LogTypeOK, LeaderTypeOK, OutcomeOK,
         termVars, logVars, leaderVars
<1> QED
  BY <1>1, <1>2, <1>3, TypeParts, PTL

LEMMA StartElectionType ==
  ASSUME TypeOK, NEW i \in Nodes, StartElection(i), currentTerm[i] < MaxTerm
  PROVE  TypeOK'
<1> DEFINE term == currentTerm[i] + 1
           out == Broadcast(i, RequestVoteMsg(term, i, log[i]))
<1>1. log[i] \in Seq(LogEntry) /\ currentTerm[i] \in Terms
  BY DEF TypeOK
<1>2. term \in Terms
  BY <1>1, RaftAssumption DEF Terms
<1>3. TickTurn(i, out) /\ currentTerm' = [currentTerm EXCEPT ![i] = term]
  BY DEF StartElection
<1> HIDE DEF term
<1>4. NetTypeOK'
  <2>1. out \in Seq(EnvelopeType)
    BY <1>1, <1>2, MessageTypes, SendType
  <2> QED
    BY <1>3, <2>1, TickTurnType, TypeParts
<1>5. TermTypeOK'
  BY <1>2, <1>3, TypeParts DEF StartElection, TermTypeOK
<1>6. TimerTypeOK'
  BY CountdownTypes, TypeParts DEF StartElection, TimerTypeOK
<1>7. LogTypeOK' /\ LeaderTypeOK' /\ OutcomeOK'
  BY TypeParts
     DEF StartElection, LogTypeOK, LeaderTypeOK, OutcomeOK, logVars,
         leaderVars
<1> QED
  BY <1>4, <1>5, <1>6, <1>7, TypeParts, PTL

LEMMA TickType ==
  ASSUME TypeInv, Tick
  PROVE  TypeInv'
<1>1. PICK i \in Nodes : \/ Heartbeat(i)
                         \/ TickLeader(i)
                         \/ TickFollower(i)
                         \/ StartElection(i)
  BY DEF Tick
<1>2. TypeOK /\ i = ticking /\ inflight = <<>>
  BY <1>1
     DEF TypeInv, Heartbeat, TickLeader, TickFollower, StartElection, TickTurn
<1>3. TypeOK'
  <2>1. CASE Heartbeat(i) \/ TickLeader(i)
    BY <1>2, <2>1, LeaderTickType
  <2>2. CASE TickFollower(i)
    BY <1>2, <2>2, FollowerTickType
  <2>3. CASE StartElection(i)
    <3>1. currentTerm[i] < MaxTerm
      BY <1>2, <2>3, TickRoom, SizeAssumption DEF StartElection, Nodes
    <3> QED
      BY <1>2, <2>3, <3>1, StartElectionType
  <2> QED
    BY <1>1, <2>1, <2>2, <2>3
<1>4. TickBounded'
  <2>1. inflight' = <<>> /\ ticking' = (ticking + 1) % N
    BY <1>1, <1>2
       DEF Heartbeat, TickLeader, TickFollower, StartElection, TickTurn
  <2>2. ASSUME NEW j \in Nodes, ticking' # 0, j >= ticking',
               role'[j] # "Leader", electionTicksRemaining'[j] = 0
        PROVE  currentTerm'[j] < MaxTerm
    <3>1. j >= ticking /\ j # i
      BY <1>2, <2>1, <2>2, NextTurn DEF Nodes
    <3>2. /\ role'[j] = role[j]
          /\ electionTicksRemaining'[j] = electionTicksRemaining[j]
          /\ currentTerm'[j] = currentTerm[j]
      BY <1>1, <1>2, <3>1
         DEF Heartbeat, TickLeader, TickFollower, StartElection, TypeOK,
             termVars
    <3> QED
      BY <2>2, <3>1, <3>2, TickRoom
  <2> QED
    BY <2>1, <2>2 DEF TickBounded
<1> QED
  BY <1>3, <1>4 DEF TypeInv

\* Outside a tick, TickBounded only speaks of the states it starts from.
LEMMA NotTicking ==
  ASSUME TypeInv, UNCHANGED ticking, ticking = 0
  PROVE  TickBounded'
  BY DEF TickBounded

\* A handler takes the delivered message off the network and sends something.
LEMMA HandlersConsume ==
  ASSUME NEW e, HandleMessage(e)
  PROVE  \E out : Consume(out)
<1>1. CASE HandleRequestVote(e)
  BY <1>1 DEF HandleRequestVote, Reply
<1>2. CASE StepDown(e) \/ CountVote(e) \/ NoteReplicated(e) \/ Discard(e)
  BY <1>2 DEF StepDown, CountVote, NoteReplicated, Discard
<1>3. CASE WinElection(e)
  BY <1>3 DEF WinElection
<1>4. CASE RejectOldLeader(e) \/ RefuseGap(e) \/ RefuseConflict(e)
  BY <1>4 DEF RejectOldLeader, RefuseGap, RefuseConflict, Reply
<1>5. CASE Replicate(e)
  BY <1>5 DEF Replicate, Reply
<1>6. CASE BackUp(e)
  BY <1>6 DEF BackUp, Reply
<1> QED
  BY <1>1, <1>2, <1>3, <1>4, <1>5, <1>6 DEF HandleMessage

LEMMA TypeStep == TypeInv /\ [Next]_vars => TypeInv'
<1> SUFFICES ASSUME TypeInv, [Next]_vars PROVE TypeInv'
  OBVIOUS
<1> USE DEF TypeInv
<1>1. ASSUME NEW p \in Payloads, ProposeAccepted(p)
      PROVE  TypeInv'
  BY <1>1, ProposeType, NotTicking DEF ProposeAccepted, Idle
<1>2. ASSUME NEW p \in Payloads, ProposeRejected(p)
      PROVE  TypeInv'
  <2>1. NetTypeOK' /\ OutcomeOK'
    BY <1>2 DEF ProposeRejected, NetTypeOK, OutcomeOK, TypeOK, clusterVars
  <2>2. TypeOK'
    BY <1>2, <2>1, NodesUnchangedType DEF ProposeRejected
  <2> QED
    BY <1>2, <2>2, NotTicking DEF ProposeRejected, Idle, clusterVars
<1>3. CASE BeginStep
  <2>1. NetTypeOK' /\ OutcomeOK'
    BY <1>3, EmptySeq DEF BeginStep, StartStep, NetTypeOK, OutcomeOK, TypeOK
  <2>2. TypeOK'
    BY <1>3, <2>1, NodesUnchangedType DEF BeginStep
  <2> QED
    BY <1>3, <2>2, NotTicking DEF BeginStep, StartStep, Idle
<1>4. ticking = 0 \/ inflight = <<>>
  BY DEF TickBounded
<1>5. CASE LoseMessage
  <2>1. Tail(inflight) \in Seq(EnvelopeType) /\ inflight # <<>>
    BY <1>5, HeadTailProperties DEF LoseMessage, Lose, TypeOK
  <2>2. drops' \in 0 .. MaxDrops
    BY <1>5, FaultAssumption DEF LoseMessage, Lose, TypeOK
  <2>3. NetTypeOK' /\ OutcomeOK'
    BY <1>5, <2>1, <2>2 DEF LoseMessage, Lose, NetTypeOK, OutcomeOK, TypeOK
  <2>4. TypeOK'
    BY <1>5, <2>3, NodesUnchangedType DEF LoseMessage
  <2> QED
    BY <1>4, <1>5, <2>1, <2>4, NotTicking DEF LoseMessage, Lose
<1>6. CASE DeliverMessage
  <2>1. TypeOK'
    BY <1>6, DeliverType
  <2>2. inflight # <<>> /\ UNCHANGED ticking
    BY <1>6, HandlersConsume DEF DeliverMessage, Deliverable, Consume
  <2> QED
    BY <1>4, <2>1, <2>2, NotTicking
<1>7. CASE Tick
  BY <1>7, TickType
<1>8. CASE ChangeFaults
  <2>1. NetTypeOK' /\ OutcomeOK'
    BY <1>8, FaultAssumption
       DEF ChangeFaults, SetFaults, NetTypeOK, OutcomeOK, TypeOK
  <2>2. TypeOK'
    BY <1>8, <2>1, NodesUnchangedType DEF ChangeFaults
  <2> QED
    BY <1>8, <2>2, NotTicking DEF ChangeFaults, SetFaults, Idle
<1>9. CASE UNCHANGED vars
  <2>1. NetTypeOK' /\ OutcomeOK'
    BY <1>9 DEF vars, clusterVars, NetTypeOK, OutcomeOK, TypeOK
  <2>2. TypeOK'
    BY <1>9, <2>1, NodesUnchangedType DEF vars
  <2> QED
    BY <1>9, <2>2
       DEF vars, clusterVars, nodeVars, termVars, timerVars, TickBounded
<1> QED
  BY <1>1, <1>2, <1>3, <1>5, <1>6, <1>7, <1>8, <1>9 DEF Next

\* Every variable keeps its type, for every cluster size, every set of fault
\* configurations and every bound, with or without a forced leader: the loop
\* over the entries of a message leaves a log, both countdowns stay within
\* their intervals, and next_index never reaches 0.
THEOREM TypeCorrect == Spec => []TypeOK
<1>1. TypeInv => TypeOK
  BY DEF TypeInv
<1> QED
  BY <1>1, InitType, TypeStep, PTL DEF Spec

-----------------------------------------------------------------------------
(* Votes *)

\* A step of one node that is no step back in terms and keeps a vote given in
\* its term.
VoteStep(n) ==
    /\ currentTerm'[n] >= currentTerm[n]
    /\ currentTerm'[n] = currentTerm[n] /\ votedFor[n] # None
         => votedFor'[n] = votedFor[n]

\* Terms are numbers, which can be compared.
LEMMA TermsAreNumbers ==
  /\ Terms \subseteq Nat
  /\ TypeOK => currentTerm \in [Nodes -> Nat]
<1>1. Terms \subseteq Nat
  BY RaftAssumption DEF Terms
<1> QED
  BY <1>1 DEF TypeOK

LEMMA VotesKept ==
  ASSUME TypeOK, UNCHANGED <<currentTerm, votedFor>>
  PROVE  \A n \in Nodes : VoteStep(n)
<1>1. currentTerm \in [Nodes -> Nat]
  BY TermsAreNumbers
<1> QED
  BY <1>1 DEF VoteStep

\* A node that takes part in another node's election.
LEMMA RequestVoteVotes ==
  ASSUME TypeOK, NEW e \in EnvelopeType, HandleRequestVote(e)
  PROVE  \A n \in Nodes : VoteStep(n)
<1> DEFINE i == e.to
           m == e.msg
<1>1. /\ i \in Nodes
      /\ m.term \in Nat
      /\ m.candidateId \in Nodes
      /\ currentTerm \in [Nodes -> Nat]
      /\ votedFor \in [Nodes -> Nodes \cup {None}]
  <2>1. i \in Nodes /\ m \in Message
    BY DEF EnvelopeType
  <2>2. m.term \in Nat /\ m.candidateId \in Nodes
    BY <2>1, MessageFields, TermsAreNumbers DEF HandleRequestVote
  <2> QED
    BY <2>1, <2>2, TermsAreNumbers DEF TypeOK
<1>2. /\ currentTerm' =
           [currentTerm EXCEPT ![i] = IF IsNewer(i, m) THEN m.term
                                      ELSE currentTerm[i]]
      /\ votedFor' =
           [votedFor EXCEPT ![i] = CASE Grants(i, m) -> m.candidateId
                                     [] IsNewer(i, m) /\ ~Grants(i, m) -> None
                                     [] OTHER -> @]
  BY DEF HandleRequestVote
<1> HIDE DEF i, m
<1>3. \A n \in Nodes \ {i} : VoteStep(n)
  BY <1>1, <1>2 DEF VoteStep
<1>4. CASE IsNewer(i, m)
  BY <1>1, <1>2, <1>3, <1>4 DEF VoteStep, IsNewer
<1>5. CASE ~IsNewer(i, m)
  <2>1. currentTerm'[i] = currentTerm[i]
    BY <1>1, <1>2, <1>5
  <2>2. votedFor[i] # None => votedFor'[i] = votedFor[i]
    <3>1. CASE Grants(i, m)
      <4>1. votedFor'[i] = m.candidateId
        BY <1>1, <1>2, <3>1
      <4>2. votedFor[i] \in {None, m.candidateId}
        BY <1>5, <3>1 DEF Grants
      <4> QED
        BY <4>1, <4>2
    <3>2. CASE ~Grants(i, m)
      BY <1>1, <1>2, <1>5, <3>2
    <3> QED
      BY <3>1, <3>2
  <2> QED
    BY <1>1, <1>3, <2>1, <2>2 DEF VoteStep
<1> QED
  BY <1>4, <1>5

\* A newer term only moves a node on: its vote is left as it is.
LEMMA NewTermVotes ==
  ASSUME TypeOK, NEW i \in Nodes, NEW t \in Nat, t >= currentTerm[i],
         currentTerm' = [currentTerm EXCEPT ![i] = t],
         votedFor' = votedFor
  PROVE  \A n \in Nodes : VoteStep(n)
<1>1. currentTerm \in [Nodes -> Nat]
  BY TermsAreNumbers
<1> QED
  BY <1>1 DEF VoteStep

LEMMA DeliverVotes ==
  ASSUME TypeOK, NEW e \in EnvelopeType, HandleMessage(e)
  PROVE  \A n \in Nodes : VoteStep(n)
<1>1. e.to \in Nodes /\ e.msg.term \in Nat /\ currentTerm[e.to] \in Nat
  <2>1. e.to \in Nodes /\ e.msg \in Message
    BY DEF EnvelopeType
  <2> QED
    BY <2>1, MessageFields, TermsAreNumbers
<1>2. CASE HandleRequestVote(e)
  BY <1>2, RequestVoteVotes
<1>3. CASE StepDown(e)
  <2>1. e.msg.term >= currentTerm[e.to]
    BY <1>1, <1>3 DEF StepDown, IsNewer
  <2>2. currentTerm' = [currentTerm EXCEPT ![e.to] = e.msg.term]
    BY <1>3 DEF StepDown
  <2>3. votedFor' = votedFor
    BY <1>3 DEF StepDown
  <2> QED
    BY <1>1, <2>1, <2>2, <2>3, NewTermVotes
<1>4. CASE RefuseGap(e) \/ RefuseConflict(e) \/ Replicate(e)
  <2>1. FollowLeader(e.to, e.msg)
    BY <1>4 DEF RefuseGap, RefuseConflict, Replicate
  <2> QED
    BY <1>1, <2>1, NewTermVotes DEF FollowLeader
<1>5. CASE CountVote(e)
  BY <1>5, VotesKept DEF CountVote, termVars
<1>6. CASE WinElection(e)
  BY <1>6, VotesKept DEF WinElection
<1>7. CASE RejectOldLeader(e) \/ Discard(e)
  BY <1>7, VotesKept DEF RejectOldLeader, Discard, nodeVars, termVars
<1>8. CASE NoteReplicated(e)
  BY <1>8, VotesKept DEF NoteReplicated, termVars
<1>9. CASE BackUp(e)
  BY <1>9, VotesKept DEF BackUp, termVars
<1> QED
  BY <1>2, <1>3, <1>4, <1>5, <1>6, <1>7, <1>8, <1>9 DEF HandleMessage

LEMMA TickVotes ==
  ASSUME TypeOK, Tick
  PROVE  \A n \in Nodes : VoteStep(n)
<1>1. PICK i \in Nodes : \/ Heartbeat(i)
                         \/ TickLeader(i)
                         \/ TickFollower(i)
                         \/ StartElection(i)
  BY DEF Tick
<1>2. CASE Heartbeat(i) \/ TickLeader(i) \/ TickFollower(i)
  BY <1>2, VotesKept DEF Heartbeat, TickLeader, TickFollower, termVars
<1>3. CASE StartElection(i)
  <2>1. /\ currentTerm \in [Nodes -> Nat]
        /\ votedFor \in [Nodes -> Nodes \cup {None}]
    BY TermsAreNumbers DEF TypeOK
  <2>2. /\ currentTerm' = [currentTerm EXCEPT ![i] = currentTerm[i] + 1]
        /\ votedFor' = [votedFor EXCEPT ![i] = i]
    BY <1>3 DEF StartElection
  <2> QED
    BY <2>1, <2>2 DEF VoteStep
<1> QED
  BY <1>1, <1>2, <1>3

LEMMA VoteSteps ==
  ASSUME TypeOK, Next
  PROVE  \A n \in Nodes : VoteStep(n)
<1>1. CASE DeliverMessage
  <2> DEFINE e == [Head(inflight) EXCEPT !.msg = Tampered(Head(inflight))]
  <2>1. Deliverable /\ HandleMessage(e)
    BY <1>1 DEF DeliverMessage
  <2>2. e \in EnvelopeType
    BY <2>1, DeliveredType, TypeParts
  <2> HIDE DEF e
  <2> QED
    BY <2>1, <2>2, DeliverVotes
<1>2. CASE Tick
  BY <1>2, TickVotes
<1>3. CASE ~DeliverMessage /\ ~Tick
  <2>1. UNCHANGED <<currentTerm, votedFor>>
    BY <1>3
       DEF Next, ProposeAccepted, ProposeRejected, BeginStep, LoseMessage,
           ChangeFaults, nodeVars, termVars
  <2> QED
    BY <2>1, VotesKept
<1> QED
  BY <1>1, <1>2, <1>3

\* In any cluster and any schedule, with messages lost, delayed or tampered
\* with, no node goes back to an earlier term and none gives its vote to two
\* candidates of one term, although a vote is kept over a change of term
\* (StepDown and AppendEntries leave it) and only a request clears it.
THEOREM VotesGivenOnce == Spec => OneVotePerTerm
<1> DEFINE Votes == \A n \in Nodes :
                      /\ currentTerm'[n] >= currentTerm[n]
                      /\ currentTerm'[n] = currentTerm[n] /\ votedFor[n] # None
                           => votedFor'[n] = votedFor[n]
<1>1. TypeInv /\ [Next]_vars => [Votes]_vars
  <2> SUFFICES ASSUME TypeInv, Next PROVE Votes
    OBVIOUS
  <2> QED
    BY VoteSteps DEF VoteStep, TypeInv
<1> QED
  BY <1>1, InitType, TypeStep, PTL DEF Spec, OneVotePerTerm

-----------------------------------------------------------------------------
(* What a step does to the logs *)

\* The log of node i with what a client proposed.
Proposal(i, p) ==
    Append(log[i], [term |-> currentTerm[i], index |-> Len(log[i]) + 1,
                    payload |-> <<p, 0>>])

\* The log of one node changes in a step: a client proposed something to it
\* while it leads, or a message it takes from a leader cut the log off or
\* brought entries.
LogStep(i) ==
    \/ /\ role[i] = "Leader"
       /\ UNCHANGED <<currentTerm, role>>
       /\ \E p \in Payloads : log' = [log EXCEPT ![i] = Proposal(i, p)]
    \/ /\ Deliverable
       /\ i = Head(inflight).to
       /\ LET m == Tampered(Head(inflight)) IN
            /\ FollowLeader(i, m)
            /\ ~Misses(i, m)
            /\ \/ /\ Conflicts(i, m)
                  /\ log' = [log EXCEPT ![i] =
                               SubSeq(@, 1, m.prevLogIndex - 1)]
               \/ /\ ~Conflicts(i, m)
                  /\ log' = [log EXCEPT ![i] = Merged(@, m.entries)]

LEMMA LogSteps ==
  ASSUME TypeOK, Next, log' # log
  PROVE  \E i \in Nodes : LogStep(i)
<1>1. CASE DeliverMessage
  <2> DEFINE e == [Head(inflight) EXCEPT !.msg = Tampered(Head(inflight))]
             i == e.to
             m == e.msg
  <2>1. Deliverable /\ HandleMessage(e)
    BY <1>1 DEF DeliverMessage
  <2>2. /\ e \in EnvelopeType
        /\ i = Head(inflight).to
        /\ m = Tampered(Head(inflight))
    BY <2>1, DeliveredType, TypeParts
  <2>3. i \in Nodes /\ m \in Message
    BY <2>2 DEF EnvelopeType
  <2> HIDE DEF e
  <2>4. RefuseConflict(e) \/ Replicate(e)
    BY <2>1
       DEF HandleMessage, HandleRequestVote, StepDown, CountVote, WinElection,
           RejectOldLeader, RefuseGap, NoteReplicated, BackUp, Discard,
           nodeVars, logVars
  <2>5. ASSUME RefuseConflict(e)
        PROVE  /\ FollowLeader(i, m)
               /\ ~Misses(i, m)
               /\ Conflicts(i, m)
               /\ log' = [log EXCEPT ![i] = SubSeq(@, 1, m.prevLogIndex - 1)]
    <3>1. /\ FollowLeader(i, m)
          /\ Conflicts(i, m)
          /\ log' = [log EXCEPT ![i] = SubSeq(@, 1, m.prevLogIndex - 1)]
      BY <2>5 DEF RefuseConflict
    <3>2. log[i] \in Seq(LogEntry)
      BY <2>3 DEF TypeOK
    <3>3. m.prevLogIndex <= Len(log[i]) /\ Len(log[i]) \in Nat
      BY <3>1, <3>2, LenProperties DEF Conflicts
    <3>4. m.prevLogIndex \in Nat
      BY <2>3, <3>1, MessageFields DEF FollowLeader
    <3> QED
      BY <3>1, <3>3, <3>4 DEF Misses
  <2>6. ASSUME Replicate(e)
        PROVE  /\ FollowLeader(i, m)
               /\ ~Misses(i, m)
               /\ ~Conflicts(i, m)
               /\ log' = [log EXCEPT ![i] = Merged(@, m.entries)]
    BY <2>6 DEF Replicate
  <2> HIDE DEF i, m
  <2> QED
    BY <2>1, <2>2, <2>3, <2>4, <2>5, <2>6 DEF LogStep
<1>2. CASE ~DeliverMessage
  <2>1. PICK p \in Payloads : ProposeAccepted(p)
    BY <1>2
       DEF Next, ProposeRejected, BeginStep, LoseMessage, Tick, Heartbeat,
           TickLeader, TickFollower, StartElection, ChangeFaults, nodeVars,
           logVars
  <2>2. PICK k \in Asked : /\ role[ProposalTarget(k)] = "Leader"
                           /\ AppendProposal(ProposalTarget(k), <<p, 0>>)
    BY <2>1 DEF ProposeAccepted
  <2>3. ProposalTarget(k) \in Nodes
    BY TargetIsNode, TypeParts
  <2>4. UNCHANGED <<currentTerm, role>>
    BY <2>1 DEF ProposeAccepted, termVars
  <2> QED
    BY <2>2, <2>3, <2>4 DEF LogStep, AppendProposal, Proposal
<1> QED
  BY <1>1, <1>2

\* A proposed entry goes to the end of a log.
LEMMA ProposalAppends ==
  ASSUME TypeOK, NEW i \in Nodes, NEW p \in Payloads
  PROVE  /\ Proposal(i, p) \in Seq(LogEntry)
         /\ Len(log[i]) \in Nat
         /\ Len(Proposal(i, p)) = Len(log[i]) + 1
         /\ \A k \in 1 .. Len(log[i]) : Proposal(i, p)[k] = log[i][k]
         /\ Proposal(i, p)[Len(log[i]) + 1] =
              [term |-> currentTerm[i], index |-> Len(log[i]) + 1,
               payload |-> <<p, 0>>]
<1> DEFINE entry == [term |-> currentTerm[i], index |-> Len(log[i]) + 1,
                     payload |-> <<p, 0>>]
<1>1. log[i] \in Seq(LogEntry) /\ Len(log[i]) \in Nat
  BY LenProperties DEF TypeOK
<1>2. entry \in LogEntry
  <2>1. currentTerm[i] \in Terms
    BY DEF TypeOK
  <2>2. Len(log[i]) + 1 \in Nat \ {0}
    BY <1>1
  <2> QED
    BY <2>1, <2>2 DEF LogEntry, Payload
<1>3. Proposal(i, p) = Append(log[i], entry)
  BY DEF Proposal
<1> HIDE DEF entry
<1>4. /\ Append(log[i], entry) \in Seq(LogEntry)
      /\ Len(Append(log[i], entry)) = Len(log[i]) + 1
      /\ \A k \in 1 .. Len(log[i]) : Append(log[i], entry)[k] = log[i][k]
      /\ Append(log[i], entry)[Len(log[i]) + 1] = entry
  BY <1>1, <1>2, AppendProperties
<1> QED
  BY <1>1, <1>3, <1>4 DEF entry

\* In any cluster and any schedule, two leaders of one term included, a node
\* that leads before and after a step has only appended to its log: what an
\* AppendEntries message cuts off or overwrites is never a leader's log,
\* because taking it ends the leadership.
THEOREM LeadersAppend == Spec => LeaderAppendsOnly
<1> DEFINE Appends ==
             \A n \in Nodes :
               role[n] = "Leader" /\ role'[n] = "Leader"
                 => /\ Len(log'[n]) >= Len(log[n])
                    /\ SubSeq(log'[n], 1, Len(log[n])) = log[n]
<1>1. TypeInv /\ [Next]_vars => [Appends]_vars
  <2> SUFFICES ASSUME TypeInv, Next,
                      NEW n \in Nodes, role[n] = "Leader", role'[n] = "Leader"
               PROVE  /\ Len(log'[n]) >= Len(log[n])
                      /\ SubSeq(log'[n], 1, Len(log[n])) = log[n]
    OBVIOUS
  <2>1. TypeOK
    BY DEF TypeInv
  <2>2. log[n] \in Seq(LogEntry) /\ Len(log[n]) \in Nat
    BY <2>1, LenProperties DEF TypeOK
  <2>3. SubSeq(log[n], 1, Len(log[n])) = log[n]
    BY <2>2, SubSeqFull
  <2>4. CASE log'[n] = log[n]
    BY <2>2, <2>3, <2>4
  <2>5. CASE log'[n] # log[n]
    <3>1. PICK i \in Nodes : LogStep(i)
      BY <2>1, <2>5, LogSteps
    <3>2. log \in [Nodes -> Seq(LogEntry)]
      BY <2>1 DEF TypeOK
    <3>3. i = n
      BY <2>5, <3>1, <3>2 DEF LogStep
    <3>4. role \in [Nodes -> {"Follower", "Candidate", "Leader"}]
      BY <2>1 DEF TypeOK
    <3>5. PICK p \in Payloads : log' = [log EXCEPT ![n] = Proposal(n, p)]
      BY <3>1, <3>3, <3>4 DEF LogStep, FollowLeader
    <3> DEFINE l == Proposal(n, p)
    <3>6. log'[n] = l
      BY <3>2, <3>5
    <3>7. /\ l \in Seq(LogEntry)
          /\ Len(l) = Len(log[n]) + 1
          /\ \A k \in 1 .. Len(log[n]) : l[k] = log[n][k]
      BY <2>1, ProposalAppends
    <3> HIDE DEF l
    <3>8. /\ SubSeq(l, 1, Len(log[n])) \in Seq(LogEntry)
          /\ Len(SubSeq(l, 1, Len(log[n]))) = Len(log[n])
          /\ \A k \in 1 .. Len(log[n]) : SubSeq(l, 1, Len(log[n]))[k] = l[k]
      BY <2>2, <3>7, PrefixType
    <3>9. SubSeq(l, 1, Len(log[n])) = log[n]
      BY <2>2, <3>7, <3>8, SeqEqual
    <3> QED
      BY <2>2, <3>6, <3>7, <3>9
  <2> QED
    BY <2>4, <2>5
<1> QED
  BY <1>1, InitType, TypeStep, PTL DEF Spec, LeaderAppendsOnly

-----------------------------------------------------------------------------
(***************************************************************************)
(* The order of logs.  Entries sit at the position their index names,      *)
(* terms do not go back along a log, and none is beyond the node's own     *)
(* term.  What is on the network must be in order as well: the entries of  *)
(* a message continue its prev_log_index, and their terms go on from its   *)
(* prev_log_term.                                                          *)
(***************************************************************************)
Ordered(l, t) ==
    \A k \in DOMAIN l :
        /\ l[k].index = k
        /\ l[k].term <= t
        /\ k > 1 => l[k - 1].term <= l[k].term

EntriesOrdered(m) ==
    m.type = "AppendEntries" =>
        /\ \A k \in DOMAIN m.entries :
             /\ m.entries[k].index = m.prevLogIndex + k
             /\ m.entries[k].term <= m.term
             /\ k > 1 => m.entries[k - 1].term <= m.entries[k].term
        /\ m.entries # <<>> => m.prevLogTerm <= m.entries[1].term

LogsOrdered == \A n \in Nodes : Ordered(log[n], currentTerm[n])

MessagesOrdered ==
    /\ \A k \in DOMAIN pending : EntriesOrdered(pending[k].msg)
    /\ \A k \in DOMAIN inflight : EntriesOrdered(inflight[k].msg)

\* The terms in a log are numbers.
LEMMA EntryTerms ==
  ASSUME NEW l \in Seq(LogEntry)
  PROVE  /\ Len(l) \in Nat
         /\ DOMAIN l = 1 .. Len(l)
         /\ \A k \in 1 .. Len(l) : l[k] \in LogEntry /\ l[k].term \in Nat
<1>1. \A k \in 1 .. Len(l) : l[k] \in LogEntry
  BY ElementOfSeq
<1>2. \A entry \in LogEntry : entry.term \in Nat
  BY TermsAreNumbers DEF LogEntry
<1> QED
  BY <1>1, <1>2, LenProperties

\* A log cut off after n entries is in order.
LEMMA CutOrdered ==
  ASSUME NEW l \in Seq(LogEntry), NEW t \in Nat, Ordered(l, t),
         NEW n \in Int, n <= Len(l)
  PROVE  Ordered(SubSeq(l, 1, n), t)
<1> DEFINE s == SubSeq(l, 1, n)
<1>1. /\ s \in Seq(LogEntry)
      /\ n >= 0 => Len(s) = n
      /\ \A k \in 1 .. n : s[k] = l[k]
  BY PrefixType
<1>2. DOMAIN l = 1 .. Len(l) /\ Len(l) \in Nat
  BY EntryTerms
<1>3. n < 1 => s = <<>>
  BY SubSeqEmpty
<1> HIDE DEF s
<1>4. DOMAIN s \subseteq 1 .. n
  BY <1>1, <1>3, EntryTerms, EmptySeq
<1>5. ASSUME NEW k \in DOMAIN s
      PROVE  /\ s[k].index = k
             /\ s[k].term <= t
             /\ k > 1 => s[k - 1].term <= s[k].term
  <2>1. k \in 1 .. n /\ k \in DOMAIN l /\ (k > 1 => k - 1 \in 1 .. n)
    BY <1>2, <1>4
  <2>2. s[k] = l[k] /\ (k > 1 => s[k - 1] = l[k - 1])
    BY <1>1, <2>1
  <2> QED
    BY <2>1, <2>2 DEF Ordered
<1> QED
  BY <1>5 DEF Ordered, s

\* So is a log with an entry after n of its own that continues them.
LEMMA PushOrdered ==
  ASSUME NEW l \in Seq(LogEntry), NEW t \in Nat, Ordered(l, t),
         NEW n \in Nat, n <= Len(l),
         NEW entry \in LogEntry, entry.index = n + 1, entry.term <= t,
         n > 0 => l[n].term <= entry.term
  PROVE  /\ Append(SubSeq(l, 1, n), entry) \in Seq(LogEntry)
         /\ Len(Append(SubSeq(l, 1, n), entry)) = n + 1
         /\ Append(SubSeq(l, 1, n), entry)[n + 1] = entry
         /\ Ordered(Append(SubSeq(l, 1, n), entry), t)
<1> DEFINE s == SubSeq(l, 1, n)
           h == Append(s, entry)
<1>1. s \in Seq(LogEntry) /\ Len(s) = n /\ \A k \in 1 .. n : s[k] = l[k]
  BY PrefixType
<1>2. Ordered(s, t)
  BY CutOrdered
<1> HIDE DEF s
<1>3. /\ h \in Seq(LogEntry)
      /\ Len(h) = n + 1
      /\ \A k \in 1 .. n : h[k] = s[k]
      /\ h[n + 1] = entry
  BY <1>1, AppendProperties
<1> HIDE DEF h
<1>4. DOMAIN h = 1 .. n + 1 /\ DOMAIN s = 1 .. n
  BY <1>1, <1>3, EntryTerms
<1>5. ASSUME NEW k \in DOMAIN h
      PROVE  /\ h[k].index = k
             /\ h[k].term <= t
             /\ k > 1 => h[k - 1].term <= h[k].term
  <2>1. CASE k \in 1 .. n
    <3>1. h[k] = s[k] /\ (k > 1 => h[k - 1] = s[k - 1])
      BY <1>3, <2>1
    <3> QED
      BY <1>2, <1>4, <2>1, <3>1 DEF Ordered
  <2>2. CASE k = n + 1
    <3>1. k > 1 => n \in 1 .. n /\ h[k - 1] = l[n]
      BY <1>1, <1>3, <2>2
    <3> QED
      BY <1>3, <2>2, <3>1
  <2> QED
    BY <1>4, <2>1, <2>2
<1>6. Ordered(h, t)
  BY <1>5 DEF Ordered
<1> QED
  BY <1>3, <1>6 DEF h, s

LEMMA MergeRun ==
  \A l, entries \in Seq(LogEntry) :
    \E f : /\ f[0] = l
           /\ \A k \in 1 .. Len(entries) :
                f[k] = AppendOrReplace(f[k - 1], entries[k])
           /\ Merged(l, entries) = f[Len(entries)]
<1> SUFFICES ASSUME NEW l \in Seq(LogEntry), NEW entries \in Seq(LogEntry)
             PROVE  \E f :
                      /\ f[0] = l
                      /\ \A k \in 1 .. Len(entries) :
                           f[k] = AppendOrReplace(f[k - 1], entries[k])
                      /\ Merged(l, entries) = f[Len(entries)]
  OBVIOUS
<1>1. Len(entries) \in Nat
  BY EntryTerms
<1> QED
  BY <1>1, MergeSteps

\* The loop over the entries of a message keeps a log in order, if they
\* continue it: after k entries place prev + k is that of the last one, and
\* the next one's term is no earlier.
LEMMA MergedOrdered ==
  ASSUME NEW l \in Seq(LogEntry), NEW entries \in Seq(LogEntry), NEW t \in Nat,
         Ordered(l, t), NEW prev \in Nat, prev <= Len(l),
         \A k \in DOMAIN entries :
           /\ entries[k].index = prev + k
           /\ entries[k].term <= t
           /\ k > 1 => entries[k - 1].term <= entries[k].term,
         entries # <<>> /\ prev > 0 => l[prev].term <= entries[1].term
  PROVE  Ordered(Merged(l, entries), t)
<1>1. Len(entries) \in Nat /\ DOMAIN entries = 1 .. Len(entries)
  BY EntryTerms
<1>2. PICK f : /\ f[0] = l
               /\ \A k \in 1 .. Len(entries) :
                    f[k] = AppendOrReplace(f[k - 1], entries[k])
               /\ Merged(l, entries) = f[Len(entries)]
  BY MergeRun
<1> DEFINE At(k) == /\ f[k] \in Seq(LogEntry)
                    /\ Ordered(f[k], t)
                    /\ prev + k <= Len(f[k])
                    /\ k < Len(entries) /\ prev + k > 0
                         => f[k][prev + k].term <= entries[k + 1].term
           G == {k \in Nat : k <= Len(entries) => At(k)}
<1>3. 0 \in G
  <2>1. Len(entries) > 0 => entries # <<>>
    BY EmptySeq
  <2> QED
    BY <1>2, <2>1
<1>4. ASSUME NEW k \in Nat, k \in G
      PROVE  k + 1 \in G
  <2>1. CASE k + 1 <= Len(entries)
    <3> DEFINE g == f[k]
               h == f[k + 1]
               entry == entries[k + 1]
               n == prev + k
    <3>1. At(k)
      BY <1>1, <1>4, <2>1
    <3>2. /\ g \in Seq(LogEntry)
          /\ Ordered(g, t)
          /\ n <= Len(g)
          /\ n > 0 => g[n].term <= entry.term
      BY <1>1, <2>1, <3>1
    <3>3. k + 1 \in 1 .. Len(entries) /\ (k + 1) - 1 = k
      BY <1>1, <2>1
    <3>4. h = AppendOrReplace(g, entry)
      BY <1>2, <3>3
    <3>5. entry \in LogEntry /\ entry.index = n + 1 /\ entry.term <= t
      <4>1. entry \in LogEntry
        BY <3>3, ElementOfSeq
      <4>2. entry.index = prev + (k + 1) /\ entry.term <= t
        BY <1>1, <3>3
      <4> QED
        BY <4>1, <4>2
    <3>6. k + 1 < Len(entries) => entry.term <= entries[k + 2].term
      <4>1. k + 1 < Len(entries)
              => k + 2 \in 1 .. Len(entries) /\ (k + 2) - 1 = k + 1
        BY <1>1
      <4>2. \A j \in 1 .. Len(entries) :
              j > 1 => entries[j - 1].term <= entries[j].term
        BY <1>1
      <4>3. k + 2 > 1
        OBVIOUS
      <4> QED
        BY <4>1, <4>2, <4>3
    <3>7. Len(g) \in Nat /\ n \in Nat
      BY <3>2, EntryTerms
    <3> HIDE DEF g, h, entry, At
    <3>8. /\ h \in Seq(LogEntry)
          /\ Ordered(h, t)
          /\ n + 1 <= Len(h)
          /\ h[n + 1].term = entry.term
      <4>1. CASE h = Append(SubSeq(g, 1, n), entry)
        <5>1. /\ h \in Seq(LogEntry)
              /\ Len(h) = n + 1
              /\ h[n + 1] = entry
              /\ Ordered(h, t)
          <6> HIDE DEF n
          <6>1. n \in Nat /\ n <= Len(g) /\ Ordered(g, t)
            BY <3>2, <3>7
          <6>2. entry \in LogEntry /\ entry.index = n + 1 /\ entry.term <= t
            BY <3>5
          <6>3. n > 0 => g[n].term <= entry.term
            BY <3>2
          <6>4. g \in Seq(LogEntry)
            BY <3>2
          <6> QED
            BY <6>1, <6>2, <6>3, <6>4, <4>1, PushOrdered
        <5> QED
          BY <3>7, <5>1
      <4>2. CASE entry.index > Len(g)
        <5>1. n = Len(g)
          BY <3>2, <3>5, <3>7, <4>2
        <5>2. SubSeq(g, 1, n) = g
          BY <3>2, <5>1, SubSeqFull
        <5>3. h = Append(g, entry)
          BY <3>4, <4>2 DEF AppendOrReplace
        <5> QED
          BY <4>1, <5>2, <5>3
      <4>3. CASE ~(entry.index > Len(g)) /\ g[entry.index].term # entry.term
        <5>1. h = Append(SubSeq(g, 1, entry.index - 1), entry)
          BY <3>4, <4>3 DEF AppendOrReplace
        <5>2. entry.index - 1 = n
          BY <3>5, <3>7
        <5> QED
          BY <4>1, <5>1, <5>2
      <4>4. CASE ~(entry.index > Len(g)) /\ g[entry.index].term = entry.term
        <5>1. h = g
          BY <3>4, <4>4 DEF AppendOrReplace
        <5> QED
          BY <3>2, <3>5, <3>7, <4>4, <5>1
      <4> QED
        BY <4>2, <4>3, <4>4
    <3>9. At(k + 1)
      <4>1. prev + (k + 1) = n + 1 /\ (k + 1) + 1 = k + 2
        OBVIOUS
      <4>2. /\ f[k + 1] \in Seq(LogEntry)
            /\ Ordered(f[k + 1], t)
            /\ n + 1 <= Len(f[k + 1])
            /\ f[k + 1][n + 1].term = entries[k + 1].term
        BY <3>8 DEF h, entry
      <4>3. k + 1 < Len(entries)
              => entries[k + 1].term <= entries[k + 2].term
        BY <3>6 DEF entry
      <4> HIDE DEF n
      <4> QED
        BY <4>1, <4>2, <4>3 DEF At
    <3> QED
      BY <3>9
  <2>2. CASE ~(k + 1 <= Len(entries))
    BY <2>2
  <2> QED
    BY <2>1, <2>2
<1>5. Nat \subseteq G
  <2> HIDE DEF G
  <2> QED
    BY <1>3, <1>4, NumberInduction
<1> QED
  BY <1>1, <1>2, <1>5

\* What a leader builds of its log is in order.
LEMMA BuildOrdered ==
  ASSUME NEW i \in Nodes, NEW l \in Seq(LogEntry), NEW next \in Nat \ {0},
         NEW commit, Ordered(l, currentTerm[i])
  PROVE  EntriesOrdered(BuildAppendEntries(i, l, next, commit))
<1> DEFINE m == BuildAppendEntries(i, l, next, commit)
           es == SubSeq(l, next, Len(l))
           prevTerm == IF next - 1 \in DOMAIN l THEN l[next - 1].term ELSE 0
<1>1. /\ m.entries = es
      /\ m.prevLogIndex = next - 1
      /\ m.prevLogTerm = prevTerm
      /\ m.term = currentTerm[i]
  BY DEF BuildAppendEntries, AppendEntriesMsg
<1>2. /\ Len(l) \in Nat
      /\ DOMAIN l = 1 .. Len(l)
      /\ \A k \in 1 .. Len(l) : l[k].term \in Nat
  BY EntryTerms
<1>3. /\ es \in Seq(LogEntry)
      /\ Len(es) = IF next <= Len(l) THEN Len(l) - next + 1 ELSE 0
      /\ \A k \in 1 .. Len(l) - next + 1 : es[k] = l[next + k - 1]
  BY SuffixType
<1> HIDE DEF m, es
<1>4. DOMAIN es = 1 .. Len(es)
  BY <1>3, EntryTerms
<1>5. ASSUME NEW k \in DOMAIN es
      PROVE  /\ es[k].index = (next - 1) + k
             /\ es[k].term <= currentTerm[i]
             /\ k > 1 => es[k - 1].term <= es[k].term
  <2>1. k \in 1 .. Len(l) - next + 1 /\ next + k - 1 \in 1 .. Len(l)
    BY <1>2, <1>3, <1>4
  <2>2. es[k] = l[next + k - 1]
    BY <1>3, <2>1
  <2>3. k > 1 => /\ k - 1 \in 1 .. Len(l) - next + 1
                 /\ next + (k - 1) - 1 = (next + k - 1) - 1
                 /\ next + k - 1 > 1
    BY <1>2, <2>1
  <2>4. k > 1 => es[k - 1] = l[(next + k - 1) - 1]
    BY <1>3, <2>3
  <2>5. next + k - 1 = (next - 1) + k
    BY <2>1
  <2> QED
    BY <1>2, <2>1, <2>2, <2>3, <2>4, <2>5 DEF Ordered
<1>6. ASSUME es # <<>>
      PROVE  prevTerm <= es[1].term
  <2>1. Len(es) # 0
    BY <1>3, <1>6, EmptySeq
  <2>2. next <= Len(l) /\ 1 \in 1 .. Len(l) - next + 1 /\ next + 1 - 1 = next
    BY <1>2, <1>3, <2>1
  <2>3. es[1] = l[next] /\ next \in 1 .. Len(l)
    BY <1>2, <1>3, <2>2
  <2>4. CASE next - 1 \in DOMAIN l
    <3>1. next > 1
      BY <1>2, <2>4
    <3> QED
      BY <1>2, <2>3, <2>4, <3>1 DEF Ordered
  <2>5. CASE next - 1 \notin DOMAIN l
    BY <1>2, <2>3, <2>5
  <2> QED
    BY <2>4, <2>5
<1> HIDE DEF prevTerm
<1> QED
  BY <1>1, <1>5, <1>6 DEF EntriesOrdered, m

LEMMA ToAllOrdered ==
  ASSUME NEW i \in Nodes, NEW l \in Seq(LogEntry),
         NEW next \in [Nodes -> Nat \ {0}], Ordered(l, currentTerm[i])
  PROVE  \A k \in DOMAIN AppendEntriesToAll(i, l, next) :
           EntriesOrdered(AppendEntriesToAll(i, l, next)[k].msg)
<1> SUFFICES ASSUME NEW k \in 1 .. N - 1
             PROVE  EntriesOrdered(AppendEntriesToAll(i, l, next)[k].msg)
  BY DEF AppendEntriesToAll
<1>1. next[Peer(i, k)] \in Nat \ {0}
  BY PeerIsOther
<1>2. AppendEntriesToAll(i, l, next)[k].msg =
        BuildAppendEntries(i, l, next[Peer(i, k)], commitIndex[i])
  BY DEF AppendEntriesToAll, Envelope
<1> QED
  BY <1>1, <1>2, BuildOrdered

\* Sending and delivering keep the network in order if what is sent is.
LEMMA EnqueueOrdered ==
  ASSUME NetTypeOK, MessagesOrdered, NEW out \in Seq(EnvelopeType),
         \A k \in DOMAIN out : EntriesOrdered(out[k].msg),
         pending' = pending \o out,
         \/ inflight' = inflight
         \/ inflight # <<>> /\ inflight' = Tail(inflight)
  PROVE  MessagesOrdered'
<1>1. /\ pending \in Seq(EnvelopeType)
      /\ Len(pending) \in Nat /\ DOMAIN pending = 1 .. Len(pending)
      /\ Len(out) \in Nat /\ DOMAIN out = 1 .. Len(out)
  BY LenProperties DEF NetTypeOK
<1>2. ASSUME NEW k \in DOMAIN pending'
      PROVE  EntriesOrdered(pending'[k].msg)
  <2> DEFINE q == pending \o out
  <2>1. /\ q \in Seq(EnvelopeType)
        /\ Len(q) = Len(pending) + Len(out)
        /\ \A j \in 1 .. Len(pending) + Len(out) :
             q[j] = IF j <= Len(pending) THEN pending[j]
                                         ELSE out[j - Len(pending)]
    BY <1>1, ConcatProperties
  <2> HIDE DEF q
  <2>2. DOMAIN q = 1 .. Len(pending) + Len(out)
    BY <2>1, LenProperties
  <2>3. pending' = q
    BY DEF q
  <2>4. CASE k <= Len(pending)
    BY <1>1, <2>1, <2>2, <2>3, <2>4 DEF MessagesOrdered
  <2>5. CASE ~(k <= Len(pending))
    <3>1. k - Len(pending) \in DOMAIN out
      BY <1>1, <2>2, <2>3, <2>5
    <3> QED
      BY <2>1, <2>2, <2>3, <2>5, <3>1
  <2> QED
    BY <2>4, <2>5
<1>3. ASSUME NEW k \in DOMAIN inflight'
      PROVE  EntriesOrdered(inflight'[k].msg)
  <2>1. CASE inflight' = inflight
    BY <2>1 DEF MessagesOrdered
  <2>2. CASE inflight # <<>> /\ inflight' = Tail(inflight)
    <3> DEFINE rest == Tail(inflight)
               n == Len(inflight)
    <3>1. inflight \in Seq(EnvelopeType)
      BY DEF NetTypeOK
    <3>2. /\ rest \in Seq(EnvelopeType)
          /\ Len(rest) = n - 1
          /\ \A j \in 1 .. Len(rest) : rest[j] = inflight[j + 1]
      BY <2>2, <3>1, HeadTailProperties
    <3>3. DOMAIN inflight = 1 .. n /\ n \in Nat
      BY <3>1, LenProperties
    <3>4. inflight' = rest
      BY <2>2
    <3> HIDE DEF rest, n
    <3>5. DOMAIN rest = 1 .. n - 1
      BY <3>2, LenProperties
    <3>6. k \in 1 .. n - 1
      BY <3>4, <3>5
    <3>7. k + 1 \in DOMAIN inflight /\ k \in 1 .. Len(rest)
      BY <3>2, <3>3, <3>6
    <3>8. inflight'[k] = inflight[k + 1]
      BY <3>2, <3>4, <3>7
    <3> QED
      BY <3>7, <3>8 DEF MessagesOrdered
  <2> QED
    BY <2>1, <2>2
<1> QED
  BY <1>2, <1>3 DEF MessagesOrdered

LEMMA SilentOrdered ==
  ASSUME NetTypeOK, MessagesOrdered, pending' = pending \o <<>>,
         \/ inflight' = inflight
         \/ inflight # <<>> /\ inflight' = Tail(inflight)
  PROVE  MessagesOrdered'
<1>1. <<>> \in Seq(EnvelopeType) /\ DOMAIN <<>> = {}
  BY EmptySeq
<1> QED
  BY <1>1, EnqueueOrdered

\* Answers, and requests for a vote, carry no entries.
LEMMA NoEntries ==
  /\ \A t, i, l : EntriesOrdered(RequestVoteMsg(t, i, l))
  /\ \A t, granted : EntriesOrdered(RequestVoteResponseMsg(t, granted))
  /\ \A t, success, match :
       EntriesOrdered(AppendEntriesResponseMsg(t, success, match))
  BY DEF EntriesOrdered, RequestVoteMsg, RequestVoteResponseMsg,
         AppendEntriesResponseMsg

LEMMA ReplyOrdered ==
  ASSUME NetTypeOK, MessagesOrdered, inflight # <<>>, NEW e \in EnvelopeType,
         NEW m \in Message, EntriesOrdered(m), Reply(e, m)
  PROVE  MessagesOrdered'
<1> DEFINE out == <<Envelope(e.to, e.from, m)>>
<1>1. out \in Seq(EnvelopeType)
  BY SendType DEF EnvelopeType
<1>2. \A k \in DOMAIN out : EntriesOrdered(out[k].msg)
  BY DEF Envelope
<1>3. pending' = pending \o out /\ inflight' = Tail(inflight)
  BY DEF Reply, Consume, Enqueue
<1> HIDE DEF out
<1> QED
  BY <1>1, <1>2, <1>3, EnqueueOrdered

LEMMA DeliverOrdered ==
  ASSUME TypeOK, MessagesOrdered, LogsOrdered, inflight # <<>>,
         NEW e \in EnvelopeType, HandleMessage(e)
  PROVE  MessagesOrdered'
<1> DEFINE i == e.to
           m == e.msg
<1>1. /\ NetTypeOK
      /\ i \in Nodes
      /\ m \in Message
      /\ m.term \in Terms
      /\ log[i] \in Seq(LogEntry)
      /\ Len(log[i]) \in Nat
      /\ commitIndex[i] \in Nat
      /\ currentTerm[i] \in Terms
      /\ Ordered(log[i], currentTerm[i])
  <2>1. i \in Nodes /\ m \in Message
    BY DEF EnvelopeType
  <2>2. log[i] \in Seq(LogEntry)
    BY <2>1 DEF TypeOK
  <2>3. NetTypeOK /\ m.term \in Terms /\ Len(log[i]) \in Nat
    BY <2>1, <2>2, MessageFields, LenProperties, TypeParts
  <2> QED
    BY <2>1, <2>2, <2>3 DEF TypeOK, LogsOrdered
<1>2. CASE HandleRequestVote(e)
  <2> DEFINE term == IF IsNewer(i, m) THEN m.term ELSE currentTerm[i]
             r == RequestVoteResponseMsg(term, Grants(i, m))
  <2>1. r \in Message
    <3>1. term \in Terms /\ Grants(i, m) \in BOOLEAN
      BY <1>1 DEF Grants
    <3> HIDE DEF term
    <3> QED
      BY <3>1, MessageTypes
  <2>2. Reply(e, r)
    BY <1>2 DEF HandleRequestVote
  <2>3. EntriesOrdered(r)
    BY NoEntries
  <2> HIDE DEF r
  <2> QED
    BY <1>1, <2>1, <2>2, <2>3, ReplyOrdered
<1>3. CASE \/ StepDown(e) \/ CountVote(e) \/ NoteReplicated(e) \/ Discard(e)
  <2>1. Consume(<<>>)
    BY <1>3 DEF StepDown, CountVote, NoteReplicated, Discard
  <2> QED
    BY <1>1, <2>1, SilentOrdered DEF Consume, Enqueue
<1>4. CASE WinElection(e)
  <2> DEFINE next == [p \in Nodes |-> IF p = i THEN nextIndex[i][p]
                                               ELSE Len(log[i]) + 1]
             out == AppendEntriesToAll(i, log[i], next)
  <2>1. next \in [Nodes -> Nat \ {0}]
    <3>1. nextIndex[i] \in [Nodes -> Nat \ {0}]
      BY <1>1 DEF TypeOK
    <3>2. Len(log[i]) + 1 \in Nat \ {0}
      BY <1>1
    <3> QED
      BY <3>1, <3>2
  <2>2. pending' = pending \o out /\ inflight' = Tail(inflight)
    BY <1>4 DEF WinElection, Consume, Enqueue
  <2> HIDE DEF next
  <2>3. /\ out \in Seq(EnvelopeType)
        /\ \A k \in DOMAIN out : EntriesOrdered(out[k].msg)
    BY <1>1, <2>1, SendType, ToAllOrdered
  <2> HIDE DEF out
  <2> QED
    BY <1>1, <2>2, <2>3, EnqueueOrdered
<1>5. CASE \/ RejectOldLeader(e) \/ RefuseGap(e) \/ RefuseConflict(e)
           \/ Replicate(e)
  <2>1. PICK t \in Terms, success \in BOOLEAN, match \in Nat :
          Reply(e, AppendEntriesResponseMsg(t, success, match))
    <3>1. CASE RejectOldLeader(e)
      BY <1>1, <3>1 DEF RejectOldLeader
    <3>2. CASE RefuseGap(e)
      BY <1>1, <3>2 DEF RefuseGap
    <3>3. CASE RefuseConflict(e)
      <4>1. m.prevLogIndex - 1 \in Nat
        <5>1. DOMAIN log[i] = 1 .. Len(log[i])
          BY <1>1, LenProperties
        <5> QED
          BY <1>1, <3>3, <5>1 DEF RefuseConflict, Conflicts
      <4> QED
        BY <1>1, <3>3, <4>1 DEF RefuseConflict
    <3>4. CASE Replicate(e)
      <4>1. Reply(e, AppendEntriesResponseMsg(m.term, TRUE,
                                              Len(Merged(log[i], m.entries))))
        BY <3>4 DEF Replicate
      <4>2. m.entries \in Seq(LogEntry)
        BY <1>1, <3>4, MessageFields DEF Replicate, FollowLeader
      <4>3. Len(Merged(log[i], m.entries)) \in Nat
        BY <1>1, <4>2, MergedType, LenProperties
      <4> QED
        BY <1>1, <4>1, <4>3
    <3> QED
      BY <1>5, <3>1, <3>2, <3>3, <3>4
  <2>2. /\ AppendEntriesResponseMsg(t, success, match) \in Message
        /\ EntriesOrdered(AppendEntriesResponseMsg(t, success, match))
    BY MessageTypes, NoEntries
  <2> QED
    BY <1>1, <2>1, <2>2, ReplyOrdered
<1>6. CASE BackUp(e)
  <2> DEFINE next == IF nextIndex[i][e.from] > 1 THEN nextIndex[i][e.from] - 1
                                                 ELSE 1
             r == BuildAppendEntries(i, log[i], next, commitIndex[i])
  <2>1. next \in Nat \ {0}
    <3>1. nextIndex[i][e.from] \in Nat \ {0}
      BY <1>1 DEF TypeOK, EnvelopeType
    <3> QED
      BY <3>1
  <2>2. Reply(e, r)
    BY <1>6 DEF BackUp
  <2> HIDE DEF next
  <2>3. r \in Message /\ EntriesOrdered(r)
    BY <1>1, <2>1, AppendEntriesType, BuildOrdered
  <2> HIDE DEF r
  <2> QED
    BY <1>1, <2>2, <2>3, ReplyOrdered
<1> QED
  BY <1>2, <1>3, <1>4, <1>5, <1>6 DEF HandleMessage

\* A proposed entry, of the node's own term, keeps its log in order.
LEMMA ProposalOrdered ==
  ASSUME TypeOK, LogsOrdered, NEW i \in Nodes, NEW p \in Payloads
  PROVE  Ordered(Proposal(i, p), currentTerm[i])
<1> DEFINE l == log[i]
           t == currentTerm[i]
           n == Len(log[i])
           entry == [term |-> t, index |-> n + 1, payload |-> <<p, 0>>]
<1>1. l \in Seq(LogEntry) /\ t \in Nat /\ t \in Terms /\ Ordered(l, t)
  BY TermsAreNumbers DEF TypeOK, LogsOrdered
<1>2. n \in Nat /\ DOMAIN l = 1 .. n
  BY <1>1, EntryTerms
<1>3. entry \in LogEntry /\ entry.index = n + 1 /\ entry.term <= t
  BY <1>1, <1>2 DEF LogEntry, Payload
<1>4. n > 0 => l[n].term <= entry.term
  BY <1>1, <1>2 DEF Ordered
<1>5. Proposal(i, p) = Append(SubSeq(l, 1, n), entry)
  <2>1. SubSeq(l, 1, n) = l
    BY <1>1, SubSeqFull
  <2> QED
    BY <2>1 DEF Proposal
<1>6. n <= Len(l)
  BY <1>2
<1> HIDE DEF l, t, n, entry
<1>7. Ordered(Append(SubSeq(l, 1, n), entry), t)
  BY <1>1, <1>2, <1>3, <1>4, <1>6, PushOrdered
<1> QED
  BY <1>5, <1>7 DEF t

LEMMA ProposeOrdered ==
  ASSUME TypeOK, MessagesOrdered, LogsOrdered,
         NEW p \in Payloads, ProposeAccepted(p)
  PROVE  MessagesOrdered'
<1>1. PICK k \in Asked : /\ role[ProposalTarget(k)] = "Leader"
                         /\ AppendProposal(ProposalTarget(k), <<p, 0>>)
  BY DEF ProposeAccepted
<1> DEFINE i == ProposalTarget(k)
           l == Proposal(i, p)
           out == AppendEntriesToAll(i, l, nextIndex[i])
<1>2. i \in Nodes
  BY TargetIsNode, TypeParts
<1>3. pending' = pending \o out /\ inflight' = inflight
  BY <1>1 DEF ProposeAccepted, AppendProposal, Proposal, Enqueue
<1> HIDE DEF i
<1>4. /\ nextIndex[i] \in [Nodes -> Nat \ {0}]
      /\ commitIndex[i] \in Nat
      /\ currentTerm[i] \in Terms
  BY <1>2 DEF TypeOK
<1>5. l \in Seq(LogEntry) /\ Ordered(l, currentTerm[i])
  BY <1>2, ProposalAppends, ProposalOrdered
<1> HIDE DEF l
<1>6. /\ out \in Seq(EnvelopeType)
      /\ \A j \in DOMAIN out : EntriesOrdered(out[j].msg)
  BY <1>2, <1>4, <1>5, SendType, ToAllOrdered
<1> HIDE DEF out
<1> QED
  BY <1>3, <1>6, EnqueueOrdered, TypeParts

LEMMA TickOrdered ==
  ASSUME TypeInv, MessagesOrdered, LogsOrdered, Tick
  PROVE  MessagesOrdered'
<1>1. PICK i \in Nodes : \/ Heartbeat(i)
                         \/ TickLeader(i)
                         \/ TickFollower(i)
                         \/ StartElection(i)
  BY DEF Tick
<1>2. /\ TypeOK
      /\ NetTypeOK
      /\ log[i] \in Seq(LogEntry)
      /\ commitIndex[i] \in Nat
      /\ currentTerm[i] \in Terms
      /\ nextIndex[i] \in [Nodes -> Nat \ {0}]
      /\ Ordered(log[i], currentTerm[i])
  BY TypeParts DEF TypeOK, TypeInv, LogsOrdered
<1>3. CASE Heartbeat(i)
  <2> DEFINE out == AppendEntriesToAll(i, log[i], nextIndex[i])
  <2>1. pending' = pending \o out /\ inflight' = inflight
    BY <1>3 DEF Heartbeat, TickTurn, Enqueue
  <2>2. /\ out \in Seq(EnvelopeType)
        /\ \A k \in DOMAIN out : EntriesOrdered(out[k].msg)
    BY <1>2, SendType, ToAllOrdered
  <2> HIDE DEF out
  <2> QED
    BY <1>2, <2>1, <2>2, EnqueueOrdered
<1>4. CASE TickLeader(i) \/ TickFollower(i)
  <2>1. pending' = pending \o <<>> /\ inflight' = inflight
    BY <1>4 DEF TickLeader, TickFollower, TickTurn, Enqueue
  <2> QED
    BY <1>2, <2>1, SilentOrdered
<1>5. CASE StartElection(i)
  <2> DEFINE m == RequestVoteMsg(currentTerm[i] + 1, i, log[i])
             out == Broadcast(i, m)
  <2>1. pending' = pending \o out /\ inflight' = inflight
    BY <1>5 DEF StartElection, TickTurn, Enqueue
  <2>2. /\ DOMAIN out = 1 .. N - 1
        /\ \A k \in 1 .. N - 1 : out[k].msg = m
    BY DEF Broadcast, Envelope
  <2>3. EntriesOrdered(m)
    BY NoEntries
  <2> HIDE DEF out, m
  <2>4. \A k \in DOMAIN out : EntriesOrdered(out[k].msg)
    BY <2>2, <2>3
  <2>5. currentTerm[i] + 1 \in Terms
    <3>1. i = ticking /\ role[i] # "Leader" /\ electionTicksRemaining[i] = 0
      BY <1>5 DEF StartElection, TickTurn
    <3>2. currentTerm[i] < MaxTerm
      BY <3>1, TickRoom, SizeAssumption DEF Nodes
    <3> QED
      BY <1>2, <3>2, RaftAssumption DEF Terms
  <2>6. out \in Seq(EnvelopeType)
    BY <1>2, <2>5, MessageTypes, SendType DEF out, m
  <2> QED
    BY <1>2, <2>1, <2>4, <2>6, EnqueueOrdered
<1> QED
  BY <1>1, <1>3, <1>4, <1>5

\* Tampering leaves indices and terms alone.
LEMMA TamperedOrdered ==
  ASSUME NEW e \in EnvelopeType, EntriesOrdered(e.msg)
  PROVE  EntriesOrdered(Tampered(e))
<1> DEFINE a == e.msg
           m == Tampered(e)
           es == m.entries
<1>1. a \in Message /\ m \in Message
  BY TamperedType DEF EnvelopeType
<1>2. CASE m = a
  BY <1>2
<1>3. CASE m # a
  <2>1. /\ a.type = "AppendEntries"
        /\ es = [k \in DOMAIN a.entries |->
                   [a.entries[k] EXCEPT !.payload = Extended(@)]]
        /\ m = [a EXCEPT !.entries = es]
    BY <1>3, TamperedType
  <2>2. a.entries \in Seq(LogEntry)
    BY <1>1, <2>1, MessageFields
  <2> HIDE DEF es, m
  <2>3. /\ m.type = "AppendEntries"
        /\ m.term = a.term
        /\ m.prevLogIndex = a.prevLogIndex
        /\ m.prevLogTerm = a.prevLogTerm
        /\ m.entries = es
    <3>1. a \in [type : {"AppendEntries"}, term : Terms, leaderId : Nodes,
                 prevLogIndex : Nat, prevLogTerm : Terms,
                 entries : Seq(LogEntry), leaderCommit : Nat]
      BY <1>1, <2>1 DEF Message
    <3> QED
      BY <2>1, <3>1
  <2>4. m.entries \in Seq(LogEntry)
    BY <1>1, <2>3, MessageFields
  <2>5. DOMAIN m.entries = DOMAIN a.entries
    BY <2>1, <2>3
  <2>6. ASSUME NEW k \in DOMAIN a.entries
        PROVE  /\ m.entries[k].index = a.entries[k].index
               /\ m.entries[k].term = a.entries[k].term
    <3>1. a.entries[k] \in LogEntry
      BY <2>2, EntryTerms
    <3> QED
      BY <2>1, <2>3, <3>1 DEF LogEntry
  <2>7. m.entries # <<>> => a.entries # <<>> /\ 1 \in DOMAIN a.entries
    <3>1. /\ DOMAIN m.entries = 1 .. Len(m.entries)
          /\ Len(m.entries) \in Nat
      BY <2>4, EntryTerms
    <3>2. DOMAIN a.entries = 1 .. Len(a.entries) /\ Len(a.entries) \in Nat
      BY <2>2, EntryTerms
    <3>3. m.entries # <<>> => Len(m.entries) # 0
      BY <2>4, EmptySeq
    <3>4. m.entries # <<>> => 1 \in DOMAIN a.entries
      BY <2>5, <3>1, <3>3
    <3>5. a.entries # <<>> \/ Len(a.entries) = 0
      BY <2>2, EmptySeq
    <3> QED
      BY <3>2, <3>4, <3>5
  <2>8. \A k \in DOMAIN a.entries : k > 1 => k - 1 \in DOMAIN a.entries
    BY <2>2, EntryTerms
  <2> HIDE DEF a
  <2> QED
    BY <2>1, <2>3, <2>5, <2>6, <2>7, <2>8 DEF EntriesOrdered, a, m
<1> QED
  BY <1>2, <1>3

\* What is delivered is in order.
LEMMA DeliveredOrdered ==
  ASSUME NetTypeOK, MessagesOrdered, Deliverable
  PROVE  EntriesOrdered(Tampered(Head(inflight)))
<1>1. inflight \in Seq(EnvelopeType) /\ inflight # <<>>
  BY DEF NetTypeOK, Deliverable
<1>2. Head(inflight) \in EnvelopeType /\ Head(inflight) = inflight[1]
  BY <1>1, HeadTailProperties
<1>3. 1 \in DOMAIN inflight
  BY <1>1, LenProperties, EmptySeq
<1> QED
  BY <1>2, <1>3, TamperedOrdered DEF MessagesOrdered

LEMMA MessagesStep ==
  ASSUME TypeInv, MessagesOrdered, LogsOrdered, [Next]_vars
  PROVE  MessagesOrdered'
<1>1. TypeOK /\ NetTypeOK
  BY TypeParts DEF TypeInv
<1>2. ASSUME NEW p \in Payloads, ProposeAccepted(p)
      PROVE  MessagesOrdered'
  BY <1>1, <1>2, ProposeOrdered
<1>3. CASE BeginStep
  <2>1. inflight' = pending /\ pending' = <<>> /\ DOMAIN <<>> = {}
    BY <1>3, EmptySeq DEF BeginStep, StartStep
  <2> QED
    BY <2>1 DEF MessagesOrdered
<1>4. CASE LoseMessage
  <2>1. /\ inflight # <<>>
        /\ inflight' = Tail(inflight)
        /\ pending' = pending
    BY <1>4 DEF LoseMessage, Lose
  <2>2. pending \o <<>> = pending
    BY <1>1, ConcatEmptySeq DEF NetTypeOK
  <2> QED
    BY <1>1, <2>1, <2>2, SilentOrdered
<1>5. CASE DeliverMessage
  <2> DEFINE e == [Head(inflight) EXCEPT !.msg = Tampered(Head(inflight))]
  <2>1. Deliverable /\ HandleMessage(e)
    BY <1>5 DEF DeliverMessage
  <2>2. inflight # <<>> /\ e \in EnvelopeType
    BY <1>1, <2>1, DeliveredType
  <2> HIDE DEF e
  <2> QED
    BY <1>1, <2>1, <2>2, DeliverOrdered
<1>6. CASE Tick
  BY <1>6, TickOrdered
<1>7. CASE UNCHANGED netVars
  BY <1>7 DEF MessagesOrdered, netVars
<1>8. ASSUME NEW p \in Payloads, ProposeRejected(p)
      PROVE  UNCHANGED netVars
  BY <1>8 DEF ProposeRejected, clusterVars, netVars
<1>9. ChangeFaults \/ UNCHANGED vars => UNCHANGED netVars
  BY DEF ChangeFaults, SetFaults, vars, clusterVars, netVars
<1> QED
  BY <1>2, <1>3, <1>4, <1>5, <1>6, <1>7, <1>8, <1>9 DEF Next

\* A log stays in order when its node moves to a later term.
LEMMA LaterTermOrdered ==
  ASSUME NEW l \in Seq(LogEntry), NEW t \in Nat, NEW u \in Nat, t <= u,
         Ordered(l, t)
  PROVE  Ordered(l, u)
BY EntryTerms DEF Ordered

\* What a follower makes of its log when a message comes is in order.
LEMMA FollowerOrdered ==
  ASSUME TypeOK, LogsOrdered, NEW i \in Nodes, NEW m \in Message,
         EntriesOrdered(m), FollowLeader(i, m), ~Misses(i, m)
  PROVE  /\ currentTerm' = [currentTerm EXCEPT ![i] = m.term]
         /\ Conflicts(i, m) =>
              Ordered(SubSeq(log[i], 1, m.prevLogIndex - 1), m.term)
         /\ ~Conflicts(i, m) => Ordered(Merged(log[i], m.entries), m.term)
<1> DEFINE l == log[i]
           t == m.term
           prev == m.prevLogIndex
           es == m.entries
<1>1. /\ m.type = "AppendEntries"
      /\ t >= currentTerm[i]
      /\ currentTerm' = [currentTerm EXCEPT ![i] = t]
  BY DEF FollowLeader
<1>2. /\ t \in Nat
      /\ prev \in Nat
      /\ m.prevLogTerm \in Nat
      /\ es \in Seq(LogEntry)
  BY <1>1, MessageFields, TermsAreNumbers
<1>3. l \in Seq(LogEntry) /\ currentTerm[i] \in Nat
  BY TermsAreNumbers DEF TypeOK
<1>4. Len(l) \in Nat /\ DOMAIN l = 1 .. Len(l)
  BY <1>3, EntryTerms
<1>5. Ordered(l, t)
  <2>1. Ordered(l, currentTerm[i])
    BY DEF LogsOrdered
  <2> HIDE DEF l, t
  <2> QED
    BY <1>1, <1>2, <1>3, <2>1, LaterTermOrdered
<1>6. prev <= Len(l)
  BY <1>2, <1>4 DEF Misses
<1>7. /\ \A k \in DOMAIN es :
           /\ es[k].index = prev + k
           /\ es[k].term <= t
           /\ k > 1 => es[k - 1].term <= es[k].term
      /\ es # <<>> => m.prevLogTerm <= es[1].term
  BY <1>1 DEF EntriesOrdered
<1>8. ~Conflicts(i, m) /\ prev > 0 => l[prev].term = m.prevLogTerm
  BY <1>2, <1>4, <1>6 DEF Conflicts
<1> HIDE DEF l, t, prev, es
<1>9. Ordered(SubSeq(l, 1, prev - 1), t)
  <2>1. prev - 1 \in Int /\ prev - 1 <= Len(l)
    BY <1>2, <1>4, <1>6
  <2> DEFINE n == prev - 1
  <2> HIDE DEF n
  <2> QED
    BY <1>2, <1>3, <1>5, <2>1, CutOrdered DEF n
<1>10. ~Conflicts(i, m) => Ordered(Merged(l, es), t)
  BY <1>2, <1>3, <1>5, <1>6, <1>7, <1>8, MergedOrdered
<1> QED
  BY <1>1, <1>9, <1>10 DEF l, t, prev, es

LEMMA LogsStep ==
  ASSUME TypeOK, TypeOK', MessagesOrdered, LogsOrdered, Next
  PROVE  LogsOrdered'
<1>1. /\ currentTerm \in [Nodes -> Nat]
      /\ log \in [Nodes -> Seq(LogEntry)]
  BY TermsAreNumbers DEF TypeOK
<1>2. currentTerm' \in [Nodes -> Nat]
  <2>1. currentTerm' \in [Nodes -> Terms]
    BY DEF TypeOK
  <2> QED
    BY <2>1, TermsAreNumbers
<1>3. ASSUME NEW n \in Nodes, log'[n] = log[n]
      PROVE  Ordered(log'[n], currentTerm'[n])
  <2>1. currentTerm'[n] >= currentTerm[n]
    BY VoteSteps DEF VoteStep
  <2>2. Ordered(log[n], currentTerm[n])
    BY DEF LogsOrdered
  <2>3. /\ currentTerm[n] \in Nat
        /\ currentTerm'[n] \in Nat
        /\ log[n] \in Seq(LogEntry)
    BY <1>1, <1>2
  <2>4. Ordered(log[n], currentTerm'[n])
    BY <2>1, <2>2, <2>3, LaterTermOrdered
  <2> QED
    BY <1>3, <2>4
<1>4. ASSUME NEW n \in Nodes, log'[n] # log[n]
      PROVE  Ordered(log'[n], currentTerm'[n])
  <2>1. PICK i \in Nodes : LogStep(i)
    BY <1>4, LogSteps
  <2>2. i = n
    BY <1>1, <1>4, <2>1 DEF LogStep
  <2>3. CASE /\ UNCHANGED currentTerm
             /\ \E p \in Payloads : log' = [log EXCEPT ![n] = Proposal(n, p)]
    <3>1. PICK p \in Payloads : log' = [log EXCEPT ![n] = Proposal(n, p)]
      BY <2>3
    <3>2. Ordered(Proposal(n, p), currentTerm[n])
      BY ProposalOrdered
    <3>3. log'[n] = Proposal(n, p)
      BY <1>1, <3>1
    <3> QED
      BY <2>3, <3>2, <3>3
  <2>4. CASE ~(/\ UNCHANGED currentTerm
               /\ \E p \in Payloads :
                    log' = [log EXCEPT ![n] = Proposal(n, p)])
    <3> DEFINE m == Tampered(Head(inflight))
    <3>1. /\ Deliverable
          /\ FollowLeader(n, m)
          /\ ~Misses(n, m)
          /\ \/ /\ Conflicts(n, m)
                /\ log' = [log EXCEPT ![n] = SubSeq(@, 1, m.prevLogIndex - 1)]
             \/ /\ ~Conflicts(n, m)
                /\ log' = [log EXCEPT ![n] = Merged(@, m.entries)]
      BY <2>1, <2>2, <2>4 DEF LogStep
    <3>2. EntriesOrdered(m)
      BY <3>1, DeliveredOrdered, TypeParts
    <3>3. m \in Message
      <4>1. Head(inflight) \in EnvelopeType
        BY <3>1, DeliveredType, TypeParts
      <4> QED
        BY <4>1, TamperedType
    <3> HIDE DEF m
    <3>4. /\ currentTerm' = [currentTerm EXCEPT ![n] = m.term]
          /\ Conflicts(n, m) =>
               Ordered(SubSeq(log[n], 1, m.prevLogIndex - 1), m.term)
          /\ ~Conflicts(n, m) => Ordered(Merged(log[n], m.entries), m.term)
      BY <3>1, <3>2, <3>3, FollowerOrdered
    <3>5. currentTerm'[n] = m.term
      BY <1>1, <3>4
    <3>6. CASE Conflicts(n, m)
      <4>1. log'[n] = SubSeq(log[n], 1, m.prevLogIndex - 1)
        BY <1>1, <3>1, <3>6
      <4> QED
        BY <3>4, <3>5, <3>6, <4>1
    <3>7. CASE ~Conflicts(n, m)
      <4>1. log'[n] = Merged(log[n], m.entries)
        BY <1>1, <3>1, <3>7
      <4> QED
        BY <3>4, <3>5, <3>7, <4>1
    <3> QED
      BY <3>6, <3>7
  <2> QED
    BY <2>3, <2>4
<1> QED
  BY <1>3, <1>4 DEF LogsOrdered

LogInv == TypeInv /\ MessagesOrdered /\ LogsOrdered

LEMMA LogInvStep == LogInv /\ [Next]_vars => LogInv'
<1> SUFFICES ASSUME LogInv, [Next]_vars PROVE LogInv'
  OBVIOUS
<1>1. TypeInv /\ TypeOK /\ MessagesOrdered /\ LogsOrdered
  BY DEF LogInv, TypeInv
<1>2. TypeInv'
  BY <1>1, TypeStep
<1>3. MessagesOrdered'
  BY <1>1, MessagesStep
<1>4. LogsOrdered'
  <2>1. CASE Next
    <3>1. TypeOK'
      BY <1>2 DEF TypeInv
    <3> QED
      BY <1>1, <2>1, <3>1, LogsStep
  <2>2. CASE UNCHANGED vars
    BY <1>1, <2>2
       DEF LogsOrdered, Ordered, vars, nodeVars, termVars, logVars
  <2> QED
    BY <2>1, <2>2
<1> QED
  BY <1>2, <1>3, <1>4 DEF LogInv

LEMMA LogInvInit == Init => LogInv
<1> SUFFICES ASSUME Init PROVE LogInv
  OBVIOUS
<1>1. pending = <<>> /\ inflight = <<>> /\ \A n \in Nodes : log[n] = <<>>
  BY DEF Init, ClusterInit
<1>2. DOMAIN <<>> = {}
  BY EmptySeq
<1>3. MessagesOrdered /\ LogsOrdered
  BY <1>1, <1>2 DEF MessagesOrdered, LogsOrdered, Ordered
<1> QED
  BY <1>3, InitType DEF LogInv

\* In any cluster and any schedule, two leaders of one term and an
\* equivocating one included, entries sit at the position their index names
\* and terms do not go back along a log, although an entry beyond the end of a
\* log is pushed whatever its index.
THEOREM LogsKeepOrder == Spec => []LogsInOrder
<1>1. LogInv => LogsInOrder
  BY DEF LogInv, LogsOrdered, Ordered, LogsInOrder
<1> QED
  BY <1>1, LogInvInit, LogInvStep, PTL DEF Spec

-----------------------------------------------------------------------------
(***************************************************************************)
(* What a node hands out.  The numbers of an order are the indices of the  *)
(* log's entries, and a commit hands out those after the commit index.     *)
(***************************************************************************)

\* A commit index that moves within an ordered log hands out the next numbers.
LEMMA CommitMore ==
  ASSUME TypeOK, CommitsDense, NEW i \in Nodes, NEW l \in Seq(LogEntry),
         \A k \in DOMAIN l : l[k].index = k,
         NEW b \in Nat, commitIndex[i] <= b,
         b = commitIndex[i] \/ b <= Len(l),
         commitIndex' = [commitIndex EXCEPT ![i] = b],
         committed' = [committed EXCEPT ![i] =
                         @ \o Newly(l, commitIndex[i], b)]
  PROVE  CommitsDense'
<1> DEFINE a == commitIndex[i]
           c == committed[i]
           new == Newly(l, a, b)
           d == c \o new
<1>1. /\ commitIndex \in [Nodes -> Nat]
      /\ committed \in [Nodes -> Seq(CommittedEntry)]
  BY DEF TypeOK
<1>2. /\ a \in Nat
      /\ c \in Seq(CommittedEntry)
      /\ Len(c) = a
      /\ \A k \in DOMAIN c : c[k].sequence = k
  BY <1>1 DEF CommitsDense
<1>3. DOMAIN c = 1 .. a
  BY <1>2, LenProperties
<1>4. commitIndex'[i] = b /\ committed'[i] = d
  BY <1>1
<1>5. /\ new \in Seq(CommittedEntry)
      /\ Len(new) = b - a
      /\ \A k \in 1 .. b - a : a + k \in DOMAIN l
                               /\ new[k].sequence = l[a + k].index
  BY <1>2, NewlyType
<1> HIDE DEF a, c, new, d
<1>6. /\ d \in Seq(CommittedEntry)
      /\ Len(d) = a + (b - a)
      /\ \A k \in 1 .. a + (b - a) :
           d[k] = IF k <= a THEN c[k] ELSE new[k - a]
  <2>1. /\ d \in Seq(CommittedEntry)
        /\ Len(d) = Len(c) + Len(new)
        /\ \A k \in 1 .. Len(c) + Len(new) :
             d[k] = IF k <= Len(c) THEN c[k] ELSE new[k - Len(c)]
    BY <1>2, <1>5, ConcatProperties DEF d
  <2> QED
    BY <1>2, <1>5, <2>1
<1>7. Len(d) = b /\ DOMAIN d = 1 .. b
  BY <1>2, <1>6, LenProperties
<1>8. ASSUME NEW k \in 1 .. b
      PROVE  d[k].sequence = k
  <2>1. k \in 1 .. a + (b - a)
    BY <1>2
  <2>2. CASE k <= a
    BY <1>2, <1>3, <1>6, <2>1, <2>2
  <2>3. CASE ~(k <= a)
    <3>1. k - a \in 1 .. b - a /\ a + (k - a) = k
      BY <1>2, <2>3
    <3> QED
      BY <1>5, <1>6, <2>1, <2>3, <3>1
  <2> QED
    BY <2>2, <2>3
<1>9. ASSUME NEW n \in Nodes, n # i
      PROVE  commitIndex'[n] = commitIndex[n] /\ committed'[n] = committed[n]
  BY <1>1, <1>9
<1>10. ASSUME NEW n \in Nodes
       PROVE  /\ Len(committed'[n]) = commitIndex'[n]
              /\ \A k \in DOMAIN committed'[n] : committed'[n][k].sequence = k
  <2>1. CASE n = i
    BY <1>4, <1>7, <1>8, <2>1
  <2>2. CASE n # i
    BY <1>9, <2>2 DEF CommitsDense
  <2> QED
    BY <2>1, <2>2
<1> QED
  BY <1>10 DEF CommitsDense

LEMMA CommitsStep ==
  ASSUME LogInv, LogsOrdered', CommitsDense, Next
  PROVE  CommitsDense'
<1>1. TypeOK /\ LogsOrdered
  BY DEF LogInv, TypeInv
<1>2. CASE DeliverMessage
  <2> DEFINE e == [Head(inflight) EXCEPT !.msg = Tampered(Head(inflight))]
             i == e.to
             m == e.msg
  <2>1. Deliverable /\ HandleMessage(e)
    BY <1>2 DEF DeliverMessage
  <2>2. e \in EnvelopeType
    BY <1>1, <2>1, DeliveredType, TypeParts
  <2>3. i \in Nodes /\ m \in Message
    BY <2>2 DEF EnvelopeType
  <2>4. /\ log \in [Nodes -> Seq(LogEntry)]
        /\ log[i] \in Seq(LogEntry)
        /\ commitIndex[i] \in Nat
    BY <1>1, <2>3 DEF TypeOK
  <2> HIDE DEF e
  <2>5. CASE Replicate(e)
    <3> DEFINE l == Merged(log[i], m.entries)
               b == FollowedCommit(i, m, l)
    <3>1. /\ b >= commitIndex[i]
          /\ log' = [log EXCEPT ![i] = l]
          /\ commitIndex' = [commitIndex EXCEPT ![i] = b]
          /\ committed' = [committed EXCEPT ![i] =
                             @ \o Newly(l, commitIndex[i], b)]
      BY <2>5 DEF Replicate
    <3>2. m.entries \in Seq(LogEntry) /\ m.leaderCommit \in Nat
      BY <2>3, <2>5, MessageFields DEF Replicate, FollowLeader
    <3>3. l \in Seq(LogEntry)
      BY <2>4, <3>2, MergedType
    <3>4. b \in Nat /\ (b = commitIndex[i] \/ b <= Len(l))
      <4> HIDE DEF l
      <4> QED
        BY <2>3, <2>4, <3>2, <3>3, FollowedCommitType
    <3>5. \A k \in DOMAIN l : l[k].index = k
      <4>1. log'[i] = l
        BY <2>3, <2>4, <3>1
      <4>2. Ordered(log'[i], currentTerm'[i])
        BY <2>3 DEF LogsOrdered
      <4> HIDE DEF l
      <4> QED
        BY <4>1, <4>2 DEF Ordered
    <3> HIDE DEF l, b
    <3>6. commitIndex[i] <= b
      BY <2>4, <3>1, <3>4
    <3> HIDE DEF i
    <3> QED
      BY <1>1, <2>3, <3>1, <3>3, <3>4, <3>5, <3>6, CommitMore
  <2>6. CASE NoteReplicated(e)
    <3> DEFINE match == [matchIndex[i] EXCEPT ![e.from] = m.matchIndex]
               b == LeaderCommit(i, match)
               l == log[i]
    <3>1. /\ commitIndex' = [commitIndex EXCEPT ![i] = b]
          /\ committed' = [committed EXCEPT ![i] =
                             @ \o Newly(l, commitIndex[i], b)]
      BY <2>6 DEF NoteReplicated
    <3>2. /\ b \in Nat
          /\ commitIndex[i] <= b
          /\ b = commitIndex[i] \/ b <= Len(l)
      BY <2>3, <2>4, LeaderCommitType
    <3>3. \A k \in DOMAIN l : l[k].index = k
      BY <1>1, <2>3 DEF LogsOrdered, Ordered
    <3>4. l \in Seq(LogEntry)
      BY <2>4
    <3> HIDE DEF l, b, match, i
    <3> QED
      BY <1>1, <2>3, <3>1, <3>2, <3>3, <3>4, CommitMore
  <2>7. CASE ~Replicate(e) /\ ~NoteReplicated(e)
    <3>1. UNCHANGED <<commitIndex, committed>>
      BY <2>1, <2>7
         DEF HandleMessage, HandleRequestVote, StepDown, CountVote,
             WinElection, RejectOldLeader, RefuseGap, RefuseConflict, BackUp,
             Discard, nodeVars, logVars
    <3> QED
      BY <3>1 DEF CommitsDense
  <2> QED
    BY <2>5, <2>6, <2>7
<1>3. CASE ~DeliverMessage
  <2>1. UNCHANGED <<commitIndex, committed>>
    BY <1>3
       DEF Next, ProposeAccepted, ProposeRejected, BeginStep, LoseMessage,
           Tick, Heartbeat, TickLeader, TickFollower, StartElection,
           ChangeFaults, nodeVars, logVars
  <2> QED
    BY <2>1 DEF CommitsDense
<1> QED
  BY <1>2, <1>3

\* In any cluster and any schedule, what a node hands out are the numbers
\* 1, 2, 3, ... up to its commit index, each once: the order that
\* check_total_order asks for cannot be broken by Raft.
THEOREM CommitsAreDense == Spec => []CommitsDense
<1>1. Init => CommitsDense
  <2> SUFFICES ASSUME Init PROVE CommitsDense
    OBVIOUS
  <2>1. \A n \in Nodes : committed[n] = <<>> /\ commitIndex[n] = 0
    BY DEF Init
  <2> QED
    BY <2>1, EmptySeq DEF CommitsDense
<1>2. LogInv /\ LogInv' /\ CommitsDense /\ [Next]_vars => CommitsDense'
  <2> SUFFICES ASSUME LogInv, LogInv', CommitsDense, [Next]_vars
               PROVE  CommitsDense'
    OBVIOUS
  <2>1. CASE Next
    BY <2>1, CommitsStep DEF LogInv
  <2>2. CASE UNCHANGED vars
    BY <2>2 DEF CommitsDense, vars, nodeVars, logVars
  <2> QED
    BY <2>1, <2>2
<1> QED
  BY <1>1, <1>2, LogInvInit, LogInvStep, PTL DEF Spec

-----------------------------------------------------------------------------
(***************************************************************************)
(* Elections, without a forced leader and with a driver that completes the *)
(* queue before every other call.  What a node voted is not part of its    *)
(* state: voted_for outlives its term, and the votes a candidate counted   *)
(* are a number.  The invariant says that a history exists which explains  *)
(* the state:                                                              *)
(*   ballot[j][t]   whom node j gave its vote in term t,                   *)
(*   counted[i]     whose votes node i counted in its last election,       *)
(*   elected[t]     who won term t,                                        *)
(*   glog[t]        the log of the leader of term t, as it last was.       *)
(***************************************************************************)
Histories ==
    [ballot : [Nodes -> [Terms -> Nodes \cup {None}]],
     counted : [Nodes -> SUBSET Nodes],
     elected : [Terms -> Nodes \cup {None}],
     glog : [Terms -> Seq(LogEntry)]]

\* All that is on the network, in the order it will be delivered.
Queue == inflight \o pending

IsRequest(e) == e.msg.type = "RequestVote"

IsGrant(e) == e.msg.type = "RequestVoteResponse" /\ e.msg.voteGranted

\* A request of candidate c to node v, or the vote that v answered with.
About(e, c, v) ==
    \/ IsRequest(e) /\ e.from = c /\ e.to = v
    \/ IsGrant(e) /\ e.from = v /\ e.to = c

\* While a tick runs the queue holds what the nodes it has reached sent.
TickQueue ==
    ticking # 0 =>
        \A k \in DOMAIN Queue :
            /\ Queue[k].from < ticking
            /\ Queue[k].msg.type \in {"RequestVote", "AppendEntries"}

\* A candidate's requests are of its term.
RequestsCurrent ==
    \A k \in DOMAIN Queue : IsRequest(Queue[k]) =>
        /\ Queue[k].msg.candidateId = Queue[k].from
        /\ role[Queue[k].from] # "Follower"
             => Queue[k].msg.term = currentTerm[Queue[k].from]

\* Between a candidate and a voter there is one message at most.
OneBallotPaper ==
    \A k, l \in DOMAIN Queue : \A c, v \in Nodes :
        About(Queue[k], c, v) /\ About(Queue[l], c, v) => k = l

\* What is under way was not counted yet, and a vote under way was given.
Uncounted(h) ==
    \A k \in DOMAIN Queue : \A c, v \in Nodes :
        About(Queue[k], c, v) /\ role[c] = "Candidate" =>
            /\ v \notin h.counted[c]
            /\ IsGrant(Queue[k]) => h.ballot[v][currentTerm[c]] = c

\* A vote is given in the node's own term or an earlier one, and voted_for
\* holds the one given in its own.
BallotsKept(h) ==
    \A j \in Nodes :
        /\ \A t \in Terms : t > currentTerm[j] => h.ballot[j][t] = None
        /\ h.ballot[j][currentTerm[j]] \in {None, votedFor[j]}

\* The votes a candidate counted are those of as many nodes.
CountsRight(h) ==
    \A i \in Nodes : role[i] = "Candidate" =>
        /\ i \in h.counted[i]
        /\ Cardinality(h.counted[i]) = votesReceived[i]
        /\ \A j \in h.counted[i] : h.ballot[j][currentTerm[i]] = i

\* Who won a term has the votes of a majority, and does not stand in it again.
ElectedByMajority(h) ==
    \A t \in Terms : \A i \in Nodes : h.elected[t] = i =>
        /\ Cardinality({j \in Nodes : h.ballot[j][t] = i}) >= Majority
        /\ currentTerm[i] >= t
        /\ currentTerm[i] = t => role[i] # "Candidate"

LeadersElected(h) ==
    \A i \in Nodes : role[i] = "Leader" => h.elected[currentTerm[i]] = i

ElectionInv(h) ==
    /\ h \in Histories
    /\ BallotsKept(h)
    /\ CountsRight(h)
    /\ ElectedByMajority(h)
    /\ LeadersElected(h)
    /\ Uncounted(h)

NetElectionInv == TickQueue /\ RequestsCurrent /\ OneBallotPaper

-----------------------------------------------------------------------------
(* What a step does to the queue *)

\* The queue loses its first message, or none, and out is added at its end.
QueueStep(d, out) ==
    /\ d \in {0, 1}
    /\ d <= Len(Queue)
    /\ Queue \in Seq(EnvelopeType)
    /\ out \in Seq(EnvelopeType)
    /\ DOMAIN Queue = 1 .. Len(Queue)
    /\ DOMAIN out = 1 .. Len(out)
    /\ DOMAIN Queue' = 1 .. Len(Queue) - d + Len(out)
    /\ Len(Queue) \in Nat
    /\ Len(out) \in Nat
    /\ \A k \in 1 .. Len(Queue) - d : Queue'[k] = Queue[k + d]
    /\ \A k \in 1 .. Len(out) : Queue'[Len(Queue) - d + k] = out[k]

LEMMA QueueSteps ==
  ASSUME NetTypeOK, NEW out \in Seq(EnvelopeType), pending' = pending \o out
  PROVE  /\ inflight' = inflight => QueueStep(0, out)
         /\ inflight # <<>> /\ inflight' = Tail(inflight)
              => QueueStep(1, out) /\ Queue[1] = Head(inflight)
<1>1. /\ inflight \in Seq(EnvelopeType)
      /\ pending \in Seq(EnvelopeType)
      /\ Queue \in Seq(EnvelopeType)
      /\ pending \o out \in Seq(EnvelopeType)
  BY ConcatProperties DEF NetTypeOK, Queue
<1>2. /\ Len(inflight) \in Nat
      /\ Len(pending) \in Nat
      /\ Len(out) \in Nat
      /\ Len(Queue) = Len(inflight) + Len(pending)
      /\ DOMAIN Queue = 1 .. Len(inflight) + Len(pending)
      /\ DOMAIN out = 1 .. Len(out)
      /\ Len(pending \o out) = Len(pending) + Len(out)
  BY <1>1, ConcatProperties, LenProperties DEF Queue
<1>3. /\ \A k \in 1 .. Len(inflight) : Queue[k] = inflight[k]
      /\ \A k \in 1 .. Len(pending) : Queue[Len(inflight) + k] = pending[k]
      /\ \A k \in 1 .. Len(pending) : (pending \o out)[k] = pending[k]
      /\ \A k \in 1 .. Len(out) : (pending \o out)[Len(pending) + k] = out[k]
  BY <1>1, <1>2 DEF Queue
<1>4. ASSUME NEW q \in Seq(EnvelopeType), NEW d \in {0, 1},
             Len(q) = Len(inflight) - d, d <= Len(inflight),
             \A k \in 1 .. Len(q) : q[k] = inflight[k + d],
             Queue' = q \o (pending \o out)
      PROVE  QueueStep(d, out)
  <2> DEFINE s == pending \o out
  <2>1. s \in Seq(EnvelopeType) /\ Len(s) = Len(pending) + Len(out)
    BY <1>1, <1>2
  <2>2. /\ \A k \in 1 .. Len(pending) : s[k] = pending[k]
        /\ \A k \in 1 .. Len(out) : s[Len(pending) + k] = out[k]
    BY <1>3
  <2>3. Queue' = q \o s
    BY <1>4
  <2> HIDE DEF s
  <2>4. /\ DOMAIN Queue' = 1 .. Len(q) + Len(s)
        /\ \A k \in 1 .. Len(q) : Queue'[k] = q[k]
        /\ \A k \in 1 .. Len(s) : Queue'[Len(q) + k] = s[k]
    <3> DEFINE c == q \o s
    <3>1. /\ DOMAIN c = 1 .. Len(q) + Len(s)
          /\ \A k \in 1 .. Len(q) : c[k] = q[k]
          /\ \A k \in 1 .. Len(s) : c[Len(q) + k] = s[k]
      <4>1. /\ c \in Seq(EnvelopeType)
            /\ Len(c) = Len(q) + Len(s)
            /\ Len(q) \in Nat
            /\ Len(s) \in Nat
        BY <2>1, ConcatProperties, LenProperties
      <4>2. DOMAIN c = 1 .. Len(q) + Len(s)
        BY <4>1, LenProperties
      <4>3. \A k \in 1 .. Len(q) : c[k] = q[k]
        BY <2>1, <4>1
      <4>4. \A k \in 1 .. Len(s) : c[Len(q) + k] = s[k]
        BY <2>1, <4>1
      <4> QED
        BY <4>2, <4>3, <4>4
    <3>2. Queue' = c
      BY <2>3
    <3> HIDE DEF c
    <3> QED
      BY <3>1, <3>2
  <2>5. DOMAIN Queue' = 1 .. Len(Queue) - d + Len(out)
    BY <1>2, <1>4, <2>1, <2>4
  <2>6. ASSUME NEW k \in 1 .. Len(Queue) - d
        PROVE  Queue'[k] = Queue[k + d]
    <3>1. CASE k <= Len(q)
      <4>1. k \in 1 .. Len(q) /\ k + d \in 1 .. Len(inflight)
        BY <1>2, <1>4, <2>6, <3>1
      <4> QED
        BY <1>3, <1>4, <2>4, <4>1
    <3>2. CASE k > Len(q)
      <4> DEFINE n == k - Len(q)
      <4>1. /\ n \in 1 .. Len(pending)
            /\ n \in 1 .. Len(s)
            /\ k = Len(q) + n
            /\ k + d = Len(inflight) + n
        BY <1>2, <1>4, <2>1, <2>6, <3>2
      <4> HIDE DEF n
      <4> QED
        BY <1>3, <2>2, <2>4, <4>1
    <3> QED
      BY <1>2, <1>4, <2>6, <3>1, <3>2
  <2>7. ASSUME NEW k \in 1 .. Len(out)
        PROVE  Queue'[Len(Queue) - d + k] = out[k]
    <3> DEFINE n == Len(pending) + k
    <3>1. n \in 1 .. Len(s) /\ Len(Queue) - d + k = Len(q) + n
      BY <1>2, <1>4, <2>1, <2>7
    <3>2. s[n] = out[k]
      BY <2>2
    <3> HIDE DEF n
    <3> QED
      BY <2>4, <3>1, <3>2
  <2>8. d <= Len(Queue) /\ Len(Queue) \in Nat /\ DOMAIN Queue = 1 .. Len(Queue)
    BY <1>2, <1>4
  <2> QED
    BY <1>1, <1>2, <1>4, <2>5, <2>6, <2>7, <2>8 DEF QueueStep
<1>5. ASSUME inflight' = inflight
      PROVE  QueueStep(0, out)
  <2>1. Queue' = inflight \o (pending \o out)
    BY <1>5 DEF Queue
  <2>2. /\ 0 \in {0, 1}
        /\ Len(inflight) = Len(inflight) - 0
        /\ 0 <= Len(inflight)
        /\ \A k \in 1 .. Len(inflight) : inflight[k] = inflight[k + 0]
    BY <1>2
  <2> QED
    BY <1>1, <1>4, <2>1, <2>2
<1>6. ASSUME inflight # <<>>, inflight' = Tail(inflight)
      PROVE  QueueStep(1, out) /\ Queue[1] = Head(inflight)
  <2>1. Queue' = Tail(inflight) \o (pending \o out)
    BY <1>6 DEF Queue
  <2>2. /\ Tail(inflight) \in Seq(EnvelopeType)
        /\ Len(Tail(inflight)) = Len(inflight) - 1
        /\ \A k \in 1 .. Len(inflight) - 1 :
             Tail(inflight)[k] = inflight[k + 1]
        /\ Len(inflight) >= 1
        /\ Head(inflight) = inflight[1]
    BY <1>1, <1>6, HeadTailProperties, EmptySeq
  <2>3. QueueStep(1, out)
    BY <1>2, <1>4, <2>1, <2>2
  <2> QED
    BY <1>2, <1>3, <2>2, <2>3
<1> QED
  BY <1>5, <1>6

\* A step of the network that sends nothing.
LEMMA SilentQueue ==
  ASSUME NetTypeOK
  PROVE  /\ StartStep => Queue' = Queue
         /\ UNCHANGED netVars => Queue' = Queue
         /\ pending' = pending =>
              /\ inflight' = inflight => QueueStep(0, <<>>)
              /\ inflight # <<>> /\ inflight' = Tail(inflight)
                   => QueueStep(1, <<>>) /\ Queue[1] = Head(inflight)
<1>1. /\ pending \o <<>> = pending
      /\ <<>> \o pending = pending
      /\ <<>> \in Seq(EnvelopeType)
  BY ConcatEmptySeq, EmptySeq DEF NetTypeOK
<1>2. StartStep => Queue' = Queue
  <2>1. ASSUME StartStep PROVE Queue' = Queue
    <3>1. Queue' = pending \o <<>> /\ Queue = <<>> \o pending
      BY <2>1 DEF StartStep, Idle, Queue
    <3> QED
      BY <1>1, <3>1
  <2> QED
    BY <2>1
<1>3. UNCHANGED netVars => Queue' = Queue
  BY DEF netVars, Queue
<1>4. ASSUME pending' = pending
      PROVE  /\ inflight' = inflight => QueueStep(0, <<>>)
             /\ inflight # <<>> /\ inflight' = Tail(inflight)
                  => QueueStep(1, <<>>) /\ Queue[1] = Head(inflight)
  <2> DEFINE out == <<>>
  <2>1. out \in Seq(EnvelopeType) /\ pending' = pending \o out
    BY <1>1, <1>4
  <2> HIDE DEF out
  <2>2. /\ inflight' = inflight => QueueStep(0, out)
        /\ inflight # <<>> /\ inflight' = Tail(inflight)
             => QueueStep(1, out) /\ Queue[1] = Head(inflight)
    BY <2>1, QueueSteps
  <2> QED
    BY <2>2 DEF out
<1> QED
  BY <1>2, <1>3, <1>4

\* Each message of the queue was there before or has been sent, and the order
\* is kept.
LEMMA QueueOrigins ==
  ASSUME NEW d, NEW out, QueueStep(d, out)
  PROVE  \A k \in DOMAIN Queue' :
           \/ /\ k + d \in DOMAIN Queue
              /\ k <= Len(Queue) - d
              /\ Queue'[k] = Queue[k + d]
           \/ /\ k > Len(Queue) - d
              /\ k - (Len(Queue) - d) \in DOMAIN out
              /\ Queue'[k] = out[k - (Len(Queue) - d)]
<1> SUFFICES ASSUME NEW k \in DOMAIN Queue'
             PROVE  \/ /\ k + d \in DOMAIN Queue
                       /\ k <= Len(Queue) - d
                       /\ Queue'[k] = Queue[k + d]
                    \/ /\ k > Len(Queue) - d
                       /\ k - (Len(Queue) - d) \in DOMAIN out
                       /\ Queue'[k] = out[k - (Len(Queue) - d)]
  OBVIOUS
<1>1. k \in 1 .. Len(Queue) - d + Len(out) /\ d \in {0, 1}
  BY DEF QueueStep
<1>2. CASE k <= Len(Queue) - d
  BY <1>1, <1>2 DEF QueueStep
<1>3. CASE k > Len(Queue) - d
  <2> DEFINE n == k - (Len(Queue) - d)
  <2>1. n \in 1 .. Len(out) /\ k = Len(Queue) - d + n
    BY <1>1, <1>3 DEF QueueStep
  <2> HIDE DEF n
  <2>2. Queue'[k] = out[n] /\ n \in DOMAIN out
    BY <2>1 DEF QueueStep
  <2> QED
    BY <1>3, <2>2 DEF n
<1> QED
  BY <1>1, <1>2, <1>3 DEF QueueStep

-----------------------------------------------------------------------------
(* What leaves elections as they are *)

\* A step in which node n does not stand or win, and counts no vote.
Settles(n) ==
    /\ votesReceived'[n] = votesReceived[n]
    /\ \/ UNCHANGED <<role[n], currentTerm[n]>>
       \/ role'[n] = "Follower" /\ currentTerm'[n] >= currentTerm[n]

\* Votes are added to ballot b, and none is taken back.
Grows(b, c) ==
    \A j \in Nodes : \A t \in Terms : b[j][t] # None => c[j][t] = b[j][t]

LEMMA HistoryTypes ==
  ASSUME NEW h \in Histories
  PROVE  /\ h.ballot \in [Nodes -> [Terms -> Nodes \cup {None}]]
         /\ h.counted \in [Nodes -> SUBSET Nodes]
         /\ h.elected \in [Terms -> Nodes \cup {None}]
         /\ h.glog \in [Terms -> Seq(LogEntry)]
         /\ None \notin Nodes
BY RaftAssumption DEF Histories

\* A history with one part replaced is one.
LEMMA SomeHistory ==
  ASSUME NEW h \in Histories
  PROVE  /\ \A b \in [Nodes -> [Terms -> Nodes \cup {None}]] :
              \E g \in Histories :
                 /\ g.ballot = b
                 /\ g.counted = h.counted
                 /\ g.elected = h.elected
                 /\ g.glog = h.glog
         /\ \A c \in [Nodes -> SUBSET Nodes] :
              \E g \in Histories :
                 /\ g.ballot = h.ballot
                 /\ g.counted = c
                 /\ g.elected = h.elected
                 /\ g.glog = h.glog
         /\ \A w \in [Terms -> Nodes \cup {None}] :
              \E g \in Histories :
                 /\ g.ballot = h.ballot
                 /\ g.counted = h.counted
                 /\ g.elected = w
                 /\ g.glog = h.glog
         /\ \A l \in [Terms -> Seq(LogEntry)] :
              \E g \in Histories :
                 /\ g.ballot = h.ballot
                 /\ g.counted = h.counted
                 /\ g.elected = h.elected
                 /\ g.glog = l
<1>1. ASSUME NEW b \in [Nodes -> [Terms -> Nodes \cup {None}]]
      PROVE  \E g \in Histories :
              /\ g.ballot = b
              /\ g.counted = h.counted
              /\ g.elected = h.elected
              /\ g.glog = h.glog
  <2>1. [h EXCEPT !.ballot = b] \in Histories
    BY DEF Histories
  <2>2. /\ [h EXCEPT !.ballot = b].ballot = b
        /\ [h EXCEPT !.ballot = b].counted = h.counted
        /\ [h EXCEPT !.ballot = b].elected = h.elected
        /\ [h EXCEPT !.ballot = b].glog = h.glog
    BY DEF Histories
  <2> QED
    BY <2>1, <2>2
<1>2. ASSUME NEW c \in [Nodes -> SUBSET Nodes]
      PROVE  \E g \in Histories :
              /\ g.ballot = h.ballot
              /\ g.counted = c
              /\ g.elected = h.elected
              /\ g.glog = h.glog
  <2>1. [h EXCEPT !.counted = c] \in Histories
    BY DEF Histories
  <2>2. /\ [h EXCEPT !.counted = c].ballot = h.ballot
        /\ [h EXCEPT !.counted = c].counted = c
        /\ [h EXCEPT !.counted = c].elected = h.elected
        /\ [h EXCEPT !.counted = c].glog = h.glog
    BY DEF Histories
  <2> QED
    BY <2>1, <2>2
<1>3. ASSUME NEW w \in [Terms -> Nodes \cup {None}]
      PROVE  \E g \in Histories :
              /\ g.ballot = h.ballot
              /\ g.counted = h.counted
              /\ g.elected = w
              /\ g.glog = h.glog
  <2>1. [h EXCEPT !.elected = w] \in Histories
    BY DEF Histories
  <2>2. /\ [h EXCEPT !.elected = w].ballot = h.ballot
        /\ [h EXCEPT !.elected = w].counted = h.counted
        /\ [h EXCEPT !.elected = w].elected = w
        /\ [h EXCEPT !.elected = w].glog = h.glog
    BY DEF Histories
  <2> QED
    BY <2>1, <2>2
<1>4. ASSUME NEW l \in [Terms -> Seq(LogEntry)]
      PROVE  \E g \in Histories :
              /\ g.ballot = h.ballot
              /\ g.counted = h.counted
              /\ g.elected = h.elected
              /\ g.glog = l
  <2>1. [h EXCEPT !.glog = l] \in Histories
    BY DEF Histories
  <2>2. /\ [h EXCEPT !.glog = l].ballot = h.ballot
        /\ [h EXCEPT !.glog = l].counted = h.counted
        /\ [h EXCEPT !.glog = l].elected = h.elected
        /\ [h EXCEPT !.glog = l].glog = l
    BY DEF Histories
  <2> QED
    BY <2>1, <2>2
<1> QED
  BY <1>1, <1>2, <1>3, <1>4

\* The nodes are a finite set, and so are those that gave one their vote.
LEMMA VotersFinite ==
  /\ IsFiniteSet(Nodes)
  /\ \A S \in SUBSET Nodes : IsFiniteSet(S) /\ Cardinality(S) \in Nat
<1>1. IsFiniteSet(Nodes)
  BY FS_Interval, SizeAssumption DEF Nodes
<1> QED
  BY <1>1, FS_Subset, FS_CardinalityType

\* Who has the votes of a majority keeps them.
LEMMA MajorityKept ==
  ASSUME NEW b, NEW c, Grows(b, c), NEW t \in Terms, NEW i \in Nodes,
         Cardinality({j \in Nodes : b[j][t] = i}) >= Majority
  PROVE  Cardinality({j \in Nodes : c[j][t] = i}) >= Majority
<1> DEFINE S == {j \in Nodes : b[j][t] = i}
           T == {j \in Nodes : c[j][t] = i}
<1>1. S \subseteq T
  BY RaftAssumption DEF Grows
<1>2. T \in SUBSET Nodes /\ S \in SUBSET Nodes
  OBVIOUS
<1>3. Majority \in Nat
  BY SizeAssumption DEF Majority
<1>4. Cardinality(S) >= Majority
  OBVIOUS
<1> HIDE DEF S, T
<1>5. Cardinality(S) <= Cardinality(T)
  BY <1>1, <1>2, VotersFinite, FS_Subset
<1>6. Cardinality(T) >= Majority
  BY <1>2, <1>3, <1>4, <1>5, VotersFinite
<1> QED
  BY <1>6 DEF T

\* While no node stands, wins or counts a vote, those who stood or won remain
\* as they were, whatever votes are added.
LEMMA SettledElection ==
  ASSUME TypeOK, TypeOK', NEW h \in Histories, NEW g \in Histories,
         g.counted = h.counted, g.elected = h.elected,
         Grows(h.ballot, g.ballot), \A n \in Nodes : Settles(n),
         CountsRight(h), ElectedByMajority(h), LeadersElected(h)
  PROVE  CountsRight(g)' /\ ElectedByMajority(g)' /\ LeadersElected(g)'
<1>1. \A n \in Nodes : /\ currentTerm[n] \in Terms
                       /\ currentTerm'[n] \in Terms
                       /\ currentTerm[n] \in Nat
                       /\ currentTerm'[n] \in Nat
  BY TermsAreNumbers DEF TypeOK
<1>2. \A n \in Nodes : role'[n] # "Follower" =>
        /\ role'[n] = role[n]
        /\ currentTerm'[n] = currentTerm[n]
        /\ votesReceived'[n] = votesReceived[n]
  BY DEF Settles
<1>3. CountsRight(g)'
  <2> SUFFICES ASSUME NEW i \in Nodes, role'[i] = "Candidate"
               PROVE  /\ i \in g.counted[i]
                      /\ Cardinality(g.counted[i]) = votesReceived'[i]
                      /\ \A j \in g.counted[i] :
                           g.ballot[j][currentTerm'[i]] = i
    BY DEF CountsRight
  <2>1. /\ role[i] = "Candidate"
        /\ currentTerm'[i] = currentTerm[i]
        /\ votesReceived'[i] = votesReceived[i]
    BY <1>2
  <2>2. \A j \in h.counted[i] : /\ j \in Nodes
                                /\ h.ballot[j][currentTerm[i]] = i
    BY <2>1, HistoryTypes DEF CountsRight
  <2>3. \A j \in h.counted[i] : g.ballot[j][currentTerm[i]] = i
    BY <1>1, <2>2, RaftAssumption DEF Grows
  <2> QED
    BY <2>1, <2>3 DEF CountsRight
<1>4. ElectedByMajority(g)'
  <2> SUFFICES ASSUME NEW t \in Terms, NEW i \in Nodes, g.elected[t] = i
               PROVE  /\ Cardinality({j \in Nodes : g.ballot[j][t] = i})
                           >= Majority
                      /\ currentTerm'[i] >= t
                      /\ currentTerm'[i] = t => role'[i] # "Candidate"
    BY DEF ElectedByMajority
  <2>1. /\ Cardinality({j \in Nodes : h.ballot[j][t] = i}) >= Majority
        /\ currentTerm[i] >= t
        /\ currentTerm[i] = t => role[i] # "Candidate"
    BY DEF ElectedByMajority
  <2>2. Cardinality({j \in Nodes : g.ballot[j][t] = i}) >= Majority
    BY <2>1, MajorityKept
  <2>3. t \in Nat
    BY TermsAreNumbers
  <2>4. currentTerm'[i] >= t
    BY <1>1, <2>1, <2>3 DEF Settles
  <2>5. currentTerm'[i] = t => role'[i] # "Candidate"
    BY <1>2, <2>1
  <2> QED
    BY <2>2, <2>4, <2>5
<1>5. LeadersElected(g)'
  BY <1>2 DEF LeadersElected
<1> QED
  BY <1>3, <1>4, <1>5

\* A step adds no ballot paper but the answer to the request it takes.
LEMMA PapersKept ==
  ASSUME OneBallotPaper, NEW d, NEW out, QueueStep(d, out),
         \A k \in DOMAIN out : \A c, v \in Nodes :
           About(out[k], c, v) => d = 1 /\ k = 1 /\ About(Queue[1], c, v)
  PROVE  OneBallotPaper'
<1> SUFFICES ASSUME NEW k \in DOMAIN Queue', NEW l \in DOMAIN Queue',
                    NEW c \in Nodes, NEW v \in Nodes,
                    About(Queue'[k], c, v), About(Queue'[l], c, v)
             PROVE  k = l
  BY DEF OneBallotPaper, About, IsRequest, IsGrant
<1> DEFINE Old(j) == /\ j + d \in DOMAIN Queue
                     /\ j <= Len(Queue) - d
                     /\ Queue'[j] = Queue[j + d]
           New(j) == /\ j > Len(Queue) - d
                     /\ j - (Len(Queue) - d) \in DOMAIN out
                     /\ Queue'[j] = out[j - (Len(Queue) - d)]
<1>1. (Old(k) \/ New(k)) /\ (Old(l) \/ New(l))
  BY QueueOrigins
<1>2. /\ d \in {0, 1} /\ Len(Queue) \in Nat /\ k \in Nat \ {0}
      /\ l \in Nat \ {0} /\ d <= Len(Queue)
      /\ d = 1 => 1 \in DOMAIN Queue
  BY DEF QueueStep
<1>3. CASE Old(k) /\ Old(l)
  <2>1. k + d = l + d
    BY <1>3 DEF OneBallotPaper
  <2> QED
    BY <1>2, <2>1
<1>4. ASSUME New(k)
      PROVE  /\ d = 1 /\ k - (Len(Queue) - d) = 1
             /\ About(Queue[1], c, v)
  BY <1>4
<1>5. ASSUME New(l)
      PROVE  /\ d = 1 /\ l - (Len(Queue) - d) = 1
             /\ About(Queue[1], c, v)
  BY <1>5
<1>6. CASE New(k) /\ New(l)
  BY <1>2, <1>4, <1>5, <1>6
<1>7. CASE New(k) /\ Old(l)
  <2>1. l + d = 1
    BY <1>2, <1>4, <1>7 DEF OneBallotPaper
  <2> QED
    BY <1>2, <1>4, <1>7, <2>1
<1>8. CASE Old(k) /\ New(l)
  <2>1. k + d = 1
    BY <1>2, <1>5, <1>8 DEF OneBallotPaper
  <2> QED
    BY <1>2, <1>5, <1>8, <2>1
<1> QED
  BY <1>1, <1>3, <1>6, <1>7, <1>8

\* Requests stay of their candidates' terms while nobody stands.
LEMMA RequestsKept ==
  ASSUME RequestsCurrent, NEW d, NEW out, QueueStep(d, out),
         \A k \in DOMAIN out : ~IsRequest(out[k]),
         \A n \in Nodes : role'[n] # "Follower" =>
           role[n] # "Follower" /\ currentTerm'[n] = currentTerm[n]
  PROVE  RequestsCurrent'
<1> SUFFICES ASSUME NEW k \in DOMAIN Queue', IsRequest(Queue'[k])
             PROVE  /\ Queue'[k].msg.candidateId = Queue'[k].from
                    /\ role'[Queue'[k].from] # "Follower"
                         => Queue'[k].msg.term = currentTerm'[Queue'[k].from]
  BY DEF RequestsCurrent, IsRequest
<1>1. k + d \in DOMAIN Queue /\ Queue'[k] = Queue[k + d]
  BY QueueOrigins
<1>2. PICK e : e = Queue[k + d]
  OBVIOUS
<1>3. e.from \in Nodes
  <2>1. Queue \in Seq(EnvelopeType) /\ DOMAIN Queue = 1 .. Len(Queue)
    BY DEF QueueStep
  <2>2. e \in EnvelopeType
    BY <1>1, <1>2, <2>1
  <2> QED
    BY <2>2 DEF EnvelopeType
<1>4. /\ e.msg.candidateId = e.from
      /\ role[e.from] # "Follower" => e.msg.term = currentTerm[e.from]
  BY <1>1, <1>2 DEF RequestsCurrent
<1> QED
  BY <1>1, <1>2, <1>3, <1>4

\* While nobody stands or counts a vote, what is under way stays uncounted.
LEMMA UncountedKept ==
  ASSUME TypeOK, NEW h \in Histories, NEW g \in Histories,
         g.counted = h.counted, Grows(h.ballot, g.ballot),
         \A n \in Nodes : Settles(n),
         Uncounted(h), NEW d, NEW out, QueueStep(d, out),
         \A k \in DOMAIN out : \A c, v \in Nodes :
           About(out[k], c, v) /\ role[c] = "Candidate" =>
             /\ d = 1
             /\ About(Queue[1], c, v)
             /\ g.ballot[v][currentTerm[c]] = c
  PROVE  Uncounted(g)'
<1> SUFFICES ASSUME NEW k \in DOMAIN Queue', NEW c \in Nodes, NEW v \in Nodes,
                    About(Queue'[k], c, v), role'[c] = "Candidate"
             PROVE  /\ v \notin g.counted[c]
                    /\ IsGrant(Queue'[k]) => g.ballot[v][currentTerm'[c]] = c
  BY DEF Uncounted, About, IsGrant, IsRequest
<1>1. role[c] = "Candidate" /\ currentTerm'[c] = currentTerm[c]
  BY DEF Settles
<1>2. currentTerm[c] \in Terms
  BY DEF TypeOK
<1>3. CASE /\ k + d \in DOMAIN Queue
           /\ Queue'[k] = Queue[k + d]
  <2>1. /\ v \notin h.counted[c]
        /\ IsGrant(Queue'[k]) => h.ballot[v][currentTerm[c]] = c
    BY <1>1, <1>3 DEF Uncounted
  <2>2. h.ballot[v][currentTerm[c]] = c => g.ballot[v][currentTerm[c]] = c
    BY <1>2, RaftAssumption DEF Grows
  <2> QED
    BY <1>1, <2>1, <2>2
<1>4. CASE /\ k - (Len(Queue) - d) \in DOMAIN out
           /\ Queue'[k] = out[k - (Len(Queue) - d)]
  <2>1. d = 1 /\ About(Queue[1], c, v) /\ g.ballot[v][currentTerm[c]] = c
    BY <1>1, <1>4
  <2>2. 1 \in DOMAIN Queue
    BY <2>1 DEF QueueStep
  <2>3. v \notin h.counted[c]
    BY <1>1, <2>1, <2>2 DEF Uncounted
  <2> QED
    BY <1>1, <2>1, <2>3
<1> QED
  BY <1>3, <1>4, QueueOrigins

-----------------------------------------------------------------------------
(* Votes given *)

\* What is known of a message that is delivered.
Delivers(e) ==
    /\ inflight # <<>>
    /\ inflight' = Tail(inflight)
    /\ Queue[1] = Head(inflight)
    /\ 1 \in DOMAIN Queue
    /\ e \in EnvelopeType
    /\ e.from = Queue[1].from
    /\ e.to = Queue[1].to
    /\ e.msg.type = Queue[1].msg.type
    /\ e.msg = Queue[1].msg \/ e.msg.type = "AppendEntries"

\* Every message is delivered as it was sent, but for the payloads of entries.
LEMMA DeliveredSame ==
  ASSUME NetTypeOK, DeliverMessage
  PROVE  \E e : Delivers(e) /\ HandleMessage(e)
                /\ e = [Head(inflight) EXCEPT !.msg = Tampered(Head(inflight))]
<1> DEFINE e == [Head(inflight) EXCEPT !.msg = Tampered(Head(inflight))]
           a == Head(inflight).msg
<1>1. Deliverable /\ HandleMessage(e)
  BY DEF DeliverMessage
<1>2. /\ inflight # <<>>
      /\ Head(inflight) \in EnvelopeType
      /\ e \in EnvelopeType
      /\ e.from = Head(inflight).from
      /\ e.to = Head(inflight).to
      /\ e.msg = Tampered(Head(inflight))
  BY <1>1, DeliveredType
<1>3. \/ e.msg = a
      \/ a.type = "AppendEntries" /\ e.msg.type = "AppendEntries"
  <2>1. a \in Message
    BY <1>2 DEF EnvelopeType
  <2>2. CASE Tampered(Head(inflight)) # a
    <3>1. /\ a.type = "AppendEntries"
          /\ e.msg = [a EXCEPT !.entries = e.msg.entries]
      BY <1>2, <2>2, TamperedType
    <3>2. a \in [type : {"AppendEntries"}, term : Terms, leaderId : Nodes,
                 prevLogIndex : Nat, prevLogTerm : Terms,
                 entries : Seq(LogEntry), leaderCommit : Nat]
      BY <2>1, <3>1 DEF Message
    <3> HIDE DEF a, e
    <3>3. e.msg.type = a.type
      BY <3>1, <3>2
    <3> QED
      BY <3>1, <3>3
  <2> QED
    BY <1>2, <2>2
<1>4. PICK out : Consume(out)
  BY <1>1, HandlersConsume
<1>5. inflight' = Tail(inflight)
  BY <1>4 DEF Consume
<1>6. /\ inflight \in Seq(EnvelopeType)
      /\ pending \in Seq(EnvelopeType)
      /\ Len(inflight) \in Nat
      /\ Len(pending) \in Nat
      /\ Len(inflight) >= 1
      /\ Head(inflight) = inflight[1]
  BY <1>2, HeadTailProperties, EmptySeq, LenProperties DEF NetTypeOK
<1>7. Queue[1] = inflight[1] /\ 1 \in DOMAIN Queue
  <2>1. Queue \in Seq(EnvelopeType) /\ Len(Queue) = Len(inflight) + Len(pending)
    BY <1>6, ConcatProperties DEF Queue
  <2>2. DOMAIN Queue = 1 .. Len(Queue)
    BY <2>1, LenProperties
  <2>3. Queue[1] = inflight[1]
    BY <1>6 DEF Queue
  <2> QED
    BY <1>6, <2>1, <2>2, <2>3
<1>8. Delivers(e)
  <2> HIDE DEF e
  <2> QED
    BY <1>2, <1>3, <1>5, <1>6, <1>7 DEF Delivers
<1> QED
  BY <1>1, <1>8

\* Node j votes for c in term t in a step: it stands, or grants the request
\* it takes.
Casts(j, t, c) ==
    /\ currentTerm'[j] = t
    /\ \/ StartElection(j) /\ c = j
       \/ \E e : /\ Delivers(e)
                 /\ HandleRequestVote(e)
                 /\ e.to = j
                 /\ e.from = c
                 /\ e.msg.term = t
                 /\ Grants(j, e.msg)

\* No other vote is added to those of history h.
VotesCast(h, g) ==
    \A j \in Nodes : \A t \in Terms :
        g.ballot[j][t] = h.ballot[j][t] \/ Casts(j, t, g.ballot[j][t])

\* A candidate's request gets the answer of the node, its vote perhaps: one
\* of its own term or a later one, in which it voted for nobody else.
LEMMA RequestVoteElection ==
  ASSUME TypeOK, TypeOK', NEW h \in Histories,
         ElectionInv(h), RequestsCurrent, OneBallotPaper,
         NEW e, Delivers(e), HandleRequestVote(e)
  PROVE  /\ RequestsCurrent'
         /\ OneBallotPaper'
         /\ \E g \in Histories : /\ ElectionInv(g)'
                                 /\ VotesCast(h, g)
                                 /\ g.elected = h.elected
                                 /\ g.glog = h.glog
<1> DEFINE i == e.to
           c == e.from
           m == e.msg
           t == m.term
           old == h.ballot[i]
           b == IF Grants(i, m)
                  THEN [h.ballot EXCEPT ![i] = [old EXCEPT ![t] = c]]
                  ELSE h.ballot
           term == IF IsNewer(i, m) THEN m.term ELSE currentTerm[i]
           reply == Envelope(i, c, RequestVoteResponseMsg(term, Grants(i, m)))
           out == <<reply>>
<1>1. /\ i \in Nodes
      /\ c \in Nodes
      /\ m \in Message
      /\ m.type = "RequestVote"
      /\ m = Queue[1].msg
      /\ IsRequest(Queue[1])
      /\ 1 \in DOMAIN Queue
      /\ Queue[1].from = c
      /\ Queue[1].to = i
  BY DEF Delivers, EnvelopeType, HandleRequestVote, IsRequest
<1>2. t \in Terms /\ currentTerm[i] \in Terms /\ t \in Nat
      /\ currentTerm[i] \in Nat /\ votedFor[i] \in Nodes \cup {None}
  BY <1>1, MessageFields, TermsAreNumbers DEF TypeOK
<1>3. /\ m.candidateId = c
      /\ role[c] # "Follower" => t = currentTerm[c]
  BY <1>1 DEF RequestsCurrent
<1>4. /\ currentTerm'[i] = term
      /\ votesReceived' = votesReceived
      /\ role'[i] = IF IsNewer(i, m) THEN "Follower" ELSE role[i]
      /\ votedFor'[i] = CASE Grants(i, m) -> c
                          [] IsNewer(i, m) /\ ~Grants(i, m) -> None
                          [] OTHER -> votedFor[i]
      /\ \A n \in Nodes \ {i} : /\ currentTerm'[n] = currentTerm[n]
                                /\ role'[n] = role[n]
                                /\ votedFor'[n] = votedFor[n]
  <2>1. /\ currentTerm' = [currentTerm EXCEPT ![i] = term]
        /\ votesReceived' = votesReceived
        /\ role' = [role EXCEPT ![i] = IF IsNewer(i, m) THEN "Follower" ELSE @]
        /\ votedFor' =
             [votedFor EXCEPT ![i] = CASE Grants(i, m) -> c
                                       [] IsNewer(i, m) /\ ~Grants(i, m) -> None
                                       [] OTHER -> @]
    BY <1>3 DEF HandleRequestVote
  <2>2. /\ currentTerm \in [Nodes -> Terms]
        /\ role \in [Nodes -> {"Follower", "Candidate", "Leader"}]
        /\ votedFor \in [Nodes -> Nodes \cup {None}]
    BY DEF TypeOK
  <2> HIDE DEF i, c, m, term
  <2> QED
    BY <1>1, <2>1, <2>2
<1>5. \A n \in Nodes : Settles(n)
  BY <1>2, <1>4 DEF Settles, IsNewer
<1>6. h.ballot \in [Nodes -> [Terms -> Nodes \cup {None}]] /\ None \notin Nodes
  BY HistoryTypes
<1>7. Grants(i, m) =>
        /\ t >= currentTerm[i]
        /\ currentTerm'[i] = t
        /\ old[t] \in {None, c}
  <2> SUFFICES ASSUME Grants(i, m)
               PROVE  /\ t >= currentTerm[i]
                      /\ currentTerm'[i] = t
                      /\ old[t] \in {None, c}
    OBVIOUS
  <2>1. t >= currentTerm[i] /\ (IsNewer(i, m) \/ votedFor[i] \in {None, c})
    BY <1>3 DEF Grants
  <2>2. currentTerm'[i] = t
    BY <1>2, <1>4, <2>1 DEF IsNewer
  <2>3. /\ t > currentTerm[i] => old[t] = None
        /\ old[currentTerm[i]] \in {None, votedFor[i]}
    BY <1>1, <1>2 DEF ElectionInv, BallotsKept
  <2> QED
    BY <1>2, <2>1, <2>2, <2>3 DEF IsNewer
<1>8. PICK g \in Histories : /\ g.ballot = b
                             /\ g.counted = h.counted
                             /\ g.elected = h.elected
                             /\ g.glog = h.glog
  <2>1. b \in [Nodes -> [Terms -> Nodes \cup {None}]]
    <3>1. [old EXCEPT ![t] = c] \in [Terms -> Nodes \cup {None}]
      BY <1>1, <1>2, <1>6
    <3> QED
      BY <1>1, <1>6, <3>1
  <2> HIDE DEF b
  <2> QED
    BY <2>1, SomeHistory
<1>9. /\ \A j \in Nodes \ {i} : b[j] = h.ballot[j]
      /\ \A u \in Terms : b[i][u] = IF Grants(i, m) /\ u = t THEN c ELSE old[u]
  BY <1>1, <1>2, <1>6
<1> HIDE DEF b
<1>10. Grows(h.ballot, b)
  BY <1>7, <1>9 DEF Grows
<1>11. CountsRight(g)' /\ ElectedByMajority(g)' /\ LeadersElected(g)'
  BY <1>5, <1>8, <1>10, SettledElection DEF ElectionInv
<1>12. BallotsKept(g)'
  <2> SUFFICES ASSUME NEW j \in Nodes
               PROVE  /\ \A u \in Terms : u > currentTerm'[j] => b[j][u] = None
                      /\ b[j][currentTerm'[j]] \in {None, votedFor'[j]}
    BY <1>8 DEF BallotsKept
  <2>1. /\ \A u \in Terms : u > currentTerm[j] => h.ballot[j][u] = None
        /\ h.ballot[j][currentTerm[j]] \in {None, votedFor[j]}
    BY DEF ElectionInv, BallotsKept
  <2>2. CASE j # i
    BY <1>4, <1>9, <2>1, <2>2
  <2>3. CASE j = i
    <3>1. \A u \in Terms : u \in Nat
      BY TermsAreNumbers
    <3>2. ASSUME NEW u \in Terms, u > currentTerm'[i]
          PROVE  b[i][u] = None
      <4>1. u > currentTerm[i] /\ (Grants(i, m) => u # t)
        BY <1>2, <1>4, <1>7, <3>1, <3>2 DEF IsNewer
      <4> QED
        BY <1>9, <2>1, <2>3, <4>1
    <3>3. b[i][currentTerm'[i]] \in {None, votedFor'[i]}
      <4>1. CASE Grants(i, m)
        BY <1>2, <1>4, <1>7, <1>9, <4>1
      <4>2. CASE ~Grants(i, m) /\ IsNewer(i, m)
        <5>1. currentTerm'[i] = t /\ t > currentTerm[i]
          BY <1>4, <4>2 DEF IsNewer
        <5> QED
          BY <1>2, <1>9, <2>1, <2>3, <4>2, <5>1
      <4>3. CASE ~Grants(i, m) /\ ~IsNewer(i, m)
        BY <1>2, <1>4, <1>9, <2>1, <2>3, <4>3
      <4> QED
        BY <4>1, <4>2, <4>3
    <3> QED
      BY <2>3, <3>2, <3>3
  <2> QED
    BY <2>2, <2>3
<1>13. QueueStep(1, out)
  <2>1. term \in Terms /\ Grants(i, m) \in BOOLEAN
    BY <1>2 DEF Grants
  <2>2. RequestVoteResponseMsg(term, Grants(i, m)) \in Message
    BY <2>1, MessageTypes
  <2>3. out \in Seq(EnvelopeType)
    BY <1>1, <2>2, SendType
  <2>4. pending' = pending \o out /\ inflight' = Tail(inflight)
    BY DEF HandleRequestVote, Reply, Consume, Enqueue
  <2> HIDE DEF out
  <2> QED
    BY <2>3, <2>4, QueueSteps, TypeParts DEF Delivers
<1>14. /\ ~IsRequest(reply)
       /\ \A x, v \in Nodes : About(reply, x, v) =>
            Grants(i, m) /\ x = c /\ v = i
  BY DEF IsRequest, IsGrant, About, Envelope, RequestVoteResponseMsg
<1>15. \A k \in DOMAIN out : k = 1 /\ out[k] = reply
  OBVIOUS
<1>16. About(Queue[1], c, i)
  BY <1>1 DEF About
<1> HIDE DEF out, reply
<1>17. OneBallotPaper'
  BY <1>13, <1>14, <1>15, <1>16, PapersKept
<1>18. RequestsCurrent'
  BY <1>5, <1>13, <1>14, <1>15, RequestsKept DEF Settles
<1>19. Uncounted(g)'
  <2>1. ASSUME NEW k \in DOMAIN out, NEW x \in Nodes, NEW v \in Nodes,
               About(out[k], x, v), role[x] = "Candidate"
        PROVE  /\ About(Queue[1], x, v)
               /\ g.ballot[v][currentTerm[x]] = x
    <3>1. Grants(i, m) /\ x = c /\ v = i
      BY <1>14, <1>15, <2>1
    <3>2. t = currentTerm[c]
      BY <1>3, <2>1, <3>1
    <3> QED
      BY <1>2, <1>8, <1>9, <1>16, <3>1, <3>2
  <2> QED
    BY <1>5, <1>8, <1>10, <1>13, <2>1, UncountedKept DEF ElectionInv
<1>20. VotesCast(h, g)
  <2> SUFFICES ASSUME NEW j \in Nodes, NEW u \in Terms,
                      b[j][u] # h.ballot[j][u]
               PROVE  Casts(j, u, b[j][u])
    BY <1>8 DEF VotesCast
  <2>1. j = i /\ u = t /\ Grants(i, m) /\ b[j][u] = c
    BY <1>9
  <2> QED
    BY <1>7, <2>1 DEF Casts
<1> QED
  BY <1>8, <1>11, <1>12, <1>17, <1>18, <1>19, <1>20 DEF ElectionInv

-----------------------------------------------------------------------------
(* Votes counted *)

\* A majority of votes is all there is: two of them share a voter.
LEMMA MajoritiesMeet ==
  ASSUME NEW S \in SUBSET Nodes, NEW T \in SUBSET Nodes,
         Cardinality(S) >= Majority, Cardinality(T) >= Majority
  PROVE  \E j \in Nodes : j \in S /\ j \in T
<1>1. Cardinality(Nodes) = N
  BY FS_Interval, SizeAssumption DEF Nodes
<1>2. Cardinality(S) \in Nat /\ Cardinality(T) \in Nat
  BY VotersFinite
<1>3. Majority + Majority > N /\ Majority \in Nat
  BY SizeAssumption DEF Majority
<1>4. Cardinality(S) + Cardinality(T) > Cardinality(Nodes)
  BY <1>1, <1>2, <1>3, SizeAssumption
<1>5. S \cap T # {}
  BY <1>4, VotersFinite, FS_MajoritiesIntersect
<1> QED
  BY <1>5

\* The vote that a candidate takes is a new one, of its own term.
LEMMA CountedVote ==
  ASSUME TypeOK, NEW h \in Histories, ElectionInv(h), OneBallotPaper,
         NEW e, Delivers(e), CountsVote(e.to, e.msg)
  PROVE  /\ e.to \in Nodes
         /\ e.from \in Nodes
         /\ About(Queue[1], e.to, e.from)
         /\ role[e.to] = "Candidate"
         /\ e.to \in h.counted[e.to]
         /\ h.counted[e.to] \in SUBSET Nodes
         /\ e.from \notin h.counted[e.to]
         /\ h.counted[e.to] \cup {e.from} \in SUBSET Nodes
         /\ Cardinality(h.counted[e.to] \cup {e.from})
              = votesReceived[e.to] + 1
         /\ \A j \in h.counted[e.to] \cup {e.from} :
              h.ballot[j][currentTerm[e.to]] = e.to
<1>1. /\ e.to \in Nodes
      /\ e.from \in Nodes
      /\ role[e.to] = "Candidate"
      /\ IsGrant(Queue[1])
      /\ About(Queue[1], e.to, e.from)
  BY DEF Delivers, EnvelopeType, CountsVote, IsGrant, About
<1>2. /\ e.from \notin h.counted[e.to]
      /\ h.ballot[e.from][currentTerm[e.to]] = e.to
  BY <1>1 DEF ElectionInv, Uncounted, Delivers
<1>3. /\ e.to \in h.counted[e.to]
      /\ Cardinality(h.counted[e.to]) = votesReceived[e.to]
      /\ \A j \in h.counted[e.to] : h.ballot[j][currentTerm[e.to]] = e.to
  BY <1>1 DEF ElectionInv, CountsRight
<1>4. h.counted[e.to] \in SUBSET Nodes
  BY <1>1, HistoryTypes
<1>5. Cardinality(h.counted[e.to] \cup {e.from}) = votesReceived[e.to] + 1
  BY <1>2, <1>3, <1>4, VotersFinite, FS_AddElement
<1> QED
  BY <1>1, <1>2, <1>3, <1>4, <1>5

\* A vote that does not decide the election is added to those counted.
LEMMA CountVoteElection ==
  ASSUME TypeOK, TypeOK', NEW h \in Histories,
         ElectionInv(h), RequestsCurrent, OneBallotPaper,
         NEW e, Delivers(e), CountVote(e)
  PROVE  /\ RequestsCurrent'
         /\ OneBallotPaper'
         /\ \E g \in Histories : /\ ElectionInv(g)'
                                 /\ VotesCast(h, g)
                                 /\ g.elected = h.elected
                                 /\ g.glog = h.glog
<1> DEFINE S == h.counted[e.to] \cup {e.from}
<1>1. PICK i \in Nodes, j \in Nodes : i = e.to /\ j = e.from
  BY DEF Delivers, EnvelopeType
<1>2. CountsVote(i, e.msg)
  BY <1>1 DEF CountVote
<1>3. /\ About(Queue[1], i, j)
      /\ role[i] = "Candidate"
      /\ i \in h.counted[i]
      /\ j \notin h.counted[i]
      /\ S \in SUBSET Nodes
      /\ S = h.counted[i] \cup {j}
      /\ Cardinality(S) = votesReceived[i] + 1
      /\ \A v \in S : h.ballot[v][currentTerm[i]] = i
  BY <1>1, <1>2, CountedVote
<1> HIDE DEF S
<1>4. /\ UNCHANGED <<currentTerm, role, votedFor>>
      /\ votesReceived'[i] = votesReceived[i] + 1
      /\ \A n \in Nodes \ {i} : votesReceived'[n] = votesReceived[n]
  BY <1>1 DEF CountVote, TypeOK, termVars
<1>5. PICK g \in Histories : /\ g.ballot = h.ballot
                             /\ g.counted = [h.counted EXCEPT ![i] = S]
                             /\ g.elected = h.elected
                             /\ g.glog = h.glog
  <2>1. [h.counted EXCEPT ![i] = S] \in [Nodes -> SUBSET Nodes]
    BY <1>3, HistoryTypes
  <2> QED
    BY <2>1, SomeHistory
<1>6. /\ g.counted[i] = S
      /\ \A n \in Nodes \ {i} : g.counted[n] = h.counted[n]
  BY <1>5, HistoryTypes
<1>7. QueueStep(1, <<>>)
  <2>1. pending' = pending \o <<>> /\ pending \o <<>> = pending
    BY TypeParts, ConcatEmptySeq DEF CountVote, Consume, Enqueue, NetTypeOK
  <2> QED
    BY <2>1, SilentQueue, TypeParts DEF Delivers
<1>8. /\ BallotsKept(g)'
      /\ ElectedByMajority(g)'
      /\ LeadersElected(g)'
  BY <1>4, <1>5
     DEF ElectionInv, BallotsKept, ElectedByMajority, LeadersElected
<1>9. CountsRight(g)'
  <2> SUFFICES ASSUME NEW n \in Nodes, role'[n] = "Candidate"
               PROVE  /\ n \in g.counted[n]
                      /\ Cardinality(g.counted[n]) = votesReceived'[n]
                      /\ \A v \in g.counted[n] :
                           g.ballot[v][currentTerm'[n]] = n
    BY DEF CountsRight
  <2>1. CASE n = i
    BY <1>3, <1>4, <1>5, <1>6, <2>1
  <2>2. CASE n # i
    BY <1>4, <1>5, <1>6, <2>2 DEF ElectionInv, CountsRight
  <2> QED
    BY <2>1, <2>2
<1>10. OneBallotPaper'
  <2>1. \A k \in DOMAIN <<>> : FALSE
    OBVIOUS
  <2> QED
    BY <1>7, <2>1, PapersKept
<1>11. RequestsCurrent'
  <2>1. \A k \in DOMAIN <<>> : FALSE
    OBVIOUS
  <2> QED
    BY <1>4, <1>7, <2>1, RequestsKept
<1>12. Uncounted(g)'
  <2> SUFFICES ASSUME NEW k \in DOMAIN Queue', NEW c \in Nodes, NEW v \in Nodes,
                      About(Queue'[k], c, v), role'[c] = "Candidate"
               PROVE  /\ v \notin g.counted[c]
                      /\ IsGrant(Queue'[k])
                           => g.ballot[v][currentTerm'[c]] = c
    BY DEF Uncounted, About, IsGrant, IsRequest
  <2>1. k + 1 \in DOMAIN Queue /\ Queue'[k] = Queue[k + 1] /\ k + 1 # 1
    <3>1. k \in Nat \ {0}
      BY <1>7 DEF QueueStep
    <3> QED
      BY <1>7, <3>1, QueueOrigins
  <2>2. /\ v \notin h.counted[c]
        /\ IsGrant(Queue'[k]) => h.ballot[v][currentTerm[c]] = c
    BY <1>4, <2>1 DEF ElectionInv, Uncounted
  <2>3. c = i => v # j
    BY <1>3, <2>1 DEF OneBallotPaper, Delivers
  <2> QED
    BY <1>3, <1>4, <1>5, <1>6, <2>2, <2>3
<1> QED
  BY <1>5, <1>8, <1>9, <1>10, <1>11, <1>12 DEF ElectionInv, VotesCast

\* What leaders and followers send each other has nothing to do with votes.
LEMMA NoPapers ==
  ASSUME NEW i, NEW l, NEW next
  PROVE  \A k \in DOMAIN AppendEntriesToAll(i, l, next) :
           LET e == AppendEntriesToAll(i, l, next)[k] IN
             /\ e.from = i
             /\ e.msg.type = "AppendEntries"
             /\ ~IsRequest(e)
             /\ \A c, v : ~About(e, c, v)
BY DEF AppendEntriesToAll, Envelope, BuildAppendEntries, AppendEntriesMsg,
       IsRequest, IsGrant, About

\* What a new leader sends.
LEMMA WinElectionQueue ==
  ASSUME TypeOK, NEW e, Delivers(e), WinElection(e)
  PROVE  \E next \in [Nodes -> Nat \ {0}] :
           /\ AppendEntriesToAll(e.to, log[e.to], next) \in Seq(EnvelopeType)
           /\ QueueStep(1, AppendEntriesToAll(e.to, log[e.to], next))
<1> DEFINE i == e.to
           next == [p \in Nodes |-> IF p = i THEN nextIndex[i][p]
                                             ELSE Len(log[i]) + 1]
           out == AppendEntriesToAll(i, log[i], next)
<1>1. i \in Nodes
  BY DEF Delivers, EnvelopeType
<1>2. /\ log[i] \in Seq(LogEntry)
      /\ Len(log[i]) + 1 \in Nat \ {0}
      /\ nextIndex[i] \in [Nodes -> Nat \ {0}]
      /\ commitIndex[i] \in Nat
      /\ currentTerm[i] \in Terms
      /\ NetTypeOK
  <2>1. log[i] \in Seq(LogEntry)
    BY <1>1 DEF TypeOK
  <2>2. Len(log[i]) \in Nat
    BY <2>1, LenProperties
  <2>3. NetTypeOK
    BY TypeParts
  <2>4. /\ nextIndex[i] \in [Nodes -> Nat \ {0}]
        /\ commitIndex[i] \in Nat
        /\ currentTerm[i] \in Terms
    BY <1>1 DEF TypeOK
  <2> HIDE DEF i
  <2> QED
    BY <2>1, <2>2, <2>3, <2>4
<1>3. next \in [Nodes -> Nat \ {0}]
  BY <1>2
<1>4. pending' = pending \o out /\ inflight' = Tail(inflight)
  BY DEF WinElection, Consume, Enqueue
<1> HIDE DEF next
<1>5. out \in Seq(EnvelopeType)
  BY <1>1, <1>2, <1>3, SendType
<1> HIDE DEF out
<1>6. QueueStep(1, out)
  BY <1>2, <1>4, <1>5, QueueSteps DEF Delivers
<1> QED
  BY <1>3, <1>5, <1>6 DEF out

\* The vote that decides an election makes the candidate the only winner of
\* its term: another one would share a voter with it.
LEMMA WinElectionElection ==
  ASSUME TypeOK, TypeOK', NEW h \in Histories,
         ElectionInv(h), RequestsCurrent, OneBallotPaper,
         NEW e, Delivers(e), WinElection(e)
  PROVE  /\ RequestsCurrent'
         /\ OneBallotPaper'
         /\ h.elected[currentTerm[e.to]] = None
         /\ \E g \in Histories :
              /\ ElectionInv(g)'
              /\ VotesCast(h, g)
              /\ g.elected = [h.elected EXCEPT ![currentTerm[e.to]] = e.to]
              /\ g.glog = h.glog
<1> DEFINE S == h.counted[e.to] \cup {e.from}
<1>1. PICK i \in Nodes, j \in Nodes : i = e.to /\ j = e.from
  BY DEF Delivers, EnvelopeType
<1>2. CountsVote(i, e.msg)
  BY <1>1 DEF WinElection
<1>3. /\ About(Queue[1], i, j)
      /\ role[i] = "Candidate"
      /\ S \in SUBSET Nodes
      /\ Cardinality(S) = votesReceived[i] + 1
      /\ \A v \in S : h.ballot[v][currentTerm[i]] = i
  BY <1>1, <1>2, CountedVote
<1> HIDE DEF S
<1>4. /\ UNCHANGED <<currentTerm, votedFor>>
      /\ Cardinality(S) >= Majority
      /\ role'[i] = "Leader"
      /\ \A n \in Nodes \ {i} : /\ votesReceived'[n] = votesReceived[n]
                                /\ role'[n] = role[n]
  <2>1. votesReceived[i] + 1 >= Majority
    BY <1>1 DEF WinElection
  <2>2. /\ UNCHANGED <<currentTerm, votedFor>>
        /\ role' = [role EXCEPT ![i] = "Leader"]
        /\ votesReceived' = [votesReceived EXCEPT ![i] = @ + 1]
    BY <1>1 DEF WinElection
  <2>3. /\ role \in [Nodes -> {"Follower", "Candidate", "Leader"}]
        /\ votesReceived \in [Nodes -> Nat]
    BY DEF TypeOK
  <2> QED
    BY <1>3, <2>1, <2>2, <2>3
<1>5. PICK t \in Terms : t = currentTerm[i]
  BY DEF TypeOK
<1>6. /\ h.elected \in [Terms -> Nodes \cup {None}]
      /\ None \notin Nodes
  BY HistoryTypes
<1>7. h.elected[t] = None
  <2> SUFFICES ASSUME NEW w \in Nodes, h.elected[t] = w
               PROVE  FALSE
    BY <1>5, <1>6
  <2> DEFINE T == {v \in Nodes : h.ballot[v][t] = w}
  <2>1. /\ Cardinality(T) >= Majority
        /\ currentTerm[w] = t => role[w] # "Candidate"
    BY DEF ElectionInv, ElectedByMajority
  <2>2. T \in SUBSET Nodes
    OBVIOUS
  <2>3. PICK v \in Nodes : v \in S /\ v \in T
    BY <1>3, <1>4, <2>1, <2>2, MajoritiesMeet
  <2>4. w = i
    BY <1>3, <1>5, <2>3
  <2> QED
    BY <1>3, <1>5, <2>1, <2>4
<1>8. PICK g \in Histories : /\ g.ballot = h.ballot
                             /\ g.counted = h.counted
                             /\ g.elected = [h.elected EXCEPT ![t] = i]
                             /\ g.glog = h.glog
  <2>1. [h.elected EXCEPT ![t] = i] \in [Terms -> Nodes \cup {None}]
    BY <1>6
  <2> QED
    BY <2>1, SomeHistory
<1>9. /\ g.elected[t] = i
      /\ \A u \in Terms \ {t} : g.elected[u] = h.elected[u]
  BY <1>6, <1>8
<1>10. PICK next \in [Nodes -> Nat \ {0}] :
         QueueStep(1, AppendEntriesToAll(e.to, log[e.to], next))
  BY WinElectionQueue
<1> DEFINE out == AppendEntriesToAll(e.to, log[e.to], next)
<1>11. \A k \in DOMAIN out : /\ ~IsRequest(out[k])
                             /\ \A c, v : ~About(out[k], c, v)
  BY NoPapers
<1>12. QueueStep(1, out)
  BY <1>10
<1> HIDE DEF out
<1>13. BallotsKept(g)'
  BY <1>4, <1>8 DEF ElectionInv, BallotsKept
<1>14. CountsRight(g)'
  <2>1. \A n \in Nodes : role'[n] = "Candidate" =>
          /\ role[n] = "Candidate"
          /\ votesReceived'[n] = votesReceived[n]
    BY <1>4
  <2> QED
    BY <1>4, <1>8, <2>1 DEF ElectionInv, CountsRight
<1>15. ElectedByMajority(g)'
  <2> SUFFICES ASSUME NEW u \in Terms, NEW w \in Nodes, g.elected[u] = w
               PROVE  /\ Cardinality({v \in Nodes : h.ballot[v][u] = w})
                           >= Majority
                      /\ currentTerm[w] >= u
                      /\ currentTerm[w] = u => role'[w] # "Candidate"
    BY <1>4, <1>8 DEF ElectedByMajority
  <2>1. CASE u = t
    <3>1. w = i
      BY <1>9, <2>1
    <3> DEFINE T == {v \in Nodes : h.ballot[v][t] = i}
    <3>2. S \subseteq T /\ T \in SUBSET Nodes
      BY <1>3, <1>5
    <3> HIDE DEF T
    <3>3. Cardinality(S) <= Cardinality(T)
      BY <3>2, VotersFinite, FS_Subset
    <3>4. /\ Cardinality(S) \in Nat
          /\ Cardinality(T) \in Nat
          /\ Majority \in Nat
      BY <1>3, <3>2, VotersFinite, SizeAssumption DEF Majority
    <3>5. Cardinality(T) >= Majority
      BY <1>4, <3>3, <3>4
    <3>6. t \in Nat
      BY TermsAreNumbers
    <3>7. Cardinality({v \in Nodes : h.ballot[v][u] = w}) >= Majority
      BY <2>1, <3>1, <3>5 DEF T
    <3>8. /\ currentTerm[w] >= u
          /\ role'[w] # "Candidate"
      BY <1>4, <1>5, <2>1, <3>1, <3>6
    <3> QED
      BY <3>7, <3>8
  <2>2. CASE u # t
    <3>1. h.elected[u] = w
      BY <1>9, <2>2
    <3>2. /\ Cardinality({v \in Nodes : h.ballot[v][u] = w}) >= Majority
          /\ currentTerm[w] >= u
          /\ currentTerm[w] = u => role[w] # "Candidate"
      BY <3>1 DEF ElectionInv, ElectedByMajority
    <3>3. role'[w] = "Candidate" => role[w] = "Candidate"
      BY <1>4
    <3> QED
      BY <3>2, <3>3
  <2> QED
    BY <2>1, <2>2
<1>16. LeadersElected(g)'
  <2> SUFFICES ASSUME NEW n \in Nodes, role'[n] = "Leader"
               PROVE  g.elected[currentTerm[n]] = n
    BY <1>4 DEF LeadersElected
  <2>1. CASE n = i
    BY <1>5, <1>9, <2>1
  <2>2. CASE n # i
    <3>1. h.elected[currentTerm[n]] = n /\ currentTerm[n] \in Terms
      BY <1>4, <2>2 DEF ElectionInv, LeadersElected, TypeOK
    <3> QED
      BY <1>6, <1>7, <1>9, <3>1
  <2> QED
    BY <2>1, <2>2
<1>17. OneBallotPaper'
  BY <1>11, <1>12, PapersKept
<1>18. RequestsCurrent'
  <2>1. \A n \in Nodes : role'[n] # "Follower" =>
          role[n] # "Follower" /\ currentTerm'[n] = currentTerm[n]
    BY <1>3, <1>4
  <2> QED
    BY <1>11, <1>12, <2>1, RequestsKept
<1>19. Uncounted(g)'
  <2> SUFFICES ASSUME NEW k \in DOMAIN Queue', NEW c \in Nodes, NEW v \in Nodes,
                      About(Queue'[k], c, v), role'[c] = "Candidate"
               PROVE  /\ v \notin h.counted[c]
                      /\ IsGrant(Queue'[k]) => h.ballot[v][currentTerm[c]] = c
    BY <1>4, <1>8 DEF Uncounted, About, IsGrant, IsRequest
  <2>1. k + 1 \in DOMAIN Queue /\ Queue'[k] = Queue[k + 1]
    BY <1>11, <1>12, QueueOrigins
  <2>2. role[c] = "Candidate"
    BY <1>4
  <2> QED
    BY <2>1, <2>2 DEF ElectionInv, Uncounted
<1> QED
  BY <1>1, <1>5, <1>7, <1>8, <1>13, <1>14, <1>15, <1>16, <1>17, <1>18, <1>19
     DEF ElectionInv, VotesCast

-----------------------------------------------------------------------------
(* Standing in an election *)

\* A driver that completes the queue: no call but step finds a message.
LEMMA QuietQueue ==
  ASSUME NetTypeOK, Quiet, MaxPending = 0, inflight = <<>>
  PROVE  DOMAIN Queue = {}
<1>1. pending \in Seq(EnvelopeType) /\ Len(pending) \in Nat
  BY LenProperties DEF NetTypeOK
<1>2. Len(pending) = 0
  BY <1>1 DEF Quiet
<1>3. pending = <<>>
  BY <1>1, <1>2, EmptySeq
<1>4. Queue = <<>>
  BY <1>1, <1>3, ConcatEmptySeq DEF Queue
<1> QED
  BY <1>4

\* A tick that reaches a node finds what the earlier nodes sent in this tick
\* and nothing else.
LEMMA TickFinds ==
  ASSUME TypeInv, TickQueue, MaxPending = 0, Tick
  PROVE  \A k \in DOMAIN Queue :
           /\ Queue[k].from < ticking
           /\ Queue[k].msg.type \in {"RequestVote", "AppendEntries"}
<1>1. CASE ticking # 0
  BY <1>1 DEF TickQueue
<1>2. CASE ticking = 0
  <2>1. Quiet /\ inflight = <<>>
    BY <1>2
       DEF Tick, TickAllowed, Heartbeat, TickLeader, TickFollower,
           StartElection, TickTurn
  <2>2. NetTypeOK
    BY TypeParts DEF TypeInv
  <2> QED
    BY <2>1, <2>2, QuietQueue
<1> QED
  BY <1>1, <1>2

\* A request goes to each peer once.
LEMMA PeersDiffer ==
  \A i \in Nodes : \A k, l \in 1 .. N - 1 : Peer(i, k) = Peer(i, l) => k = l
BY SizeAssumption, SMT DEF Peer, Nodes

\* A node that stands gives itself the vote of a new term, counts it, and
\* nothing of an earlier election of it is under way.
LEMMA StartElectionElection ==
  ASSUME TypeInv, TypeOK', NEW h \in Histories,
         ElectionInv(h), RequestsCurrent, OneBallotPaper, TickQueue,
         MaxPending = 0, Tick, NEW i \in Nodes, StartElection(i)
  PROVE  /\ RequestsCurrent'
         /\ OneBallotPaper'
         /\ \E g \in Histories : /\ ElectionInv(g)'
                                 /\ VotesCast(h, g)
                                 /\ g.elected = h.elected
                                 /\ g.glog = h.glog
<1> DEFINE m == RequestVoteMsg(currentTerm[i] + 1, i, log[i])
           out == Broadcast(i, m)
<1>1. /\ TypeOK
      /\ NetTypeOK
      /\ i = ticking
      /\ currentTerm[i] \in Nat
      /\ currentTerm[i] < MaxTerm
  <2>1. TypeOK /\ NetTypeOK
    BY TypeParts DEF TypeInv
  <2>2. i = ticking /\ role[i] # "Leader" /\ electionTicksRemaining[i] = 0
    BY DEF StartElection, TickTurn
  <2>3. currentTerm[i] < MaxTerm
    BY <2>2, TickRoom, SizeAssumption DEF Nodes
  <2> QED
    BY <2>1, <2>2, <2>3, TermsAreNumbers
<1>2. PICK t \in Terms : /\ t = currentTerm[i] + 1
                         /\ t \in Nat
                         /\ t > currentTerm[i]
  <2>1. currentTerm[i] + 1 \in Terms
    BY <1>1, RaftAssumption DEF Terms
  <2> QED
    BY <1>1, <2>1
<1>3. /\ currentTerm'[i] = t
      /\ role'[i] = "Candidate"
      /\ votedFor'[i] = i
      /\ votesReceived'[i] = 1
      /\ \A n \in Nodes \ {i} : /\ currentTerm'[n] = currentTerm[n]
                                /\ role'[n] = role[n]
                                /\ votedFor'[n] = votedFor[n]
                                /\ votesReceived'[n] = votesReceived[n]
  BY <1>1, <1>2 DEF StartElection, TypeOK
<1>4. /\ h.ballot \in [Nodes -> [Terms -> Nodes \cup {None}]]
      /\ h.counted \in [Nodes -> SUBSET Nodes]
      /\ None \notin Nodes
  BY HistoryTypes
<1> DEFINE b == [h.ballot EXCEPT ![i] = [@ EXCEPT ![t] = i]]
           c == [h.counted EXCEPT ![i] = {i}]
<1>5. /\ b \in [Nodes -> [Terms -> Nodes \cup {None}]]
      /\ c \in [Nodes -> SUBSET Nodes]
  <2>1. [h.ballot[i] EXCEPT ![t] = i] \in [Terms -> Nodes \cup {None}]
    BY <1>4
  <2> QED
    BY <1>4, <2>1
<1>6. /\ \A j \in Nodes \ {i} : b[j] = h.ballot[j]
      /\ \A u \in Terms : b[i][u] = IF u = t THEN i ELSE h.ballot[i][u]
      /\ c[i] = {i}
      /\ \A j \in Nodes \ {i} : c[j] = h.counted[j]
  BY <1>4
<1> HIDE DEF b, c
<1>7. PICK g \in Histories : /\ g.ballot = b
                             /\ g.counted = c
                             /\ g.elected = h.elected
                             /\ g.glog = h.glog
  <2>1. PICK f \in Histories : /\ f.ballot = b
                               /\ f.counted = h.counted
                               /\ f.elected = h.elected
                               /\ f.glog = h.glog
    BY <1>5, SomeHistory
  <2>2. PICK g \in Histories : /\ g.ballot = f.ballot
                               /\ g.counted = c
                               /\ g.elected = f.elected
                               /\ g.glog = f.glog
    BY <1>5, <2>1, SomeHistory
  <2> QED
    BY <2>1, <2>2
<1>8. h.ballot[i][t] = None
  BY <1>2 DEF ElectionInv, BallotsKept
<1>9. Grows(h.ballot, b)
  BY <1>6, <1>8 DEF Grows
<1>10. /\ out \in Seq(EnvelopeType)
       /\ DOMAIN out = 1 .. N - 1
       /\ \A k \in 1 .. N - 1 :
            /\ out[k].from = i
            /\ out[k].to = Peer(i, k)
            /\ out[k].msg = m
  <2>1. log[i] \in Seq(LogEntry)
    BY <1>1 DEF TypeOK
  <2>2. m \in Message
    BY <1>2, <2>1, MessageTypes
  <2>3. out \in Seq(EnvelopeType)
    BY <2>2, SendType
  <2>4. /\ DOMAIN out = 1 .. N - 1
        /\ \A k \in 1 .. N - 1 :
             /\ out[k].from = i
             /\ out[k].to = Peer(i, k)
             /\ out[k].msg = m
    BY DEF Broadcast, Envelope
  <2> QED
    BY <2>3, <2>4
<1>11. /\ m.type = "RequestVote"
       /\ m.candidateId = i
       /\ m.term = t
  BY <1>2 DEF RequestVoteMsg
<1>12. QueueStep(0, out)
  <2>1. pending' = pending \o out /\ inflight' = inflight
    BY DEF StartElection, TickTurn, Enqueue
  <2> HIDE DEF out
  <2> QED
    BY <1>1, <1>10, <2>1, QueueSteps
<1> HIDE DEF m, out
<1>13. \A k \in DOMAIN Queue : /\ Queue[k] \in EnvelopeType
                               /\ Queue[k].from \in Nodes \ {i}
                               /\ ~IsGrant(Queue[k])
  <2> SUFFICES ASSUME NEW k \in DOMAIN Queue
               PROVE  /\ Queue[k] \in EnvelopeType
                      /\ Queue[k].from \in Nodes \ {i}
                      /\ ~IsGrant(Queue[k])
    OBVIOUS
  <2>1. Queue[k] \in EnvelopeType
    BY <1>12 DEF QueueStep
  <2>2. /\ Queue[k].from < ticking
        /\ Queue[k].msg.type \in {"RequestVote", "AppendEntries"}
    BY TickFinds
  <2>3. Queue[k].from \in Nodes /\ Queue[k].from # i
    BY <1>1, <2>1, <2>2 DEF EnvelopeType, Nodes
  <2> QED
    BY <2>1, <2>2, <2>3 DEF IsGrant
<1>14. \A k \in DOMAIN Queue' :
         \/ /\ k \in DOMAIN Queue
            /\ Queue'[k] = Queue[k]
            /\ Queue'[k].from \in Nodes \ {i}
            /\ ~IsGrant(Queue'[k])
         \/ /\ k - Len(Queue) \in 1 .. N - 1
            /\ Queue'[k].from = i
            /\ Queue'[k].to = Peer(i, k - Len(Queue))
            /\ Queue'[k].msg = m
            /\ IsRequest(Queue'[k])
            /\ ~IsGrant(Queue'[k])
  <2> SUFFICES ASSUME NEW k \in DOMAIN Queue'
               PROVE  \/ /\ k \in DOMAIN Queue
                         /\ Queue'[k] = Queue[k]
                         /\ Queue'[k].from \in Nodes \ {i}
                         /\ ~IsGrant(Queue'[k])
                      \/ /\ k - Len(Queue) \in 1 .. N - 1
                         /\ Queue'[k].from = i
                         /\ Queue'[k].to = Peer(i, k - Len(Queue))
                         /\ Queue'[k].msg = m
                         /\ IsRequest(Queue'[k])
                         /\ ~IsGrant(Queue'[k])
    OBVIOUS
  <2>1. Len(Queue) - 0 = Len(Queue) /\ k + 0 = k
    BY <1>12 DEF QueueStep
  <2>2. CASE k + 0 \in DOMAIN Queue /\ Queue'[k] = Queue[k + 0]
    BY <1>13, <2>1, <2>2
  <2>3. CASE /\ k - (Len(Queue) - 0) \in DOMAIN out
             /\ Queue'[k] = out[k - (Len(Queue) - 0)]
    BY <1>10, <1>11, <2>1, <2>3 DEF IsRequest, IsGrant
  <2> QED
    BY <1>12, <2>2, <2>3, QueueOrigins
<1>15. BallotsKept(g)'
  <2> SUFFICES ASSUME NEW j \in Nodes
               PROVE  /\ \A u \in Terms : u > currentTerm'[j] => b[j][u] = None
                      /\ b[j][currentTerm'[j]] \in {None, votedFor'[j]}
    BY <1>7 DEF BallotsKept
  <2>1. /\ \A u \in Terms : u > currentTerm[j] => h.ballot[j][u] = None
        /\ h.ballot[j][currentTerm[j]] \in {None, votedFor[j]}
    BY DEF ElectionInv, BallotsKept
  <2>2. CASE j # i
    BY <1>3, <1>6, <2>1, <2>2
  <2>3. CASE j = i
    <3>1. \A u \in Terms : u \in Nat
      BY TermsAreNumbers
    <3>2. \A u \in Terms : u > t => b[i][u] = None
      BY <1>1, <1>2, <1>6, <2>1, <2>3, <3>1
    <3> QED
      BY <1>3, <1>6, <2>3, <3>2
  <2> QED
    BY <2>2, <2>3
<1>16. CountsRight(g)'
  <2> SUFFICES ASSUME NEW n \in Nodes, role'[n] = "Candidate"
               PROVE  /\ n \in c[n]
                      /\ Cardinality(c[n]) = votesReceived'[n]
                      /\ \A v \in c[n] : b[v][currentTerm'[n]] = n
    BY <1>7 DEF CountsRight
  <2>1. CASE n = i
    <3>1. Cardinality({i}) = 1
      BY FS_Singleton
    <3> QED
      BY <1>3, <1>6, <2>1, <3>1
  <2>2. CASE n # i
    <3>1. /\ n \in h.counted[n]
          /\ Cardinality(h.counted[n]) = votesReceived[n]
          /\ \A v \in h.counted[n] : h.ballot[v][currentTerm[n]] = n
      BY <1>3, <2>2 DEF ElectionInv, CountsRight
    <3>2. currentTerm[n] \in Terms /\ h.counted[n] \in SUBSET Nodes
      BY <1>1, <1>4 DEF TypeOK
    <3>3. \A v \in h.counted[n] : b[v][currentTerm[n]] = n
      BY <1>4, <1>9, <3>1, <3>2 DEF Grows
    <3> QED
      BY <1>3, <1>6, <2>2, <3>1, <3>3
  <2> QED
    BY <2>1, <2>2
<1>17. ElectedByMajority(g)'
  <2> SUFFICES ASSUME NEW u \in Terms, NEW n \in Nodes, h.elected[u] = n
               PROVE  /\ Cardinality({j \in Nodes : b[j][u] = n}) >= Majority
                      /\ currentTerm'[n] >= u
                      /\ currentTerm'[n] = u => role'[n] # "Candidate"
    BY <1>7 DEF ElectedByMajority
  <2>1. /\ Cardinality({j \in Nodes : h.ballot[j][u] = n}) >= Majority
        /\ currentTerm[n] >= u
        /\ currentTerm[n] = u => role[n] # "Candidate"
    BY DEF ElectionInv, ElectedByMajority
  <2>2. Cardinality({j \in Nodes : b[j][u] = n}) >= Majority
    BY <1>9, <2>1, MajorityKept
  <2>3. u \in Nat /\ currentTerm[n] \in Nat
    BY <1>1, TermsAreNumbers
  <2>4. /\ currentTerm'[n] >= u
        /\ currentTerm'[n] = u => role'[n] # "Candidate"
    BY <1>2, <1>3, <2>1, <2>3
  <2> QED
    BY <2>2, <2>4
<1>18. LeadersElected(g)'
  <2>1. \A n \in Nodes : role'[n] = "Leader" =>
          role[n] = "Leader" /\ currentTerm'[n] = currentTerm[n]
    BY <1>3
  <2> QED
    BY <1>7, <2>1 DEF ElectionInv, LeadersElected
<1>19. OneBallotPaper'
  <2> SUFFICES ASSUME NEW k \in DOMAIN Queue', NEW l \in DOMAIN Queue',
                      NEW x \in Nodes, NEW v \in Nodes,
                      About(Queue'[k], x, v), About(Queue'[l], x, v)
               PROVE  k = l
    BY DEF OneBallotPaper, About, IsRequest, IsGrant
  <2>1. Queue'[k].from = x /\ Queue'[l].from = x
    BY <1>14 DEF About
  <2>2. CASE x # i
    BY <1>14, <2>1, <2>2 DEF OneBallotPaper
  <2>3. CASE x = i
    <3>1. /\ k - Len(Queue) \in 1 .. N - 1
          /\ l - Len(Queue) \in 1 .. N - 1
          /\ Peer(i, k - Len(Queue)) = v
          /\ Peer(i, l - Len(Queue)) = v
      BY <1>14, <2>1, <2>3 DEF About
    <3>2. k - Len(Queue) = l - Len(Queue)
      BY <3>1, PeersDiffer
    <3>3. k \in Int /\ l \in Int /\ Len(Queue) \in Int
      BY <1>12 DEF QueueStep
    <3> QED
      BY <3>2, <3>3
  <2> QED
    BY <2>2, <2>3
<1>20. RequestsCurrent'
  <2> SUFFICES ASSUME NEW k \in DOMAIN Queue', IsRequest(Queue'[k])
               PROVE  /\ Queue'[k].msg.candidateId = Queue'[k].from
                      /\ role'[Queue'[k].from] # "Follower"
                           => Queue'[k].msg.term = currentTerm'[Queue'[k].from]
    BY DEF RequestsCurrent, IsRequest
  <2>1. CASE /\ k \in DOMAIN Queue
             /\ Queue'[k] = Queue[k]
             /\ Queue'[k].from \in Nodes \ {i}
    BY <1>3, <2>1 DEF RequestsCurrent
  <2>2. CASE Queue'[k].from = i /\ Queue'[k].msg = m
    BY <1>3, <1>11, <2>2
  <2> QED
    BY <1>14, <2>1, <2>2
<1>21. Uncounted(g)'
  <2> SUFFICES ASSUME NEW k \in DOMAIN Queue', NEW x \in Nodes, NEW v \in Nodes,
                      About(Queue'[k], x, v), role'[x] = "Candidate"
               PROVE  /\ v \notin c[x]
                      /\ ~IsGrant(Queue'[k])
    BY <1>7 DEF Uncounted, About, IsGrant, IsRequest
  <2>1. ~IsGrant(Queue'[k]) /\ Queue'[k].from = x /\ Queue'[k].to = v
    BY <1>14 DEF About
  <2>2. CASE x # i
    <3>1. k \in DOMAIN Queue /\ Queue'[k] = Queue[k] /\ role[x] = "Candidate"
      BY <1>3, <1>14, <2>1, <2>2
    <3> QED
      BY <1>6, <2>1, <2>2, <3>1 DEF ElectionInv, Uncounted
  <2>3. CASE x = i
    <3>1. v \in Nodes \ {i}
      BY <1>14, <2>1, <2>3, PeerIsOther
    <3> QED
      BY <1>6, <2>1, <2>3, <3>1
  <2> QED
    BY <2>2, <2>3
<1>22. VotesCast(h, g)
  <2> SUFFICES ASSUME NEW j \in Nodes, NEW u \in Terms,
                      b[j][u] # h.ballot[j][u]
               PROVE  Casts(j, u, b[j][u])
    BY <1>7 DEF VotesCast
  <2>1. j = i /\ u = t /\ b[j][u] = i
    BY <1>6
  <2> QED
    BY <1>3, <2>1 DEF Casts
<1> QED
  BY <1>7, <1>15, <1>16, <1>17, <1>18, <1>19, <1>20, <1>21, <1>22
     DEF ElectionInv

-----------------------------------------------------------------------------
(* Everything else *)

\* Nobody votes, and a node that moves to a later term follows.
Votes == UNCHANGED votedFor /\ \A n \in Nodes : Settles(n)

\* What takes no part in an election leaves it as it is.
LEMMA OtherElection ==
  ASSUME TypeOK, TypeOK', NEW h \in Histories,
         ElectionInv(h), RequestsCurrent, OneBallotPaper, Votes,
         \/ Queue' = Queue
         \/ \E d, out : /\ QueueStep(d, out)
                        /\ \A k \in DOMAIN out :
                             /\ ~IsRequest(out[k])
                             /\ \A c, v : ~About(out[k], c, v)
  PROVE  /\ RequestsCurrent'
         /\ OneBallotPaper'
         /\ ElectionInv(h)'
<1>1. /\ votedFor' = votedFor
      /\ \A n \in Nodes : Settles(n)
      /\ \A n \in Nodes : role'[n] # "Follower" =>
           role[n] # "Follower" /\ currentTerm'[n] = currentTerm[n]
  BY DEF Votes, Settles
<1>2. \A n \in Nodes : /\ currentTerm[n] \in Nat
                       /\ currentTerm'[n] \in Nat
                       /\ currentTerm'[n] \in Terms
                       /\ currentTerm'[n] >= currentTerm[n]
  <2> SUFFICES ASSUME NEW n \in Nodes
               PROVE  /\ currentTerm[n] \in Nat
                      /\ currentTerm'[n] \in Nat
                      /\ currentTerm'[n] \in Terms
                      /\ currentTerm'[n] >= currentTerm[n]
    OBVIOUS
  <2>1. currentTerm[n] \in Terms /\ currentTerm'[n] \in Terms
    BY DEF TypeOK
  <2>2. currentTerm[n] \in Nat /\ currentTerm'[n] \in Nat
    BY <2>1, TermsAreNumbers
  <2>3. currentTerm'[n] >= currentTerm[n]
    BY <1>1, <2>2 DEF Settles
  <2> QED
    BY <2>1, <2>2, <2>3
<1>3. Grows(h.ballot, h.ballot)
  BY DEF Grows
<1>4. CountsRight(h)' /\ ElectedByMajority(h)' /\ LeadersElected(h)'
  BY <1>1, <1>3, SettledElection DEF ElectionInv
<1>5. BallotsKept(h)'
  <2> SUFFICES ASSUME NEW j \in Nodes
               PROVE  /\ \A u \in Terms :
                           u > currentTerm'[j] => h.ballot[j][u] = None
                      /\ h.ballot[j][currentTerm'[j]] \in {None, votedFor[j]}
    BY <1>1 DEF BallotsKept
  <2>1. /\ \A u \in Terms : u > currentTerm[j] => h.ballot[j][u] = None
        /\ h.ballot[j][currentTerm[j]] \in {None, votedFor[j]}
    BY DEF ElectionInv, BallotsKept
  <2>2. \A u \in Terms : u \in Nat
    BY TermsAreNumbers
  <2>3. \A u \in Terms : u > currentTerm'[j] => h.ballot[j][u] = None
    BY <1>2, <2>1, <2>2
  <2>4. currentTerm'[j] = currentTerm[j] \/ currentTerm'[j] > currentTerm[j]
    BY <1>2
  <2> QED
    BY <1>2, <2>1, <2>3, <2>4
<1>6. CASE Queue' = Queue
  <2>1. OneBallotPaper'
    BY <1>6 DEF OneBallotPaper, About, IsRequest, IsGrant
  <2>2. /\ Queue \in Seq(EnvelopeType)
        /\ DOMAIN Queue = 1 .. Len(Queue)
    BY TypeParts, ConcatProperties, LenProperties DEF NetTypeOK, Queue
  <2>3. \A k \in DOMAIN Queue : Queue[k].from \in Nodes
    <3>1. \A k \in DOMAIN Queue : Queue[k] \in EnvelopeType
      BY <2>2
    <3> QED
      BY <3>1 DEF EnvelopeType
  <2>4. RequestsCurrent'
    BY <1>1, <1>6, <2>3 DEF RequestsCurrent, IsRequest
  <2>5. Uncounted(h)'
    <3>1. \A n \in Nodes : role'[n] = "Candidate" =>
            role[n] = "Candidate" /\ currentTerm'[n] = currentTerm[n]
      BY <1>1 DEF Settles
    <3> QED
      BY <1>6, <3>1 DEF ElectionInv, Uncounted, About, IsRequest, IsGrant
  <2> QED
    BY <1>4, <1>5, <2>1, <2>4, <2>5 DEF ElectionInv
<1>7. ASSUME NEW d, NEW out, QueueStep(d, out),
             \A k \in DOMAIN out : /\ ~IsRequest(out[k])
                                   /\ \A c, v : ~About(out[k], c, v)
      PROVE  RequestsCurrent' /\ OneBallotPaper' /\ ElectionInv(h)'
  <2>1. OneBallotPaper'
    BY <1>7, PapersKept
  <2>2. RequestsCurrent'
    BY <1>1, <1>7, RequestsKept
  <2>3. Uncounted(h)'
    BY <1>1, <1>3, <1>7, UncountedKept DEF ElectionInv
  <2> QED
    BY <1>4, <1>5, <2>1, <2>2, <2>3 DEF ElectionInv
<1> QED
  BY <1>6, <1>7

\* The other handlers send nothing, an answer to a leader, or entries.
LEMMA OtherMessages ==
  ASSUME TypeOK, NEW e, Delivers(e),
         \/ StepDown(e) \/ RejectOldLeader(e) \/ RefuseGap(e)
         \/ RefuseConflict(e) \/ Replicate(e) \/ NoteReplicated(e)
         \/ BackUp(e) \/ Discard(e)
  PROVE  /\ Votes
         /\ \E out : /\ QueueStep(1, out)
                     /\ \A k \in DOMAIN out :
                          /\ ~IsRequest(out[k])
                          /\ \A c, v : ~About(out[k], c, v)
<1> DEFINE i == e.to
           m == e.msg
<1>1. /\ i \in Nodes
      /\ e \in EnvelopeType
      /\ m \in Message
      /\ m.term \in Terms
      /\ m.term \in Nat
      /\ currentTerm[i] \in Terms
      /\ currentTerm[i] \in Nat
      /\ log[i] \in Seq(LogEntry)
      /\ Len(log[i]) \in Nat
      /\ commitIndex[i] \in Nat
      /\ NetTypeOK
  <2>1. i \in Nodes /\ e \in EnvelopeType /\ m \in Message
    BY DEF Delivers, EnvelopeType
  <2>2. m.term \in Terms
    BY <2>1, MessageFields
  <2>3. log[i] \in Seq(LogEntry)
    BY <2>1 DEF TypeOK
  <2>4. Len(log[i]) \in Nat
    BY <2>3, LenProperties
  <2>5. currentTerm[i] \in Terms /\ commitIndex[i] \in Nat
    BY <2>1 DEF TypeOK
  <2>6. m.term \in Nat /\ currentTerm[i] \in Nat
    BY <2>2, <2>5, TermsAreNumbers
  <2>7. NetTypeOK
    BY TypeParts
  <2> HIDE DEF i, m
  <2> QED
    BY <2>1, <2>2, <2>3, <2>4, <2>5, <2>6, <2>7
<1>2. ASSUME NEW r \in Message, Reply(e, r),
             r.type \in {"AppendEntries", "AppendEntriesResponse"}
      PROVE  \E out : /\ QueueStep(1, out)
                      /\ \A k \in DOMAIN out :
                           /\ ~IsRequest(out[k])
                           /\ \A c, v : ~About(out[k], c, v)
  <2> DEFINE out == <<Envelope(e.to, e.from, r)>>
  <2>1. out \in Seq(EnvelopeType)
    BY <1>1, SendType DEF EnvelopeType
  <2>2. pending' = pending \o out /\ inflight' = Tail(inflight)
    BY <1>2 DEF Reply, Consume, Enqueue
  <2>3. \A k \in DOMAIN out : out[k].msg = r
    BY DEF Envelope
  <2> HIDE DEF out
  <2>4. QueueStep(1, out)
    BY <1>1, <2>1, <2>2, QueueSteps DEF Delivers
  <2>5. \A k \in DOMAIN out : /\ ~IsRequest(out[k])
                              /\ \A c, v : ~About(out[k], c, v)
    BY <1>2, <2>3 DEF About, IsRequest, IsGrant
  <2> QED
    BY <2>4, <2>5
<1>3. ASSUME Consume(<<>>)
      PROVE  \E out : /\ QueueStep(1, out)
                      /\ \A k \in DOMAIN out :
                           /\ ~IsRequest(out[k])
                           /\ \A c, v : ~About(out[k], c, v)
  <2>1. pending' = pending
    BY <1>1, <1>3, ConcatEmptySeq DEF Consume, Enqueue, NetTypeOK
  <2>2. QueueStep(1, <<>>)
    BY <1>1, <2>1, SilentQueue DEF Delivers
  <2>3. \A k \in DOMAIN <<>> : FALSE
    OBVIOUS
  <2> QED
    BY <2>2, <2>3
<1>4. ASSUME UNCHANGED <<termVars, votesReceived>>
      PROVE  Votes
  BY <1>4 DEF Votes, Settles, termVars
<1>5. ASSUME FollowLeader(i, m)
      PROVE  Votes
  <2>1. /\ m.term >= currentTerm[i]
        /\ currentTerm' = [currentTerm EXCEPT ![i] = m.term]
        /\ role' = [role EXCEPT ![i] = "Follower"]
        /\ UNCHANGED <<votedFor, votesReceived>>
    BY <1>5 DEF FollowLeader
  <2>2. /\ \A n \in Nodes \ {i} : /\ currentTerm'[n] = currentTerm[n]
                                  /\ role'[n] = role[n]
        /\ currentTerm'[i] = m.term
        /\ role'[i] = "Follower"
    BY <1>1, <2>1 DEF TypeOK
  <2> HIDE DEF i, m
  <2> QED
    BY <1>1, <2>1, <2>2 DEF Votes, Settles
<1>6. CASE StepDown(e)
  <2>1. /\ m.term > currentTerm[i]
        /\ currentTerm' = [currentTerm EXCEPT ![i] = m.term]
        /\ role' = [role EXCEPT ![i] = "Follower"]
        /\ UNCHANGED <<votedFor, votesReceived>>
        /\ Consume(<<>>)
    BY <1>6 DEF StepDown, IsNewer
  <2>2. /\ \A n \in Nodes \ {i} : /\ currentTerm'[n] = currentTerm[n]
                                  /\ role'[n] = role[n]
        /\ currentTerm'[i] = m.term
        /\ role'[i] = "Follower"
    BY <1>1, <2>1 DEF TypeOK
  <2>3. Votes
    <3> HIDE DEF i, m
    <3> QED
      BY <1>1, <2>1, <2>2 DEF Votes, Settles
  <2> QED
    BY <1>3, <2>1, <2>3
<1>7. CASE NoteReplicated(e) \/ Discard(e)
  <2>1. Consume(<<>>) /\ UNCHANGED <<termVars, votesReceived>>
    BY <1>7 DEF NoteReplicated, Discard, nodeVars
  <2> QED
    BY <1>3, <1>4, <2>1
<1>8. CASE BackUp(e)
  <2> DEFINE next == IF nextIndex[i][e.from] > 1 THEN nextIndex[i][e.from] - 1
                                                 ELSE 1
             r == BuildAppendEntries(i, log[i], next, commitIndex[i])
  <2>1. next \in Nat \ {0}
    <3>1. nextIndex[i][e.from] \in Nat \ {0}
      BY <1>1 DEF TypeOK, EnvelopeType
    <3> QED
      BY <3>1
  <2>2. Reply(e, r) /\ UNCHANGED <<termVars, votesReceived>>
    BY <1>8 DEF BackUp
  <2> HIDE DEF next
  <2>3. r \in Message /\ r.type = "AppendEntries"
    BY <1>1, <2>1, AppendEntriesType DEF BuildAppendEntries, AppendEntriesMsg
  <2> HIDE DEF r
  <2> QED
    BY <1>2, <1>4, <2>2, <2>3
<1>9. CASE \/ RejectOldLeader(e) \/ RefuseGap(e) \/ RefuseConflict(e)
           \/ Replicate(e)
  <2>1. PICK t \in Terms, success \in BOOLEAN, match \in Nat :
          Reply(e, AppendEntriesResponseMsg(t, success, match))
    <3>1. CASE RejectOldLeader(e)
      BY <1>1, <3>1 DEF RejectOldLeader
    <3>2. CASE RefuseGap(e)
      BY <1>1, <3>2 DEF RefuseGap
    <3>3. CASE RefuseConflict(e)
      <4>1. m.prevLogIndex - 1 \in Nat
        <5>1. DOMAIN log[i] = 1 .. Len(log[i])
          BY <1>1, LenProperties
        <5> QED
          BY <1>1, <3>3, <5>1 DEF RefuseConflict, Conflicts
      <4> QED
        BY <1>1, <3>3, <4>1 DEF RefuseConflict
    <3>4. CASE Replicate(e)
      <4>1. Reply(e, AppendEntriesResponseMsg(m.term, TRUE,
                                              Len(Merged(log[i], m.entries))))
        BY <3>4 DEF Replicate
      <4>2. m.entries \in Seq(LogEntry)
        BY <1>1, <3>4, MessageFields DEF Replicate, FollowLeader
      <4>3. Len(Merged(log[i], m.entries)) \in Nat
        BY <1>1, <4>2, MergedType, LenProperties
      <4> QED
        BY <1>1, <4>1, <4>3
    <3> QED
      BY <1>9, <3>1, <3>2, <3>3, <3>4
  <2>2. /\ AppendEntriesResponseMsg(t, success, match) \in Message
        /\ AppendEntriesResponseMsg(t, success, match).type
             = "AppendEntriesResponse"
    BY MessageTypes DEF AppendEntriesResponseMsg
  <2>3. Votes
    <3>1. RejectOldLeader(e) => UNCHANGED <<termVars, votesReceived>>
      BY DEF RejectOldLeader, nodeVars
    <3>2. ~RejectOldLeader(e) => FollowLeader(i, m)
      BY <1>9 DEF RefuseGap, RefuseConflict, Replicate
    <3> QED
      BY <1>4, <1>5, <3>1, <3>2
  <2> QED
    BY <1>2, <2>1, <2>2, <2>3
<1> QED
  BY <1>6, <1>7, <1>8, <1>9

\* What a proposal sends.
LEMMA ProposeQueue ==
  ASSUME TypeOK, NEW p \in Payloads, ProposeAccepted(p)
  PROVE  \E i \in Nodes :
           /\ role[i] = "Leader"
           /\ UNCHANGED <<termVars, votesReceived>>
           /\ log' = [log EXCEPT ![i] = Proposal(i, p)]
           /\ nextIndex[i] \in [Nodes -> Nat \ {0}]
           /\ QueueStep(0, AppendEntriesToAll(i, Proposal(i, p), nextIndex[i]))
<1>1. PICK k \in Asked : /\ role[ProposalTarget(k)] = "Leader"
                         /\ AppendProposal(ProposalTarget(k), <<p, 0>>)
  BY DEF ProposeAccepted
<1> DEFINE i == ProposalTarget(k)
           l == Proposal(i, p)
           out == AppendEntriesToAll(i, l, nextIndex[i])
<1>2. i \in Nodes
  BY TargetIsNode, TypeParts
<1>3. /\ pending' = pending \o out
      /\ inflight' = inflight
      /\ log' = [log EXCEPT ![i] = l]
      /\ UNCHANGED <<termVars, votesReceived>>
  BY <1>1 DEF ProposeAccepted, AppendProposal, Proposal, Enqueue
<1> HIDE DEF i
<1>4. /\ nextIndex[i] \in [Nodes -> Nat \ {0}]
      /\ commitIndex[i] \in Nat
      /\ currentTerm[i] \in Terms
  BY <1>2 DEF TypeOK
<1>5. l \in Seq(LogEntry)
  BY <1>2, ProposalAppends
<1> HIDE DEF l
<1>6. out \in Seq(EnvelopeType)
  BY <1>2, <1>4, <1>5, SendType
<1> HIDE DEF out
<1>7. QueueStep(0, out)
  BY <1>3, <1>6, QueueSteps, TypeParts
<1>8. role[i] = "Leader"
  BY <1>1 DEF i
<1> QED
  BY <1>2, <1>3, <1>4, <1>7, <1>8 DEF l, out

\* What the turn of a node in a tick sends: heartbeats of a leader, requests
\* of a node that stands, or nothing.
LEMMA TickSends ==
  ASSUME TypeInv, Tick
  PROVE  \E i \in Nodes : \E out :
           /\ i = ticking
           /\ ticking' = (i + 1) % N
           /\ UNCHANGED log
           /\ QueueStep(0, out)
           /\ \A k \in DOMAIN out :
                /\ out[k].from = i
                /\ out[k].msg.type \in {"RequestVote", "AppendEntries"}
           /\ \/ /\ StartElection(i)
                 /\ \A k \in DOMAIN out : IsRequest(out[k])
                 /\ out = Broadcast(i, RequestVoteMsg(currentTerm[i] + 1, i,
                                                      log[i]))
              \/ /\ UNCHANGED <<termVars, votesReceived>>
                 /\ \/ DOMAIN out = {}
                    \/ /\ role[i] = "Leader"
                       /\ nextIndex[i] \in [Nodes -> Nat \ {0}]
                       /\ out = AppendEntriesToAll(i, log[i], nextIndex[i])
<1>1. PICK i \in Nodes : \/ Heartbeat(i)
                         \/ TickLeader(i)
                         \/ TickFollower(i)
                         \/ StartElection(i)
  BY DEF Tick
<1>2. /\ TypeOK
      /\ NetTypeOK
      /\ log[i] \in Seq(LogEntry)
      /\ commitIndex[i] \in Nat
      /\ currentTerm[i] \in Terms
      /\ nextIndex[i] \in [Nodes -> Nat \ {0}]
  BY TypeParts DEF TypeOK, TypeInv
<1>3. /\ i = ticking
      /\ ticking' = (i + 1) % N
      /\ UNCHANGED log
  BY <1>1
     DEF Heartbeat, TickLeader, TickFollower, StartElection, TickTurn, logVars
<1>4. CASE Heartbeat(i)
  <2> DEFINE out == AppendEntriesToAll(i, log[i], nextIndex[i])
  <2>1. /\ pending' = pending \o out
        /\ inflight' = inflight
        /\ role[i] = "Leader"
        /\ UNCHANGED <<termVars, votesReceived>>
    BY <1>4 DEF Heartbeat, TickTurn, Enqueue
  <2>2. out \in Seq(EnvelopeType)
    BY <1>2, SendType
  <2>3. \A k \in DOMAIN out : /\ out[k].from = i
                              /\ out[k].msg.type = "AppendEntries"
    BY NoPapers
  <2> HIDE DEF out
  <2>4. QueueStep(0, out)
    BY <1>2, <2>1, <2>2, QueueSteps
  <2> QED
    BY <1>2, <1>3, <2>1, <2>3, <2>4 DEF out
<1>5. CASE TickLeader(i) \/ TickFollower(i)
  <2>1. /\ pending' = pending \o <<>>
        /\ inflight' = inflight
        /\ UNCHANGED <<termVars, votesReceived>>
    BY <1>5 DEF TickLeader, TickFollower, TickTurn, Enqueue
  <2>2. pending' = pending
    BY <1>2, <2>1, ConcatEmptySeq DEF NetTypeOK
  <2>3. QueueStep(0, <<>>)
    BY <1>2, <2>1, <2>2, SilentQueue
  <2>4. DOMAIN <<>> = {}
    OBVIOUS
  <2> QED
    BY <1>3, <2>1, <2>3, <2>4
<1>6. CASE StartElection(i)
  <2> DEFINE m == RequestVoteMsg(currentTerm[i] + 1, i, log[i])
             out == Broadcast(i, m)
  <2>1. pending' = pending \o out /\ inflight' = inflight
    BY <1>6 DEF StartElection, TickTurn, Enqueue
  <2>2. \A k \in DOMAIN out : out[k].from = i /\ out[k].msg = m
    BY DEF Broadcast, Envelope
  <2>3. m.type = "RequestVote"
    BY DEF RequestVoteMsg
  <2>4. currentTerm[i] + 1 \in Terms
    <3>1. i = ticking /\ role[i] # "Leader" /\ electionTicksRemaining[i] = 0
      BY <1>6 DEF StartElection, TickTurn
    <3>2. currentTerm[i] < MaxTerm
      BY <3>1, TickRoom, SizeAssumption DEF Nodes
    <3> QED
      BY <1>2, <3>2, RaftAssumption DEF Terms
  <2>5. out \in Seq(EnvelopeType)
    BY <1>2, <2>4, MessageTypes, SendType
  <2> HIDE DEF out, m
  <2>6. QueueStep(0, out)
    BY <1>2, <2>1, <2>5, QueueSteps
  <2> QED
    BY <1>3, <1>6, <2>2, <2>3, <2>6 DEF IsRequest, out, m
<1> QED
  BY <1>1, <1>4, <1>5, <1>6

\* No step but a turn of the tick happens while one runs.
LEMMA OnlyTicks ==
  ASSUME TypeInv, [Next]_vars, ticking # 0
  PROVE  Tick \/ UNCHANGED vars
<1>1. inflight = <<>>
  BY DEF TypeInv, TickBounded
<1>2. ~BeginStep /\ ~LoseMessage /\ ~DeliverMessage /\ ~ChangeFaults
  BY <1>1
     DEF BeginStep, StartStep, Idle, LoseMessage, Lose, DeliverMessage,
         Deliverable, ChangeFaults, SetFaults
<1>3. \A p \in Payloads : ~ProposeAccepted(p) /\ ~ProposeRejected(p)
  BY DEF ProposeAccepted, ProposeRejected, Idle
<1> QED
  BY <1>2, <1>3 DEF Next

LEMMA TickQueueStep ==
  ASSUME TypeInv, TickQueue, MaxPending = 0, [Next]_vars
  PROVE  TickQueue'
<1>1. CASE Tick
  <2>1. PICK i, out :
          /\ i \in Nodes
          /\ i = ticking
          /\ ticking' = (i + 1) % N
          /\ QueueStep(0, out)
          /\ \A k \in DOMAIN out :
               /\ out[k].from = i
               /\ out[k].msg.type \in {"RequestVote", "AppendEntries"}
    BY <1>1, TickSends
  <2> SUFFICES ASSUME ticking' # 0, NEW k \in DOMAIN Queue'
               PROVE  /\ Queue'[k].from < ticking'
                      /\ Queue'[k].msg.type \in {"RequestVote", "AppendEntries"}
    BY DEF TickQueue
  <2>2. ticking' = i + 1 /\ i \in Nat
    BY <2>1, NextTurn DEF Nodes
  <2>3. CASE k + 0 \in DOMAIN Queue /\ Queue'[k] = Queue[k + 0]
    <3>1. /\ Queue[k + 0].from < ticking
          /\ Queue[k + 0].msg.type \in {"RequestVote", "AppendEntries"}
      BY <1>1, <2>3, TickFinds
    <3>2. Queue[k + 0] \in EnvelopeType
      <4>1. Queue \in Seq(EnvelopeType) /\ DOMAIN Queue = 1 .. Len(Queue)
        BY <2>1 DEF QueueStep
      <4> QED
        BY <2>3, <4>1
    <3>3. Queue[k + 0].from \in Nat
      BY <3>2 DEF EnvelopeType, Nodes
    <3> QED
      BY <2>1, <2>2, <2>3, <3>1, <3>3
  <2>4. CASE /\ k - (Len(Queue) - 0) \in DOMAIN out
             /\ Queue'[k] = out[k - (Len(Queue) - 0)]
    BY <2>1, <2>2, <2>4
  <2> QED
    BY <2>1, <2>3, <2>4, QueueOrigins
<1>2. CASE UNCHANGED vars
  BY <1>2 DEF vars, clusterVars, TickQueue, Queue
<1>3. CASE ~Tick /\ ~UNCHANGED vars
  <2>1. ticking = 0 /\ Next
    BY <1>3, OnlyTicks
  <2>2. ASSUME DeliverMessage PROVE ticking' = ticking
    <3>1. PICK e : HandleMessage(e)
      BY <2>2 DEF DeliverMessage
    <3> QED
      BY <3>1, HandlersConsume DEF Consume
  <2>3. ticking' = ticking
    BY <1>3, <2>1, <2>2
       DEF Next, BeginStep, StartStep, LoseMessage, Lose, ChangeFaults,
           SetFaults, ProposeAccepted, ProposeRejected, clusterVars
  <2> QED
    BY <2>1, <2>3 DEF TickQueue
<1> QED
  BY <1>1, <1>2, <1>3

-----------------------------------------------------------------------------
(* One leader in a term *)

\* Node i wins an election: the history notes it as the winner of its term.
Wins(h, g) ==
    \E e : /\ Delivers(e)
           /\ WinElection(e)
           /\ h.elected[currentTerm[e.to]] = None
           /\ g.elected = [h.elected EXCEPT ![currentTerm[e.to]] = e.to]

LEMMA ElectionStep ==
  ASSUME TypeInv, TypeOK', NetElectionInv, MaxPending = 0, [Next]_vars,
         NEW h \in Histories, ElectionInv(h)
  PROVE  /\ NetElectionInv'
         /\ \E g \in Histories :
              /\ ElectionInv(g)'
              /\ VotesCast(h, g)
              /\ g.glog = h.glog
              /\ g.elected = h.elected \/ Wins(h, g)
<1> USE DEF NetElectionInv
<1>1. TypeOK /\ NetTypeOK
  BY TypeParts DEF TypeInv
<1>2. TickQueue'
  BY TickQueueStep
<1>3. ASSUME Votes,
             \/ Queue' = Queue
             \/ \E d, out : /\ QueueStep(d, out)
                            /\ \A k \in DOMAIN out :
                                 /\ ~IsRequest(out[k])
                                 /\ \A c, v : ~About(out[k], c, v)
      PROVE  /\ RequestsCurrent' /\ OneBallotPaper'
             /\ \E g \in Histories : /\ ElectionInv(g)'
                                     /\ VotesCast(h, g)
                                     /\ g.glog = h.glog
                                     /\ g.elected = h.elected
  <2>1. RequestsCurrent' /\ OneBallotPaper' /\ ElectionInv(h)'
    BY <1>1, <1>3, OtherElection
  <2>2. VotesCast(h, h)
    BY DEF VotesCast
  <2> QED
    BY <2>1, <2>2
<1>4. ASSUME UNCHANGED <<termVars, votesReceived>>
      PROVE  Votes
  BY <1>4 DEF Votes, Settles, termVars
<1>5. ASSUME NEW p \in Payloads, ProposeAccepted(p)
      PROVE  /\ RequestsCurrent' /\ OneBallotPaper'
             /\ \E g \in Histories : /\ ElectionInv(g)'
                                     /\ VotesCast(h, g)
                                     /\ g.glog = h.glog
                                     /\ g.elected = h.elected
  <2>1. PICK i \in Nodes :
          /\ UNCHANGED <<termVars, votesReceived>>
          /\ QueueStep(0, AppendEntriesToAll(i, Proposal(i, p), nextIndex[i]))
    BY <1>1, <1>5, ProposeQueue
  <2> DEFINE out == AppendEntriesToAll(i, Proposal(i, p), nextIndex[i])
  <2>2. \A k \in DOMAIN out : /\ ~IsRequest(out[k])
                              /\ \A c, v : ~About(out[k], c, v)
    BY NoPapers
  <2>3. QueueStep(0, out)
    BY <2>1
  <2> HIDE DEF out
  <2> QED
    BY <1>3, <1>4, <2>1, <2>2, <2>3
<1>6. CASE BeginStep \/ UNCHANGED vars \/ ChangeFaults
           \/ \E p \in Payloads : ProposeRejected(p)
  <2>1. Queue' = Queue
    <3>1. BeginStep => Queue' = Queue
      BY <1>1, SilentQueue DEF BeginStep
    <3>2. ~BeginStep => UNCHANGED netVars
      BY <1>6
         DEF vars, clusterVars, netVars, ChangeFaults, SetFaults,
             ProposeRejected
    <3> QED
      BY <1>1, <3>1, <3>2, SilentQueue
  <2>2. UNCHANGED <<termVars, votesReceived>>
    BY <1>6
       DEF BeginStep, vars, nodeVars, ChangeFaults, ProposeRejected
  <2> QED
    BY <1>2, <1>3, <1>4, <2>1, <2>2
<1>7. CASE LoseMessage
  <2>1. /\ pending' = pending
        /\ inflight # <<>>
        /\ inflight' = Tail(inflight)
        /\ UNCHANGED <<termVars, votesReceived>>
    BY <1>7 DEF LoseMessage, Lose, nodeVars
  <2>2. QueueStep(1, <<>>)
    BY <1>1, <2>1, SilentQueue
  <2>3. \A k \in DOMAIN <<>> : FALSE
    OBVIOUS
  <2> QED
    BY <1>2, <1>3, <1>4, <2>1, <2>2, <2>3
<1>8. CASE DeliverMessage
  <2>1. PICK e : Delivers(e) /\ HandleMessage(e)
    BY <1>1, <1>8, DeliveredSame
  <2>2. CASE HandleRequestVote(e)
    BY <1>1, <1>2, <2>1, <2>2, RequestVoteElection
  <2>3. CASE CountVote(e)
    BY <1>1, <1>2, <2>1, <2>3, CountVoteElection
  <2>4. CASE WinElection(e)
    <3>1. /\ RequestsCurrent'
          /\ OneBallotPaper'
          /\ h.elected[currentTerm[e.to]] = None
      BY <1>1, <2>1, <2>4, WinElectionElection
    <3>2. PICK g \in Histories :
            /\ ElectionInv(g)'
            /\ VotesCast(h, g)
            /\ g.elected = [h.elected EXCEPT ![currentTerm[e.to]] = e.to]
            /\ g.glog = h.glog
      BY <1>1, <2>1, <2>4, WinElectionElection
    <3>3. Wins(h, g)
      BY <2>1, <2>4, <3>1, <3>2 DEF Wins
    <3> QED
      BY <1>2, <3>1, <3>2, <3>3
  <2>5. CASE \/ StepDown(e) \/ RejectOldLeader(e) \/ RefuseGap(e)
             \/ RefuseConflict(e) \/ Replicate(e) \/ NoteReplicated(e)
             \/ BackUp(e) \/ Discard(e)
    <3>1. /\ Votes
          /\ \E out : /\ QueueStep(1, out)
                      /\ \A k \in DOMAIN out :
                           /\ ~IsRequest(out[k])
                           /\ \A c, v : ~About(out[k], c, v)
      BY <1>1, <2>1, <2>5, OtherMessages
    <3> QED
      BY <1>2, <1>3, <3>1
  <2> QED
    BY <2>1, <2>2, <2>3, <2>4, <2>5 DEF HandleMessage
<1>9. CASE Tick
  <2>1. PICK i, out :
          /\ i \in Nodes
          /\ QueueStep(0, out)
          /\ \/ StartElection(i)
             \/ /\ UNCHANGED <<termVars, votesReceived>>
                /\ \/ DOMAIN out = {}
                   \/ out = AppendEntriesToAll(i, log[i], nextIndex[i])
    BY <1>9, TickSends
  <2>2. CASE StartElection(i)
    BY <1>2, <1>9, <2>1, <2>2, StartElectionElection
  <2>3. CASE /\ UNCHANGED <<termVars, votesReceived>>
             /\ \/ DOMAIN out = {}
                \/ out = AppendEntriesToAll(i, log[i], nextIndex[i])
    <3>1. \A k \in DOMAIN out : /\ ~IsRequest(out[k])
                                /\ \A c, v : ~About(out[k], c, v)
      BY <2>3, NoPapers
    <3> QED
      BY <1>2, <1>3, <1>4, <2>1, <2>3, <3>1
  <2> QED
    BY <2>1, <2>2, <2>3
<1> QED
  BY <1>2, <1>5, <1>6, <1>7, <1>8, <1>9 DEF Next

\* At the start nobody has voted.
LEMMA ElectionInit ==
  ASSUME Init, ~Forced
  PROVE  /\ NetElectionInv
         /\ \E h \in Histories :
              /\ ElectionInv(h)
              /\ h.elected = [t \in Terms |-> None]
              /\ h.glog = [t \in Terms |-> <<>>]
<1> DEFINE h == [ballot |-> [n \in Nodes |-> [t \in Terms |-> None]],
                 counted |-> [n \in Nodes |-> {}],
                 elected |-> [t \in Terms |-> None],
                 glog |-> [t \in Terms |-> <<>>]]
<1>1. h \in Histories
  <2>1. <<>> \in Seq(LogEntry)
    BY EmptySeq
  <2> QED
    BY <2>1 DEF Histories
<1>2. /\ h.ballot = [n \in Nodes |-> [t \in Terms |-> None]]
      /\ h.counted = [n \in Nodes |-> {}]
      /\ h.elected = [t \in Terms |-> None]
      /\ h.glog = [t \in Terms |-> <<>>]
  OBVIOUS
<1> HIDE DEF h
<1>3. DOMAIN Queue = {} /\ ticking = 0
  <2>1. Queue = <<>>
    BY ConcatEmptySeq, EmptySeq DEF Init, ClusterInit, Queue
  <2> QED
    BY <2>1 DEF Init, ClusterInit
<1>4. \A n \in Nodes : role[n] = "Follower" /\ currentTerm[n] = 0
  BY DEF Init
<1>5. 0 \in Terms /\ None \notin Nodes
  BY RaftAssumption DEF Terms
<1>6. BallotsKept(h)
  BY <1>2, <1>4, <1>5 DEF BallotsKept
<1>7. ElectedByMajority(h)
  BY <1>2, <1>5 DEF ElectedByMajority
<1>8. CountsRight(h) /\ LeadersElected(h) /\ Uncounted(h)
  BY <1>3, <1>4 DEF CountsRight, LeadersElected, Uncounted
<1>9. NetElectionInv
  BY <1>3 DEF NetElectionInv, TickQueue, RequestsCurrent, OneBallotPaper
<1> QED
  BY <1>1, <1>2, <1>6, <1>7, <1>8, <1>9 DEF ElectionInv

\* Some history explains the state.
Explained ==
    /\ TypeInv
    /\ NetElectionInv
    /\ \E h \in Histories : ElectionInv(h)

\* With elections as the only way to lead (no force_leader) and a driver that
\* completes the queue before every other call, a term has one leader, for
\* every number of nodes, every set of fault configurations and every loss,
\* although the answer to a request does not name the election it belongs to,
\* voted_for is not cleared by every change of term, and a candidate counts
\* whatever granted vote arrives while it stands.
THEOREM OneLeaderPerTerm ==
  ASSUME ~Forced, MaxPending = 0
  PROVE  Spec => []ElectionSafety
<1>1. Init => Explained
  BY InitType, ElectionInit DEF Explained
<1>2. Explained /\ [Next]_vars => Explained'
  <2> SUFFICES ASSUME Explained, [Next]_vars
               PROVE  Explained'
    OBVIOUS
  <2>1. TypeInv'
    BY TypeStep DEF Explained
  <2>2. TypeOK'
    BY <2>1 DEF TypeInv
  <2>3. PICK h \in Histories : ElectionInv(h)
    BY DEF Explained
  <2>4. NetElectionInv' /\ \E g \in Histories : ElectionInv(g)'
    BY <2>2, <2>3, ElectionStep DEF Explained
  <2> QED
    BY <2>1, <2>4 DEF Explained
<1>3. Explained => ElectionSafety
  BY DEF Explained, ElectionInv, LeadersElected, ElectionSafety
<1> QED
  BY <1>1, <1>2, <1>3, PTL DEF Spec
=============================================================================
