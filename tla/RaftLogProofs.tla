--------------------------- MODULE RaftLogProofs ----------------------------
(***************************************************************************)
(* Proofs about the logs of module Raft, when leaders are elected and the  *)
(* driver completes its calls: logs match; in clusters of up to three      *)
(* nodes what is committed stays, leaders hold it, and the nodes hand out  *)
(* one log, as module ReplicatedLog promises.                              *)
(***************************************************************************)
EXTENDS RaftProofs

LOCAL INSTANCE FiniteSetsExt

-----------------------------------------------------------------------------
(***************************************************************************)
(* What elections mean for the logs.  A term has one leader, so there is   *)
(* one log that entries of that term come from, and every log is a copy of *)
(* it up to such an entry.  An equivocating node changes what its messages *)
(* carry, so none may be one.                                              *)
(***************************************************************************)
\* Log l agrees with the leaders of the terms it has entries of: up to an
\* entry of term u it is the log of the leader of u.
Matched(l, h) ==
    \A k \in DOMAIN l :
        /\ k \in DOMAIN h.glog[l[k].term]
        /\ \A n \in 1 .. k : l[n] = h.glog[l[k].term][n]

\* What a message carries is a part of the log of the leader of its term.
Segment(m, h) ==
    m.type = "AppendEntries" =>
        /\ h.elected[m.term] # None
        /\ \A k \in DOMAIN m.entries :
             /\ m.prevLogIndex + k \in DOMAIN h.glog[m.term]
             /\ m.entries[k] = h.glog[m.term][m.prevLogIndex + k]
        /\ m.entries # <<>> /\ m.prevLogIndex > 0 =>
             /\ m.prevLogIndex \in DOMAIN h.glog[m.term]
             /\ m.prevLogTerm = h.glog[m.term][m.prevLogIndex].term

LogsMatched(h) ==
    /\ \A i \in Nodes : Matched(log[i], h)
    /\ \A t \in Terms : Matched(h.glog[t], h)
    /\ \A t \in Terms : h.elected[t] = None => h.glog[t] = <<>>
    /\ \A i \in Nodes : role[i] = "Leader" => h.glog[currentTerm[i]] = log[i]
    /\ \A k \in DOMAIN Queue : Segment(Queue[k].msg, h)

\* History g goes on from h: winners stay, and the leaders' logs grow.
Continues(h, g) ==
    \A t \in Terms :
        /\ h.elected[t] # None => g.elected[t] = h.elected[t]
        /\ \A n \in DOMAIN h.glog[t] :
             n \in DOMAIN g.glog[t] /\ g.glog[t][n] = h.glog[t][n]

\* History g explains the state after a step if h did before: winners stay,
\* the leaders' logs grow, and what is new was done in the step.
Follows(h, g) ==
    /\ Continues(h, g)
    /\ VotesCast(h, g)
    /\ \A t \in Terms : g.glog[t] # h.glog[t] =>
         \E i \in Nodes : role'[i] = "Leader" /\ currentTerm'[i] = t
    /\ \A t \in Terms : g.elected[t] # h.elected[t] =>
         \E e : /\ Delivers(e)
               /\ WinElection(e)
               /\ e.to = g.elected[t]
               /\ currentTerm[e.to] = t

LEMMA MatchedKept ==
  ASSUME NEW h \in Histories, NEW g \in Histories, Continues(h, g),
         NEW l \in Seq(LogEntry), Matched(l, h)
  PROVE  Matched(l, g)
<1> SUFFICES ASSUME NEW k \in DOMAIN l
             PROVE  /\ k \in DOMAIN g.glog[l[k].term]
                    /\ \A n \in 1 .. k : l[n] = g.glog[l[k].term][n]
  BY DEF Matched
<1>1. PICK t \in Terms : t = l[k].term
  BY EntryTerms DEF LogEntry
<1>2. k \in DOMAIN h.glog[t] /\ \A n \in 1 .. k : l[n] = h.glog[t][n]
  BY <1>1 DEF Matched
<1>3. h.glog[t] \in Seq(LogEntry)
  BY HistoryTypes
<1>4. 1 .. k \subseteq DOMAIN h.glog[t]
  BY <1>2, <1>3, EntryTerms
<1> QED
  BY <1>1, <1>2, <1>4 DEF Continues

LEMMA SegmentKept ==
  ASSUME NEW h \in Histories, NEW g \in Histories, Continues(h, g),
         NEW m \in Message, Segment(m, h)
  PROVE  Segment(m, g)
<1> SUFFICES ASSUME m.type = "AppendEntries"
             PROVE  Segment(m, g)
  BY DEF Segment
<1>1. m.term \in Terms
  BY MessageFields
<1>2. /\ h.elected[m.term] # None
      /\ \A k \in DOMAIN m.entries :
           /\ m.prevLogIndex + k \in DOMAIN h.glog[m.term]
           /\ m.entries[k] = h.glog[m.term][m.prevLogIndex + k]
      /\ m.entries # <<>> /\ m.prevLogIndex > 0 =>
           /\ m.prevLogIndex \in DOMAIN h.glog[m.term]
           /\ m.prevLogTerm = h.glog[m.term][m.prevLogIndex].term
  BY DEF Segment
<1> QED
  BY <1>1, <1>2 DEF Segment, Continues

\* A log cut off still matches.
LEMMA CutMatched ==
  ASSUME NEW l \in Seq(LogEntry), NEW h, Matched(l, h),
         NEW n \in Int, n <= Len(l)
  PROVE  Matched(SubSeq(l, 1, n), h)
<1> DEFINE s == SubSeq(l, 1, n)
<1>1. /\ s \in Seq(LogEntry)
      /\ n >= 0 => Len(s) = n
      /\ \A k \in 1 .. n : s[k] = l[k]
  BY PrefixType
<1>2. n < 0 => Len(s) = 0
  BY SubSeqProperties
<1> HIDE DEF s
<1>3. DOMAIN s = 1 .. Len(s) /\ DOMAIN l = 1 .. Len(l) /\ Len(l) \in Nat
  BY <1>1, EntryTerms
<1>4. ASSUME NEW k \in DOMAIN s
      PROVE  /\ k \in DOMAIN h.glog[s[k].term]
             /\ \A j \in 1 .. k : s[j] = h.glog[s[k].term][j]
  <2>1. k \in 1 .. n /\ k \in DOMAIN l
    <3>1. CASE n >= 0
      <4>1. k \in 1 .. n
        BY <1>1, <1>3, <3>1
      <4> QED
        BY <1>3, <4>1
    <3>2. CASE n < 0
      BY <1>2, <1>3, <3>2
    <3> QED
      BY <3>1, <3>2
  <2>2. \A j \in 1 .. k : j \in 1 .. n
    BY <2>1
  <2> QED
    BY <1>1, <2>1, <2>2 DEF Matched
<1> QED
  BY <1>4 DEF Matched, s

\* What a leader builds of its log is a part of it.
LEMMA BuildSegment ==
  ASSUME NEW h, NEW i \in Nodes, NEW l \in Seq(LogEntry),
         NEW next \in Nat \ {0}, NEW commit,
         h.elected[currentTerm[i]] # None, h.glog[currentTerm[i]] = l
  PROVE  Segment(BuildAppendEntries(i, l, next, commit), h)
<1> DEFINE m == BuildAppendEntries(i, l, next, commit)
           es == SubSeq(l, next, Len(l))
           prevTerm == IF next - 1 \in DOMAIN l THEN l[next - 1].term ELSE 0
<1>1. /\ m.entries = es
      /\ m.prevLogIndex = next - 1
      /\ m.prevLogTerm = prevTerm
      /\ m.term = currentTerm[i]
  BY DEF BuildAppendEntries, AppendEntriesMsg
<1>2. Len(l) \in Nat /\ DOMAIN l = 1 .. Len(l)
  BY EntryTerms
<1>3. /\ es \in Seq(LogEntry)
      /\ Len(es) = IF next <= Len(l) THEN Len(l) - next + 1 ELSE 0
      /\ \A k \in 1 .. Len(l) - next + 1 : es[k] = l[next + k - 1]
  BY SuffixType
<1> HIDE DEF m, es
<1>4. DOMAIN es = 1 .. Len(es)
  BY <1>3, EntryTerms
<1>5. ASSUME NEW k \in DOMAIN es
      PROVE  /\ (next - 1) + k \in DOMAIN l
             /\ es[k] = l[(next - 1) + k]
  <2>1. k \in 1 .. Len(l) - next + 1 /\ next + k - 1 \in 1 .. Len(l)
    BY <1>2, <1>3, <1>4
  <2>2. es[k] = l[next + k - 1] /\ next + k - 1 = (next - 1) + k
    BY <1>3, <2>1
  <2> QED
    BY <1>2, <2>1, <2>2
<1>6. ASSUME es # <<>>, next - 1 > 0
      PROVE  next - 1 \in DOMAIN l /\ prevTerm = l[next - 1].term
  <2>1. Len(es) # 0
    BY <1>3, <1>6, EmptySeq
  <2>2. next - 1 \in DOMAIN l
    BY <1>2, <1>3, <1>6, <2>1
  <2> QED
    BY <2>2
<1> HIDE DEF prevTerm
<1> QED
  BY <1>1, <1>5, <1>6 DEF Segment, m

\* An entry put after the first n of a log.
LEMMA PushedEntries ==
  ASSUME NEW l \in Seq(LogEntry), NEW n \in Nat, n <= Len(l),
         NEW entry \in LogEntry
  PROVE  /\ Append(SubSeq(l, 1, n), entry) \in Seq(LogEntry)
         /\ Len(Append(SubSeq(l, 1, n), entry)) = n + 1
         /\ Append(SubSeq(l, 1, n), entry)[n + 1] = entry
         /\ \A k \in 1 .. n : Append(SubSeq(l, 1, n), entry)[k] = l[k]
<1> DEFINE s == SubSeq(l, 1, n)
           h == Append(s, entry)
<1>1. s \in Seq(LogEntry) /\ Len(s) = n /\ \A k \in 1 .. n : s[k] = l[k]
  BY PrefixType
<1> HIDE DEF s
<1>2. /\ h \in Seq(LogEntry)
      /\ Len(h) = n + 1
      /\ \A k \in 1 .. n : h[k] = s[k]
      /\ h[n + 1] = entry
  BY <1>1, AppendProperties
<1> HIDE DEF h
<1> QED
  BY <1>1, <1>2 DEF h, s

\* Two logs that match, with an entry of the same term at the same place,
\* are equal up to it.
LEMMA MatchedAgree ==
  ASSUME NEW h, NEW l, NEW g, Matched(l, h), Matched(g, h),
         NEW k, k \in DOMAIN l, k \in DOMAIN g, l[k].term = g[k].term
  PROVE  \A n \in 1 .. k : l[n] = g[n]
BY DEF Matched

\* A log that consists of the first entries of one that matches does so too.
LEMMA PrefixMatched ==
  ASSUME NEW h, NEW l \in Seq(LogEntry), NEW g \in Seq(LogEntry),
         Matched(g, h), Len(l) <= Len(g),
         \A n \in 1 .. Len(l) : l[n] = g[n]
  PROVE  Matched(l, h)
<1>1. /\ DOMAIN l = 1 .. Len(l)
      /\ DOMAIN g = 1 .. Len(g)
      /\ Len(l) \in Nat
      /\ Len(g) \in Nat
  BY EntryTerms
<1>2. ASSUME NEW k \in DOMAIN l
      PROVE  /\ k \in DOMAIN h.glog[l[k].term]
             /\ \A n \in 1 .. k : l[n] = h.glog[l[k].term][n]
  <2>1. k \in DOMAIN g /\ l[k] = g[k] /\ \A n \in 1 .. k : l[n] = g[n]
    BY <1>1
  <2> QED
    BY <2>1 DEF Matched
<1> QED
  BY <1>2 DEF Matched

\* Two logs are equal up to place n.
Agree(l, g, n) ==
    /\ n <= Len(l)
    /\ n <= Len(g)
    /\ \A k \in 1 .. n : l[k] = g[k]

\* Entries are those of log g after place prev.
SliceOf(entries, prev, g) ==
    \A k \in DOMAIN entries :
        /\ entries[k].index = prev + k
        /\ prev + k \in DOMAIN g
        /\ entries[k] = g[prev + k]

\* Log r is what l became by copying g up to place n.
Copied(r, l, g, n) ==
    /\ r \in Seq(LogEntry)
    /\ Agree(r, g, n)
    /\ r = l \/ Len(r) = n

\* The loop over entries that are those of log g after place prev, up to
\* which the two are equal: the log is left as it is, or becomes the first
\* entries of g.
LEMMA MergedCopies ==
  ASSUME NEW h, NEW l \in Seq(LogEntry), NEW g \in Seq(LogEntry),
         Matched(l, h), Matched(g, h), NEW entries \in Seq(LogEntry),
         NEW prev \in Nat, Agree(l, g, prev), SliceOf(entries, prev, g)
  PROVE  Copied(Merged(l, entries), l, g, prev + Len(entries))
<1>0. /\ prev <= Len(l) /\ prev <= Len(g)
      /\ \A n \in 1 .. prev : l[n] = g[n]
      /\ \A k \in DOMAIN entries :
           /\ entries[k].index = prev + k
           /\ prev + k \in DOMAIN g
           /\ entries[k] = g[prev + k]
  BY DEF Agree, SliceOf
<1>1. Len(entries) \in Nat /\ DOMAIN entries = 1 .. Len(entries)
  BY EntryTerms
<1>2. PICK f : /\ f[0] = l
               /\ \A k \in 1 .. Len(entries) :
                    f[k] = AppendOrReplace(f[k - 1], entries[k])
               /\ Merged(l, entries) = f[Len(entries)]
  BY MergeRun
<1>3. /\ DOMAIN l = 1 .. Len(l)
      /\ DOMAIN g = 1 .. Len(g)
      /\ Len(l) \in Nat
      /\ Len(g) \in Nat
  BY EntryTerms
<1> DEFINE At(k) == /\ f[k] \in Seq(LogEntry)
                    /\ prev + k <= Len(f[k])
                    /\ \A n \in 1 .. prev + k : f[k][n] = g[n]
                    /\ f[k] = l \/ Len(f[k]) = prev + k
           G == {k \in Nat : k <= Len(entries) => At(k)}
<1>4. 0 \in G
  BY <1>0, <1>2
<1>5. ASSUME NEW k \in Nat, k \in G
      PROVE  k + 1 \in G
  <2>1. CASE k + 1 <= Len(entries)
    <3> DEFINE a == f[k]
               b == f[k + 1]
               entry == entries[k + 1]
               n == prev + k
    <3>1. At(k)
      BY <1>1, <1>5, <2>1
    <3>2. /\ a \in Seq(LogEntry)
          /\ n <= Len(a)
          /\ \A j \in 1 .. n : a[j] = g[j]
          /\ a = l \/ Len(a) = n
      BY <3>1
    <3>3. k + 1 \in 1 .. Len(entries) /\ (k + 1) - 1 = k
      BY <1>1, <2>1
    <3>4. b = AppendOrReplace(a, entry)
      BY <1>2, <3>3
    <3>5. /\ entry \in LogEntry
          /\ entry.index = n + 1
          /\ n + 1 \in DOMAIN g
          /\ entry = g[n + 1]
      <4>1. entry \in LogEntry
        BY <3>3, ElementOfSeq
      <4>2. /\ entry.index = prev + (k + 1)
            /\ prev + (k + 1) \in DOMAIN g
            /\ entry = g[prev + (k + 1)]
        BY <1>0, <1>1, <3>3
      <4>3. prev + (k + 1) = n + 1
        OBVIOUS
      <4> HIDE DEF n, entry
      <4> QED
        BY <4>1, <4>2, <4>3
    <3>6. Len(a) \in Nat /\ n \in Nat
      BY <3>2, EntryTerms
    <3> HIDE DEF a, b, entry, At, n
    <3>7. /\ b \in Seq(LogEntry)
          /\ n + 1 <= Len(b)
          /\ \A j \in 1 .. n + 1 : b[j] = g[j]
          /\ b = l \/ Len(b) = n + 1
      <4>1. CASE b = Append(SubSeq(a, 1, n), entry)
        <5>1. /\ b \in Seq(LogEntry)
              /\ Len(b) = n + 1
              /\ b[n + 1] = entry
              /\ \A j \in 1 .. n : b[j] = a[j]
          BY <3>2, <3>5, <3>6, <4>1, PushedEntries
        <5>2. \A j \in 1 .. n + 1 : b[j] = g[j]
          <6> SUFFICES ASSUME NEW j \in 1 .. n + 1
                       PROVE  b[j] = g[j]
            OBVIOUS
          <6>1. j \in 1 .. n \/ j = n + 1
            BY <3>6
          <6> QED
            BY <3>2, <3>5, <5>1, <6>1
        <5> QED
          BY <3>6, <5>1, <5>2
      <4>2. CASE entry.index > Len(a)
        <5>1. n = Len(a)
          BY <3>2, <3>5, <3>6, <4>2
        <5>2. SubSeq(a, 1, n) = a
          BY <3>2, <5>1, SubSeqFull
        <5>3. b = Append(a, entry)
          BY <3>4, <4>2 DEF AppendOrReplace
        <5> QED
          BY <4>1, <5>2, <5>3
      <4>3. CASE ~(entry.index > Len(a)) /\ a[entry.index].term # entry.term
        <5>1. b = Append(SubSeq(a, 1, entry.index - 1), entry)
          BY <3>4, <4>3 DEF AppendOrReplace
        <5>2. entry.index - 1 = n
          BY <3>5, <3>6
        <5> QED
          BY <4>1, <5>1, <5>2
      <4>4. CASE ~(entry.index > Len(a)) /\ a[entry.index].term = entry.term
        <5>1. b = a
          BY <3>4, <4>4 DEF AppendOrReplace
        <5>2. n + 1 <= Len(a)
          BY <3>5, <3>6, <4>4
        <5>3. a = l
          BY <3>2, <3>6, <5>2
        <5>4. n + 1 \in DOMAIN l
          BY <1>3, <3>6, <5>2, <5>3
        <5>5. l[n + 1].term = g[n + 1].term
          BY <3>5, <4>4, <5>3
        <5>6. \A j \in 1 .. n + 1 : l[j] = g[j]
          BY <3>5, <5>4, <5>5, MatchedAgree
        <5> QED
          BY <3>2, <5>1, <5>2, <5>3, <5>6
      <4> QED
        BY <4>2, <4>3, <4>4
    <3>8. At(k + 1)
      <4>1. prev + (k + 1) = n + 1
        BY DEF n
      <4> QED
        BY <3>7, <4>1 DEF At, b
    <3> QED
      BY <3>8
  <2>2. CASE ~(k + 1 <= Len(entries))
    BY <2>2
  <2> QED
    BY <2>1, <2>2
<1>6. Nat \subseteq G
  <2> HIDE DEF G
  <2> QED
    BY <1>4, <1>5, NumberInduction
<1> DEFINE r == Merged(l, entries)
           last == prev + Len(entries)
<1>7. /\ r \in Seq(LogEntry)
      /\ last <= Len(r)
      /\ \A n \in 1 .. last : r[n] = g[n]
      /\ r = l \/ Len(r) = last
  <2>1. At(Len(entries))
    BY <1>1, <1>6
  <2> QED
    BY <1>2, <2>1
<1>8. last <= Len(g)
  <2>1. CASE Len(entries) = 0
    BY <1>0, <2>1
  <2>2. CASE Len(entries) # 0
    <3>1. Len(entries) \in DOMAIN entries
      BY <1>1, <2>2
    <3>2. last \in DOMAIN g
      BY <1>0, <3>1
    <3> QED
      BY <1>3, <3>2
  <2> QED
    BY <2>1, <2>2
<1> QED
  BY <1>7, <1>8 DEF Copied, Agree, r, last

LEMMA MergedMatched ==
  ASSUME NEW h, NEW l \in Seq(LogEntry), NEW g \in Seq(LogEntry),
         Matched(l, h), Matched(g, h), NEW entries \in Seq(LogEntry),
         NEW prev \in Nat, Agree(l, g, prev), SliceOf(entries, prev, g)
  PROVE  Matched(Merged(l, entries), h)
<1> DEFINE r == Merged(l, entries)
           last == prev + Len(entries)
<1>0. Copied(r, l, g, last)
  BY MergedCopies
<1> HIDE DEF r, last
<1>1. /\ r \in Seq(LogEntry)
      /\ last <= Len(g)
      /\ \A n \in 1 .. last : r[n] = g[n]
      /\ r = l \/ Len(r) = last
  BY <1>0 DEF Copied, Agree
<1>2. CASE r = l
  BY <1>2 DEF r
<1>3. CASE Len(r) = last
  <2>1. Matched(r, h)
    BY <1>1, <1>3, PrefixMatched
  <2> QED
    BY <2>1 DEF r
<1> QED
  BY <1>1, <1>2, <1>3

\* A node that never equivocates has its entries delivered as it sent them.
LEMMA TamperedNothing ==
  ASSUME NetTypeOK, NeverEquivocates = Nodes, NEW e \in EnvelopeType
  PROVE  Tampered(e) = e.msg
<1>1. e.from \in Nodes /\ e.msg \in Message
  BY DEF EnvelopeType
<1>2. ~faults.byzantine[e.from].equivocate
  <2>1. CASE faults \in FaultConfigs
    BY <1>1, <2>1 DEF NeverEquivocates
  <2>2. CASE faults = NoFaults
    BY <1>1, <2>2 DEF NoFaults, Honest
  <2> QED
    BY <2>1, <2>2 DEF NetTypeOK
<1>3. Corrupted(e.msg) = e.msg
  BY <1>1 DEF Corrupted, Message
<1> QED
  BY <1>2, <1>3 DEF Tampered

LEMMA DeliveredWhole ==
  ASSUME NetTypeOK, NeverEquivocates = Nodes, DeliverMessage
  PROVE  \E e : Delivers(e) /\ HandleMessage(e) /\ e.msg = Queue[1].msg
<1>1. PICK e : /\ Delivers(e)
               /\ HandleMessage(e)
               /\ e = [Head(inflight) EXCEPT !.msg = Tampered(Head(inflight))]
  BY DeliveredSame
<1>2. inflight # <<>> /\ Queue[1] = Head(inflight)
  BY <1>1 DEF Delivers
<1>3. Head(inflight) \in EnvelopeType
  BY <1>2, HeadTailProperties DEF NetTypeOK
<1>4. Tampered(Head(inflight)) = Head(inflight).msg
  BY <1>3, TamperedNothing
<1>5. e.msg = Tampered(Head(inflight))
  BY <1>1, <1>3 DEF EnvelopeType
<1> QED
  BY <1>1, <1>2, <1>4, <1>5

-----------------------------------------------------------------------------
(* Who sends entries, and who leads *)

\* What a node may send in a step: entries if it leads after the step, from
\* its log as it then is, requests for a vote if it stands, and the report of
\* a message it followed.
Sent(x) ==
    /\ x.from # x.to
         \/ \E e : Delivers(e) /\ x.from = e.to /\ x.to = e.from
    /\ x.msg.type = "AppendEntries" =>
         /\ x.from \in Nodes
         /\ role'[x.from] = "Leader"
         /\ currentTerm'[x.from] = currentTerm[x.from]
         /\ \E next \in Nat \ {0} :
              x.msg = BuildAppendEntries(x.from, log'[x.from], next,
                                         commitIndex[x.from])
    /\ x.msg.type = "RequestVote" =>
         /\ StartElection(x.from)
         /\ x.msg = RequestVoteMsg(currentTerm[x.from] + 1, x.from,
                                   log[x.from])
    /\ x.msg.type = "AppendEntriesResponse" /\ x.msg.success =>
         \E e : /\ Delivers(e)
                /\ e = [Head(inflight) EXCEPT !.msg = Tampered(Head(inflight))]
                /\ Replicate(e)
                /\ x.from = e.to
                /\ x.to = e.from
                /\ x.msg.term = e.msg.term

LEMMA SentToAll ==
  ASSUME NEW i \in Nodes, NEW next \in [Nodes -> Nat \ {0}],
         role'[i] = "Leader", currentTerm'[i] = currentTerm[i]
  PROVE  \A k \in DOMAIN AppendEntriesToAll(i, log'[i], next) :
           Sent(AppendEntriesToAll(i, log'[i], next)[k])
<1> DEFINE out == AppendEntriesToAll(i, log'[i], next)
<1> SUFFICES ASSUME NEW k \in DOMAIN out
             PROVE  Sent(out[k])
  OBVIOUS
<1>1. k \in 1 .. N - 1
  BY DEF AppendEntriesToAll
<1>2. Peer(i, k) \in Nodes \ {i}
  BY <1>1, PeerIsOther
<1>3. next[Peer(i, k)] \in Nat \ {0}
  BY <1>2
<1>4. /\ out[k].from = i
      /\ out[k].to = Peer(i, k)
      /\ out[k].msg = BuildAppendEntries(i, log'[i], next[Peer(i, k)],
                                         commitIndex[i])
  BY <1>1 DEF AppendEntriesToAll, Envelope
<1>5. out[k].msg.type = "AppendEntries"
  BY <1>4 DEF BuildAppendEntries, AppendEntriesMsg
<1> HIDE DEF out
<1> QED
  BY <1>2, <1>3, <1>4, <1>5 DEF Sent

\* What handlers other than WinElection send.
LEMMA RepliesSent ==
  ASSUME TypeOK, NEW e, Delivers(e), HandleMessage(e), ~WinElection(e),
         e = [Head(inflight) EXCEPT !.msg = Tampered(Head(inflight))]
  PROVE  \E out : /\ QueueStep(1, out)
                  /\ \A k \in DOMAIN out : Sent(out[k])
<1> DEFINE i == e.to
           m == e.msg
<1>1. /\ i \in Nodes
      /\ e \in EnvelopeType
      /\ m \in Message
      /\ m.term \in Terms
      /\ currentTerm[i] \in Terms
      /\ log[i] \in Seq(LogEntry)
      /\ Len(log[i]) \in Nat
      /\ commitIndex[i] \in Nat
      /\ NetTypeOK
  <2>1. i \in Nodes /\ e \in EnvelopeType /\ m \in Message
    BY DEF Delivers, EnvelopeType
  <2>2. m.term \in Terms
    BY <2>1, MessageFields
  <2>3. log[i] \in Seq(LogEntry)
    BY <2>1 DEF TypeOK
  <2>4. Len(log[i]) \in Nat
    BY <2>3, LenProperties
  <2>5. currentTerm[i] \in Terms /\ commitIndex[i] \in Nat
    BY <2>1 DEF TypeOK
  <2>6. NetTypeOK
    BY TypeParts
  <2> HIDE DEF i, m
  <2> QED
    BY <2>1, <2>2, <2>3, <2>4, <2>5, <2>6
<1>2. ASSUME NEW r \in Message, Reply(e, r), Sent(Envelope(e.to, e.from, r))
      PROVE  \E out : /\ QueueStep(1, out)
                      /\ \A k \in DOMAIN out : Sent(out[k])
  <2> DEFINE out == <<Envelope(e.to, e.from, r)>>
  <2>1. out \in Seq(EnvelopeType)
    BY <1>1, SendType DEF EnvelopeType
  <2>2. pending' = pending \o out /\ inflight' = Tail(inflight)
    BY <1>2 DEF Reply, Consume, Enqueue
  <2>3. \A k \in DOMAIN out : out[k] = Envelope(e.to, e.from, r)
    OBVIOUS
  <2> HIDE DEF out
  <2>4. QueueStep(1, out)
    BY <1>1, <2>1, <2>2, QueueSteps DEF Delivers
  <2> QED
    BY <1>2, <2>3, <2>4
<1>3. ASSUME Consume(<<>>)
      PROVE  \E out : /\ QueueStep(1, out)
                      /\ \A k \in DOMAIN out : Sent(out[k])
  <2>1. pending' = pending
    BY <1>1, <1>3, ConcatEmptySeq DEF Consume, Enqueue, NetTypeOK
  <2>2. QueueStep(1, <<>>)
    BY <1>1, <2>1, SilentQueue DEF Delivers
  <2>3. \A k \in DOMAIN <<>> : FALSE
    OBVIOUS
  <2> QED
    BY <2>2, <2>3
<1>4. CASE StepDown(e) \/ CountVote(e) \/ NoteReplicated(e) \/ Discard(e)
  <2>1. Consume(<<>>)
    BY <1>4 DEF StepDown, CountVote, NoteReplicated, Discard
  <2> QED
    BY <1>3, <2>1
<1>5. CASE HandleRequestVote(e)
  <2> DEFINE term == IF IsNewer(i, m) THEN m.term ELSE currentTerm[i]
             r == RequestVoteResponseMsg(term, Grants(i, m))
  <2>1. Reply(e, r)
    BY <1>5 DEF HandleRequestVote
  <2>2. term \in Terms
    BY <1>1
  <2>3. Grants(i, m) \in BOOLEAN
    BY DEF Grants
  <2> HIDE DEF term
  <2>4. r \in Message
    BY <2>2, <2>3, MessageTypes
  <2>5. r.type = "RequestVoteResponse"
    BY DEF RequestVoteResponseMsg
  <2> HIDE DEF r
  <2>6. Sent(Envelope(e.to, e.from, r))
    BY <2>5 DEF Sent, Envelope
  <2> QED
    BY <1>2, <2>1, <2>4, <2>6
<1>6. ASSUME NEW t \in Terms, NEW success \in BOOLEAN, NEW match \in Nat,
             success => Replicate(e) /\ t = m.term
      PROVE  /\ AppendEntriesResponseMsg(t, success, match) \in Message
             /\ Sent(Envelope(e.to, e.from,
                              AppendEntriesResponseMsg(t, success, match)))
  <2> DEFINE r == AppendEntriesResponseMsg(t, success, match)
             x == Envelope(e.to, e.from, r)
  <2>1. r.type = "AppendEntriesResponse" /\ r.success = success /\ r.term = t
    BY DEF AppendEntriesResponseMsg
  <2>2. r \in Message
    BY MessageTypes
  <2> HIDE DEF r
  <2>3. x.from = e.to /\ x.to = e.from /\ x.msg = r
    BY DEF Envelope
  <2> HIDE DEF x
  <2>4. Sent(x)
    BY <1>6, <2>1, <2>3 DEF Sent
  <2> QED
    BY <2>2, <2>4 DEF r, x
<1>7. CASE RejectOldLeader(e)
  <2>1. Reply(e, AppendEntriesResponseMsg(currentTerm[i], FALSE, 0))
    BY <1>7 DEF RejectOldLeader
  <2> QED
    BY <1>1, <1>2, <1>6, <2>1
<1>8. CASE RefuseGap(e)
  <2>1. Reply(e, AppendEntriesResponseMsg(m.term, FALSE, Len(log[i])))
    BY <1>8 DEF RefuseGap
  <2> QED
    BY <1>1, <1>2, <1>6, <2>1
<1>9. CASE RefuseConflict(e)
  <2>1. /\ Reply(e, AppendEntriesResponseMsg(m.term, FALSE,
                                             m.prevLogIndex - 1))
        /\ m.prevLogIndex \in DOMAIN log[i]
    BY <1>9 DEF RefuseConflict, Conflicts
  <2>2. m.prevLogIndex - 1 \in Nat
    BY <1>1, <2>1, EntryTerms
  <2> QED
    BY <1>1, <1>2, <1>6, <2>1, <2>2
<1>10. CASE Replicate(e)
  <2> DEFINE l == Merged(log[i], m.entries)
  <2>1. Reply(e, AppendEntriesResponseMsg(m.term, TRUE, Len(l)))
    BY <1>10 DEF Replicate
  <2>2. m.type = "AppendEntries"
    BY <1>10 DEF Replicate, FollowLeader
  <2>3. m.entries \in Seq(LogEntry)
    BY <1>1, <2>2, MessageFields
  <2>4. l \in Seq(LogEntry)
    BY <1>1, <2>3, MergedType
  <2> HIDE DEF l
  <2>5. Len(l) \in Nat
    BY <2>4, LenProperties
  <2> QED
    BY <1>1, <1>2, <1>6, <1>10, <2>1, <2>5
<1>11. CASE BackUp(e)
  <2> DEFINE next == IF nextIndex[i][e.from] > 1 THEN nextIndex[i][e.from] - 1
                                                 ELSE 1
             r == BuildAppendEntries(i, log[i], next, commitIndex[i])
  <2>1. next \in Nat \ {0}
    <3>1. e.from \in Nodes
      BY DEF Delivers, EnvelopeType
    <3>2. i \in Nodes /\ nextIndex \in [Nodes -> [Nodes -> Nat \ {0}]]
      BY <1>1 DEF TypeOK
    <3> HIDE DEF i, m
    <3>3. nextIndex[i][e.from] \in Nat \ {0}
      BY <3>1, <3>2
    <3> QED
      BY <3>3
  <2>2. /\ Reply(e, r)
        /\ UNCHANGED <<termVars, log>>
        /\ role[i] = "Leader"
    BY <1>11 DEF BackUp, AcceptsResponse, logVars
  <2> HIDE DEF next
  <2>3. r \in Message
    BY <1>1, <2>1, AppendEntriesType
  <2>4. role'[i] = "Leader" /\ currentTerm'[i] = currentTerm[i]
        /\ log'[i] = log[i]
    BY <2>2 DEF termVars
  <2>5. r.type = "AppendEntries"
    BY DEF BuildAppendEntries, AppendEntriesMsg
  <2>6. Sent(Envelope(e.to, e.from, r))
    <3> DEFINE x == Envelope(e.to, e.from, r)
    <3>1. x.from = i /\ x.to = e.from /\ x.msg = r
      BY DEF Envelope
    <3>2. \E n \in Nat \ {0} :
            r = BuildAppendEntries(i, log'[i], n, commitIndex[i])
      BY <2>1, <2>4
    <3> HIDE DEF x, r
    <3>3. Sent(x)
      BY <1>1, <2>4, <2>5, <3>1, <3>2 DEF Sent
    <3> QED
      BY <3>3 DEF x
  <2> HIDE DEF r
  <2> QED
    BY <1>2, <2>2, <2>3, <2>6
<1> QED
  BY <1>4, <1>5, <1>7, <1>8, <1>9, <1>10, <1>11 DEF HandleMessage

\* What a step adds to the queue.
LEMMA MessagesSent ==
  ASSUME TypeInv, TypeOK', [Next]_vars
  PROVE  \/ Queue' = Queue
         \/ \E d, out : /\ QueueStep(d, out)
                        /\ \A k \in DOMAIN out : Sent(out[k])
<1> DEFINE Sends == \E d, out : /\ QueueStep(d, out)
                                /\ \A k \in DOMAIN out : Sent(out[k])
<1>1. TypeOK /\ NetTypeOK
  BY TypeParts DEF TypeInv
<1>2. ASSUME NEW p \in Payloads, ProposeAccepted(p)
      PROVE  Sends
  <2>1. PICK i \in Nodes :
          /\ role[i] = "Leader"
          /\ UNCHANGED <<termVars, votesReceived>>
          /\ log' = [log EXCEPT ![i] = Proposal(i, p)]
          /\ nextIndex[i] \in [Nodes -> Nat \ {0}]
          /\ QueueStep(0, AppendEntriesToAll(i, Proposal(i, p), nextIndex[i]))
    BY <1>1, <1>2, ProposeQueue
  <2>2. log'[i] = Proposal(i, p)
    BY <1>1, <2>1 DEF TypeOK
  <2>3. role'[i] = "Leader" /\ currentTerm'[i] = currentTerm[i]
    BY <2>1 DEF termVars
  <2> DEFINE out == AppendEntriesToAll(i, log'[i], nextIndex[i])
  <2>4. \A k \in DOMAIN out : Sent(out[k])
    BY <2>1, <2>3, SentToAll
  <2>5. QueueStep(0, out)
    BY <2>1, <2>2
  <2> HIDE DEF out
  <2> QED
    BY <2>4, <2>5
<1>3. CASE BeginStep \/ UNCHANGED vars \/ ChangeFaults
           \/ \E p \in Payloads : ProposeRejected(p)
  <2>1. BeginStep => Queue' = Queue
    BY <1>1, SilentQueue DEF BeginStep
  <2>2. ~BeginStep => UNCHANGED netVars
    BY <1>3
       DEF vars, clusterVars, netVars, ChangeFaults, SetFaults,
           ProposeRejected
  <2> QED
    BY <1>1, <2>1, <2>2, SilentQueue
<1>4. CASE LoseMessage
  <2>1. /\ pending' = pending
        /\ inflight # <<>>
        /\ inflight' = Tail(inflight)
    BY <1>4 DEF LoseMessage, Lose
  <2>2. QueueStep(1, <<>>)
    BY <1>1, <2>1, SilentQueue
  <2>3. \A k \in DOMAIN <<>> : FALSE
    OBVIOUS
  <2> QED
    BY <2>2, <2>3
<1>5. CASE DeliverMessage
  <2>1. PICK e : /\ Delivers(e)
                 /\ HandleMessage(e)
                 /\ e = [Head(inflight) EXCEPT !.msg = Tampered(Head(inflight))]
    BY <1>1, <1>5, DeliveredSame
  <2>2. CASE ~WinElection(e)
    <3>1. \E out : /\ QueueStep(1, out)
                   /\ \A k \in DOMAIN out : Sent(out[k])
      BY <1>1, <2>1, <2>2, RepliesSent
    <3> QED
      BY <3>1
  <2>3. CASE WinElection(e)
    <3>1. PICK next \in [Nodes -> Nat \ {0}] :
            QueueStep(1, AppendEntriesToAll(e.to, log[e.to], next))
      BY <1>1, <2>1, <2>3, WinElectionQueue
    <3>2. e.to \in Nodes
      BY <2>1 DEF Delivers, EnvelopeType
    <3>3. role' = [role EXCEPT ![e.to] = "Leader"] /\ UNCHANGED <<currentTerm, log>>
      BY <2>3 DEF WinElection, logVars
    <3>4. /\ role'[e.to] = "Leader"
          /\ currentTerm'[e.to] = currentTerm[e.to]
          /\ log'[e.to] = log[e.to]
      BY <1>1, <3>2, <3>3 DEF TypeOK
    <3> DEFINE out == AppendEntriesToAll(e.to, log'[e.to], next)
    <3>5. \A k \in DOMAIN out : Sent(out[k])
      BY <3>2, <3>4, SentToAll
    <3>6. QueueStep(1, out)
      BY <3>1, <3>4
    <3> HIDE DEF out
    <3> QED
      BY <3>5, <3>6
  <2> QED
    BY <2>2, <2>3
<1>6. CASE Tick
  <2>1. PICK i, out :
          /\ i \in Nodes
          /\ UNCHANGED log
          /\ QueueStep(0, out)
          /\ \/ /\ StartElection(i)
                /\ out = Broadcast(i, RequestVoteMsg(currentTerm[i] + 1, i,
                                                     log[i]))
             \/ /\ UNCHANGED <<termVars, votesReceived>>
                /\ \/ DOMAIN out = {}
                   \/ /\ role[i] = "Leader"
                      /\ nextIndex[i] \in [Nodes -> Nat \ {0}]
                      /\ out = AppendEntriesToAll(i, log[i], nextIndex[i])
    BY <1>6, TickSends
  <2>2. CASE /\ StartElection(i)
             /\ out = Broadcast(i, RequestVoteMsg(currentTerm[i] + 1, i, log[i]))
    <3> DEFINE m == RequestVoteMsg(currentTerm[i] + 1, i, log[i])
    <3>1. m.type = "RequestVote"
      BY DEF RequestVoteMsg
    <3>2. ASSUME NEW k \in DOMAIN out
          PROVE  out[k].from = i /\ out[k].to # i /\ out[k].msg = m
      <4>1. k \in 1 .. N - 1 /\ out[k] = Envelope(i, Peer(i, k), m)
        BY <2>2, <3>2 DEF Broadcast
      <4>2. Peer(i, k) # i
        BY <2>1, <4>1, PeerIsOther
      <4> QED
        BY <4>1, <4>2 DEF Envelope
    <3>3. ASSUME NEW k \in DOMAIN out
          PROVE  Sent(out[k])
      <4>1. out[k].from = i /\ out[k].to # i /\ out[k].msg = m
        BY <3>2, <3>3
      <4>2. out[k].msg.type = "RequestVote"
        BY <3>1, <4>1
      <4> QED
        BY <2>2, <4>1, <4>2 DEF Sent
    <3> QED
      BY <2>1, <3>3
  <2>3. CASE DOMAIN out = {}
    BY <2>1, <2>3
  <2>4. CASE /\ UNCHANGED <<termVars, votesReceived>>
             /\ role[i] = "Leader"
             /\ nextIndex[i] \in [Nodes -> Nat \ {0}]
             /\ out = AppendEntriesToAll(i, log[i], nextIndex[i])
    <3>1. /\ i \in Nodes
          /\ role'[i] = "Leader"
          /\ currentTerm'[i] = currentTerm[i]
          /\ log'[i] = log[i]
      BY <2>1, <2>4 DEF termVars
    <3>2. \A k \in DOMAIN AppendEntriesToAll(i, log'[i], nextIndex[i]) :
            Sent(AppendEntriesToAll(i, log'[i], nextIndex[i])[k])
      BY <2>4, <3>1, SentToAll
    <3>3. out = AppendEntriesToAll(i, log'[i], nextIndex[i])
      BY <2>4, <3>1
    <3>4. \A k \in DOMAIN out : Sent(out[k])
      BY <3>2, <3>3
    <3> QED
      BY <2>1, <3>4
  <2> QED
    BY <2>1, <2>2, <2>3, <2>4
<1> QED
  BY <1>2, <1>3, <1>4, <1>5, <1>6 DEF Next

\* Who leads after a step led in the same term, or has just been elected.
LEMMA LeadersStep ==
  ASSUME TypeInv, [Next]_vars, NEW i \in Nodes, role'[i] = "Leader"
  PROVE  \/ role[i] = "Leader" /\ currentTerm'[i] = currentTerm[i]
         \/ \E e : Delivers(e) /\ WinElection(e) /\ e.to = i
<1>1. TypeOK /\ NetTypeOK
  BY TypeParts DEF TypeInv
<1>2. CASE UNCHANGED termVars
  BY <1>2 DEF termVars
<1>3. CASE Votes
  BY <1>3 DEF Votes, Settles
<1>4. CASE DeliverMessage
  <2>1. PICK e : Delivers(e) /\ HandleMessage(e)
    BY <1>1, <1>4, DeliveredSame
  <2>2. e.to \in Nodes
    BY <2>1 DEF Delivers, EnvelopeType
  <2>3. CASE HandleRequestVote(e)
    <3> DEFINE newer == IsNewer(e.to, e.msg)
    <3>1. /\ currentTerm' = [currentTerm EXCEPT ![e.to] =
                               IF newer THEN e.msg.term ELSE currentTerm[e.to]]
          /\ role' = [role EXCEPT ![e.to] = IF newer THEN "Follower" ELSE @]
      BY <2>3 DEF HandleRequestVote
    <3> HIDE DEF newer
    <3> QED
      BY <1>1, <2>2, <3>1 DEF TypeOK
  <2>4. CASE CountVote(e)
    BY <1>2, <2>4 DEF CountVote
  <2>5. CASE WinElection(e)
    <3>1. role' = [role EXCEPT ![e.to] = "Leader"] /\ currentTerm' = currentTerm
      BY <2>5 DEF WinElection
    <3>2. e.to # i => role'[i] = role[i]
      BY <1>1, <3>1 DEF TypeOK
    <3> QED
      BY <2>1, <2>5, <3>1, <3>2
  <2>6. CASE \/ StepDown(e) \/ RejectOldLeader(e) \/ RefuseGap(e)
             \/ RefuseConflict(e) \/ Replicate(e) \/ NoteReplicated(e)
             \/ BackUp(e) \/ Discard(e)
    BY <1>1, <1>3, <2>1, <2>6, OtherMessages
  <2> QED
    BY <2>1, <2>3, <2>4, <2>5, <2>6 DEF HandleMessage
<1>5. CASE Tick
  <2>1. PICK j \in Nodes : StartElection(j) \/ UNCHANGED <<termVars, votesReceived>>
    BY <1>5, TickSends
  <2>2. CASE StartElection(j)
    <3>1. /\ role' = [role EXCEPT ![j] = "Candidate"]
          /\ currentTerm' = [currentTerm EXCEPT ![j] = currentTerm[j] + 1]
      BY <2>2 DEF StartElection
    <3>2. i # j
      BY <1>1, <3>1 DEF TypeOK
    <3> QED
      BY <1>1, <3>1, <3>2 DEF TypeOK
  <2> QED
    BY <1>2, <2>1, <2>2
<1>6. CASE \E p \in Payloads : ProposeAccepted(p)
  BY <1>2, <1>6 DEF ProposeAccepted
<1>7. CASE \/ BeginStep \/ UNCHANGED vars \/ ChangeFaults \/ LoseMessage
           \/ \E p \in Payloads : ProposeRejected(p)
  BY <1>2, <1>7
     DEF BeginStep, ChangeFaults, LoseMessage, ProposeRejected, nodeVars, vars
<1> QED
  BY <1>4, <1>5, <1>6, <1>7 DEF Next

-----------------------------------------------------------------------------
(* One log for a term *)

\* The leaders' logs of a history can be replaced: elections do not look at
\* them.
LEMMA OtherLogs ==
  ASSUME NEW h \in Histories, ElectionInv(h)', NEW l \in [Terms -> Seq(LogEntry)]
  PROVE  \E g \in Histories : /\ ElectionInv(g)'
                              /\ g.ballot = h.ballot
                              /\ g.elected = h.elected
                              /\ g.glog = l
<1>1. PICK g \in Histories : /\ g.ballot = h.ballot
                             /\ g.counted = h.counted
                             /\ g.elected = h.elected
                             /\ g.glog = l
  BY SomeHistory
<1>2. /\ BallotsKept(h)'
      /\ CountsRight(h)'
      /\ ElectedByMajority(h)'
      /\ LeadersElected(h)'
      /\ Uncounted(h)'
  BY DEF ElectionInv
<1>3. BallotsKept(g)' /\ LeadersElected(g)'
  BY <1>1, <1>2 DEF BallotsKept, LeadersElected
<1>4. CountsRight(g)'
  BY <1>1, <1>2 DEF CountsRight
<1>5. ElectedByMajority(g)'
  <2>1. \A t \in Terms : \A i \in Nodes :
          {j \in Nodes : g.ballot[j][t] = i} = {j \in Nodes : h.ballot[j][t] = i}
    BY <1>1
  <2> SUFFICES ASSUME NEW t \in Terms, NEW i \in Nodes, g.elected[t] = i
               PROVE  /\ Cardinality({j \in Nodes : g.ballot[j][t] = i})
                           >= Majority
                      /\ currentTerm'[i] >= t
                      /\ currentTerm'[i] = t => role'[i] # "Candidate"
    BY DEF ElectedByMajority
  <2>2. h.elected[t] = i
    BY <1>1
  <2>3. /\ Cardinality({j \in Nodes : h.ballot[j][t] = i}) >= Majority
        /\ currentTerm'[i] >= t
        /\ currentTerm'[i] = t => role'[i] # "Candidate"
    BY <1>2, <2>2 DEF ElectedByMajority
  <2> QED
    BY <2>1, <2>3
<1>6. Uncounted(g)'
  BY <1>1, <1>2 DEF Uncounted
<1>7. ElectionInv(g)'
  BY <1>3, <1>4, <1>5, <1>6 DEF ElectionInv
<1> QED
  BY <1>1, <1>7

\* What is under way carries parts of the leaders' logs, if the logs of those
\* who lead are the ones of the history.
LEMMA MatchStep ==
  ASSUME TypeInv, TypeOK', [Next]_vars,
         NEW h \in Histories, NEW g \in Histories,
         LogsMatched(h), LeadersElected(g)', Continues(h, g),
         \A i \in Nodes : Matched(log'[i], g),
         \A t \in Terms : Matched(g.glog[t], g),
         \A t \in Terms : g.elected[t] = None => g.glog[t] = <<>>,
         \A i \in Nodes : role'[i] = "Leader" => g.glog[currentTerm'[i]] = log'[i]
  PROVE  LogsMatched(g)'
<1>1. \A k \in DOMAIN Queue : Queue[k].msg \in Message /\ Segment(Queue[k].msg, g)
  <2>1. Queue \in Seq(EnvelopeType)
    BY ConcatProperties DEF TypeInv, TypeOK, Queue
  <2>2. \A k \in DOMAIN Queue : Queue[k] \in EnvelopeType
    BY <2>1, ElementOfSeq, LenProperties
  <2>3. \A k \in DOMAIN Queue : Queue[k].msg \in Message
    BY <2>2 DEF EnvelopeType
  <2> QED
    BY <2>3, SegmentKept DEF LogsMatched
<1>2. ASSUME NEW x, Sent(x)
      PROVE  Segment(x.msg, g)
  <2> SUFFICES ASSUME x.msg.type = "AppendEntries" PROVE Segment(x.msg, g)
    BY DEF Segment
  <2>1. PICK i \in Nodes : /\ i = x.from
                           /\ role'[i] = "Leader"
                           /\ currentTerm'[i] = currentTerm[i]
    BY <1>2 DEF Sent
  <2>2. PICK next \in Nat \ {0} :
          x.msg = BuildAppendEntries(i, log'[i], next, commitIndex[i])
    BY <1>2, <2>1 DEF Sent
  <2>3. log'[i] \in Seq(LogEntry)
    BY DEF TypeOK
  <2>4. g.glog[currentTerm[i]] = log'[i]
    BY <2>1
  <2>5. g.elected[currentTerm[i]] # None
    BY <2>1, RaftAssumption DEF LeadersElected
  <2> QED
    BY <2>1, <2>2, <2>3, <2>4, <2>5, BuildSegment
<1>3. \A k \in DOMAIN Queue' : Segment(Queue'[k].msg, g)
  <2>1. CASE Queue' = Queue
    BY <1>1, <2>1
  <2>2. CASE \E d, out : /\ QueueStep(d, out)
                         /\ \A k \in DOMAIN out : Sent(out[k])
    <3>1. PICK d, out : /\ QueueStep(d, out)
                        /\ \A k \in DOMAIN out : Sent(out[k])
      BY <2>2
    <3>2. \A k \in DOMAIN out : Segment(out[k].msg, g)
      BY <1>2, <3>1
    <3>3. \A k \in DOMAIN Queue' :
            \/ k + d \in DOMAIN Queue /\ Queue'[k] = Queue[k + d]
            \/ /\ k - (Len(Queue) - d) \in DOMAIN out
               /\ Queue'[k] = out[k - (Len(Queue) - d)]
      BY <3>1, QueueOrigins
    <3> QED
      BY <1>1, <3>2, <3>3
  <2> QED
    BY <2>1, <2>2, MessagesSent
<1> QED
  BY <1>3 DEF LogsMatched

\* Nobody wins an election unnoticed.
LEMMA WinnerNoted ==
  ASSUME TypeInv, TypeOK', NetElectionInv, NEW h \in Histories, ElectionInv(h),
         NEW g \in Histories, LeadersElected(g)', g.elected = h.elected,
         NEW e, Delivers(e), WinElection(e)
  PROVE  FALSE
<1>1. TypeOK
  BY DEF TypeInv
<1>2. e.to \in Nodes
  BY DEF Delivers, EnvelopeType
<1>3. role' = [role EXCEPT ![e.to] = "Leader"] /\ currentTerm' = currentTerm
  BY DEF WinElection
<1>4. role'[e.to] = "Leader"
  BY <1>1, <1>2, <1>3 DEF TypeOK
<1>5. g.elected[currentTerm[e.to]] = e.to
  BY <1>2, <1>3, <1>4 DEF LeadersElected
<1>6. h.elected[currentTerm[e.to]] = None
  BY <1>1, WinElectionElection DEF NetElectionInv
<1> QED
  BY <1>2, <1>5, <1>6, RaftAssumption

\* A step that elects nobody and adds to no leader's log.
LEMMA SameLogsStep ==
  ASSUME TypeInv, TypeOK', NetElectionInv, [Next]_vars,
         NEW h \in Histories, ElectionInv(h), LogsMatched(h),
         NEW g \in Histories, LeadersElected(g)',
         g.elected = h.elected, g.glog = h.glog,
         \A i \in Nodes : Matched(log'[i], h),
         \A i \in Nodes : role'[i] = "Leader" => log'[i] = log[i]
  PROVE  LogsMatched(g)'
<1>1. Continues(h, g)
  BY DEF Continues
<1>2. \A l : Matched(l, g) <=> Matched(l, h)
  BY DEF Matched
<1>3. ASSUME NEW i \in Nodes, role'[i] = "Leader"
      PROVE  g.glog[currentTerm'[i]] = log'[i]
  <2>1. role[i] = "Leader" /\ currentTerm'[i] = currentTerm[i]
    BY <1>3, LeadersStep, WinnerNoted
  <2> QED
    BY <1>3, <2>1 DEF LogsMatched
<1>4. /\ \A t \in Terms : Matched(h.glog[t], h)
      /\ \A t \in Terms : h.elected[t] = None => h.glog[t] = <<>>
  BY DEF LogsMatched
<1> QED
  BY <1>1, <1>2, <1>3, <1>4, MatchStep

\* A new leader: its log becomes that of its term.
LEMMA WinnerStep ==
  ASSUME TypeInv, TypeOK', [Next]_vars,
         NEW h \in Histories, ElectionInv(h), LogsMatched(h),
         NEW f \in Histories, ElectionInv(f)', VotesCast(h, f),
         f.glog = h.glog, Wins(h, f)
  PROVE  \E g \in Histories :
           ElectionInv(g)' /\ LogsMatched(g)' /\ Follows(h, g)
<1>1. TypeOK
  BY DEF TypeInv
<1>2. PICK e : /\ Delivers(e)
               /\ WinElection(e)
               /\ h.elected[currentTerm[e.to]] = None
               /\ f.elected = [h.elected EXCEPT ![currentTerm[e.to]] = e.to]
  BY DEF Wins
<1>3. PICK i \in Nodes : i = e.to
  BY <1>2 DEF Delivers, EnvelopeType
<1>4. PICK t \in Terms : t = currentTerm[i]
  BY <1>1 DEF TypeOK
<1>5. /\ UNCHANGED <<currentTerm, log>>
      /\ role' = [role EXCEPT ![i] = "Leader"]
  BY <1>2, <1>3 DEF WinElection, logVars
<1>6. /\ h.elected \in [Terms -> Nodes \cup {None}]
      /\ h.glog \in [Terms -> Seq(LogEntry)]
      /\ log[i] \in Seq(LogEntry)
  BY <1>1, HistoryTypes DEF TypeOK
<1>7. PICK l \in [Terms -> Seq(LogEntry)] : l = [h.glog EXCEPT ![t] = log[i]]
  BY <1>6
<1>8. PICK g \in Histories : /\ ElectionInv(g)'
                             /\ g.ballot = f.ballot
                             /\ g.elected = f.elected
                             /\ g.glog = l
  BY OtherLogs
<1>9. /\ h.elected[t] = None
      /\ h.glog[t] = <<>>
      /\ g.elected[t] = i
      /\ g.glog[t] = log[i]
      /\ \A u \in Terms \ {t} : /\ g.elected[u] = h.elected[u]
                                /\ g.glog[u] = h.glog[u]
  <2>1. h.elected[t] = None
    BY <1>2, <1>3, <1>4
  <2>2. h.glog[t] = <<>>
    BY <2>1 DEF LogsMatched
  <2>3. g.elected = [h.elected EXCEPT ![t] = i]
    BY <1>2, <1>3, <1>4, <1>8
  <2> QED
    BY <1>6, <1>7, <1>8, <2>1, <2>2, <2>3
<1>10. Continues(h, g)
  <2> SUFFICES ASSUME NEW u \in Terms
               PROVE  /\ h.elected[u] # None => g.elected[u] = h.elected[u]
                      /\ \A n \in DOMAIN h.glog[u] :
                           n \in DOMAIN g.glog[u] /\ g.glog[u][n] = h.glog[u][n]
    BY DEF Continues
  <2>1. CASE u = t
    BY <1>9, <2>1
  <2>2. CASE u # t
    BY <1>9, <2>2
  <2> QED
    BY <2>1, <2>2
<1>11. \A j \in Nodes : Matched(log'[j], g)
  <2>1. \A j \in Nodes : log'[j] \in Seq(LogEntry) /\ Matched(log'[j], h)
    BY <1>1, <1>5 DEF TypeOK, LogsMatched
  <2> QED
    BY <1>10, <2>1, MatchedKept
<1>12. \A u \in Terms : Matched(g.glog[u], g)
  <2>1. \A u \in Terms : Matched(h.glog[u], g)
    BY <1>6, <1>10, MatchedKept DEF LogsMatched
  <2>2. Matched(log[i], g)
    BY <1>6, <1>10, MatchedKept DEF LogsMatched
  <2> QED
    BY <1>9, <2>1, <2>2
<1>13. \A u \in Terms : g.elected[u] = None => g.glog[u] = <<>>
  <2>1. \A u \in Terms : h.elected[u] = None => h.glog[u] = <<>>
    BY DEF LogsMatched
  <2>2. i # None
    BY RaftAssumption
  <2> QED
    BY <1>9, <2>1, <2>2
<1>14. ASSUME NEW j \in Nodes, role'[j] = "Leader"
       PROVE  g.glog[currentTerm'[j]] = log'[j]
  <2>1. CASE j = i
    BY <1>4, <1>5, <1>9, <2>1
  <2>2. CASE j # i
    <3>1. role[j] = "Leader"
      BY <1>1, <1>5, <1>14, <2>2 DEF TypeOK
    <3>2. h.elected[currentTerm[j]] = j /\ h.glog[currentTerm[j]] = log[j]
      BY <3>1 DEF ElectionInv, LeadersElected, LogsMatched
    <3>3. currentTerm[j] \in Terms \ {t}
      BY <1>1, <1>9, <3>2, RaftAssumption DEF TypeOK
    <3> QED
      BY <1>5, <1>9, <3>2, <3>3
  <2> QED
    BY <2>1, <2>2
<1>15. LeadersElected(g)'
  BY <1>8 DEF ElectionInv
<1>16. LogsMatched(g)'
  BY <1>10, <1>11, <1>12, <1>13, <1>14, <1>15, MatchStep
<1>17. Follows(h, g)
  <2>1. VotesCast(h, g)
    BY <1>8 DEF VotesCast
  <2>2. role'[i] = "Leader" /\ currentTerm'[i] = t
    BY <1>1, <1>4, <1>5 DEF TypeOK
  <2>3. e.to = i /\ currentTerm[e.to] = t
    BY <1>3, <1>4
  <2> QED
    BY <1>2, <1>9, <1>10, <2>1, <2>2, <2>3 DEF Follows
<1> QED
  BY <1>8, <1>16, <1>17

\* A proposal: the log of the leader and that of its term grow alike.
LEMMA ProposalStep ==
  ASSUME TypeInv, TypeOK', [Next]_vars,
         NEW h \in Histories, ElectionInv(h), LogsMatched(h),
         NEW f \in Histories, ElectionInv(f)', VotesCast(h, f),
         f.glog = h.glog, f.elected = h.elected,
         NEW i \in Nodes, role[i] = "Leader", UNCHANGED <<currentTerm, role>>,
         NEW p \in Payloads, log' = [log EXCEPT ![i] = Proposal(i, p)]
  PROVE  \E g \in Histories :
           ElectionInv(g)' /\ LogsMatched(g)' /\ Follows(h, g)
<1>1. TypeOK
  BY DEF TypeInv
<1>2. PICK t \in Terms : t = currentTerm[i]
  BY <1>1 DEF TypeOK
<1>3. /\ h.elected \in [Terms -> Nodes \cup {None}]
      /\ h.glog \in [Terms -> Seq(LogEntry)]
      /\ log[i] \in Seq(LogEntry)
  BY <1>1, HistoryTypes DEF TypeOK
<1>4. PICK new \in Seq(LogEntry) : new = Proposal(i, p)
  BY <1>1, ProposalAppends
<1>5. /\ Len(log[i]) \in Nat
      /\ DOMAIN log[i] = 1 .. Len(log[i])
      /\ DOMAIN new = 1 .. Len(log[i]) + 1
      /\ \A k \in 1 .. Len(log[i]) : new[k] = log[i][k]
      /\ new[Len(log[i]) + 1].term = t
  <2>1. /\ Len(log[i]) \in Nat
        /\ Len(new) = Len(log[i]) + 1
        /\ \A k \in 1 .. Len(log[i]) : new[k] = log[i][k]
        /\ new[Len(log[i]) + 1] =
             [term |-> currentTerm[i], index |-> Len(log[i]) + 1,
              payload |-> <<p, 0>>]
    BY <1>1, <1>4, ProposalAppends
  <2>2. DOMAIN log[i] = 1 .. Len(log[i]) /\ DOMAIN new = 1 .. Len(new)
    BY <1>3, EntryTerms
  <2>3. new[Len(log[i]) + 1].term = t
    BY <1>2, <2>1
  <2> QED
    BY <2>1, <2>2, <2>3
<1>6. PICK l \in [Terms -> Seq(LogEntry)] : l = [h.glog EXCEPT ![t] = new]
  BY <1>3
<1>7. PICK g \in Histories : /\ ElectionInv(g)'
                             /\ g.ballot = f.ballot
                             /\ g.elected = f.elected
                             /\ g.glog = l
  BY OtherLogs
<1>8. /\ h.elected[t] = i
      /\ h.glog[t] = log[i]
      /\ g.elected = h.elected
      /\ g.glog[t] = new
      /\ \A u \in Terms \ {t} : g.glog[u] = h.glog[u]
  <2>1. h.elected[t] = i /\ h.glog[t] = log[i]
    BY <1>2 DEF ElectionInv, LeadersElected, LogsMatched
  <2> QED
    BY <1>3, <1>6, <1>7, <2>1
<1>9. Continues(h, g)
  <2> SUFFICES ASSUME NEW u \in Terms, NEW n \in DOMAIN h.glog[u]
               PROVE  n \in DOMAIN g.glog[u] /\ g.glog[u][n] = h.glog[u][n]
    BY <1>8 DEF Continues
  <2>1. CASE u = t
    <3>1. n \in 1 .. Len(log[i])
      BY <1>5, <1>8, <2>1
    <3>2. n \in 1 .. Len(log[i]) + 1
      BY <1>5, <3>1
    <3> QED
      BY <1>5, <1>8, <2>1, <3>1, <3>2
  <2>2. CASE u # t
    BY <1>8, <2>2
  <2> QED
    BY <2>1, <2>2
<1>10. Matched(new, g)
  <2>1. Matched(log[i], g)
    BY <1>3, <1>9, MatchedKept DEF LogsMatched
  <2> SUFFICES ASSUME NEW k \in DOMAIN new
               PROVE  /\ k \in DOMAIN g.glog[new[k].term]
                      /\ \A n \in 1 .. k : new[n] = g.glog[new[k].term][n]
    BY DEF Matched
  <2>2. CASE k = Len(log[i]) + 1
    BY <1>5, <1>8, <2>2
  <2>3. CASE k # Len(log[i]) + 1
    <3>1. k \in 1 .. Len(log[i])
      BY <1>5, <2>3
    <3>2. \A n \in 1 .. k : n \in 1 .. Len(log[i])
      BY <1>5, <3>1
    <3> QED
      BY <1>5, <2>1, <3>1, <3>2 DEF Matched
  <2> QED
    BY <2>2, <2>3
<1>11. log'[i] = new /\ \A j \in Nodes \ {i} : log'[j] = log[j]
  BY <1>1, <1>4 DEF TypeOK
<1>12. \A j \in Nodes : Matched(log'[j], g)
  <2>1. \A j \in Nodes : log[j] \in Seq(LogEntry) /\ Matched(log[j], h)
    BY <1>1 DEF TypeOK, LogsMatched
  <2>2. \A j \in Nodes : Matched(log[j], g)
    BY <1>9, <2>1, MatchedKept
  <2> QED
    BY <1>10, <1>11, <2>2
<1>13. \A u \in Terms : Matched(g.glog[u], g)
  <2>1. \A u \in Terms : Matched(h.glog[u], g)
    BY <1>3, <1>9, MatchedKept DEF LogsMatched
  <2> QED
    BY <1>8, <1>10, <2>1
<1>14. \A u \in Terms : g.elected[u] = None => g.glog[u] = <<>>
  <2>1. \A u \in Terms : h.elected[u] = None => h.glog[u] = <<>>
    BY DEF LogsMatched
  <2>2. i # None
    BY RaftAssumption
  <2> QED
    BY <1>8, <2>1, <2>2
<1>15. ASSUME NEW j \in Nodes, role'[j] = "Leader"
       PROVE  g.glog[currentTerm'[j]] = log'[j]
  <2>1. h.elected[currentTerm[j]] = j /\ h.glog[currentTerm[j]] = log[j]
    BY <1>15 DEF ElectionInv, LeadersElected, LogsMatched
  <2>2. CASE j = i
    BY <1>2, <1>8, <1>11, <2>2
  <2>3. CASE j # i
    <3>1. currentTerm[j] \in Terms \ {t}
      BY <1>1, <1>8, <2>1, <2>3 DEF TypeOK
    <3> QED
      BY <1>8, <1>11, <2>1, <2>3, <3>1
  <2> QED
    BY <2>2, <2>3
<1>16. LeadersElected(g)'
  BY <1>7 DEF ElectionInv
<1>17. LogsMatched(g)'
  BY <1>9, <1>12, <1>13, <1>14, <1>15, <1>16, MatchStep
<1>18. Follows(h, g)
  <2>1. VotesCast(h, g)
    BY <1>7 DEF VotesCast
  <2>2. role'[i] = "Leader" /\ currentTerm'[i] = t
    BY <1>2
  <2> QED
    BY <1>8, <1>9, <2>1, <2>2 DEF Follows
<1> QED
  BY <1>7, <1>17, <1>18

\* A log without the entries of an empty message is what it was.
LEMMA MergedNothing ==
  ASSUME NEW l, NEW entries \in Seq(LogEntry), entries = <<>>
  PROVE  Merged(l, entries) = l
<1>1. Len(entries) = 0
  BY EmptySeq
<1>2. PICK f : /\ f[0] = l
               /\ Merged(l, entries) = f[Len(entries)]
  BY <1>1, MergeSteps
<1> QED
  BY <1>1, <1>2

\* Entries that come without a conflict are copied from the leader's log,
\* behind a place up to which the two are equal.
LEMMA FollowerCopies ==
  ASSUME TypeOK, NEW h \in Histories, LogsMatched(h), NEW i \in Nodes,
         NEW m \in Message, m.type = "AppendEntries",
         EntriesOrdered(m), Segment(m, h), ~Misses(i, m), ~Conflicts(i, m),
         m.entries # <<>>,
         NEW prev, prev = m.prevLogIndex, NEW g, g = h.glog[m.term]
  PROVE  /\ Agree(log[i], g, prev)
         /\ SliceOf(m.entries, prev, g)
         /\ Copied(Merged(log[i], m.entries), log[i], g, prev + Len(m.entries))
<1>1. /\ log[i] \in Seq(LogEntry)
      /\ Len(log[i]) \in Nat
      /\ DOMAIN log[i] = 1 .. Len(log[i])
      /\ Matched(log[i], h)
  BY EntryTerms DEF TypeOK, LogsMatched
<1>2. prev \in Nat /\ m.term \in Terms /\ m.entries \in Seq(LogEntry)
  BY MessageFields
<1>3. g \in Seq(LogEntry) /\ Matched(g, h)
  BY <1>2, HistoryTypes DEF LogsMatched
<1>4. Len(g) \in Nat /\ DOMAIN g = 1 .. Len(g)
  BY <1>3, EntryTerms
<1>5. prev <= Len(log[i])
  BY <1>1, <1>2 DEF Misses
<1>6. /\ \A k \in DOMAIN m.entries :
           /\ m.entries[k].index = prev + k
           /\ prev + k \in DOMAIN g
           /\ m.entries[k] = g[prev + k]
      /\ prev > 0 => prev \in DOMAIN g /\ m.prevLogTerm = g[prev].term
  BY DEF Segment, EntriesOrdered
<1>7. prev <= Len(g)
  <2>1. CASE prev > 0
    BY <1>4, <1>6, <2>1
  <2>2. CASE prev = 0
    BY <1>4, <2>2
  <2> QED
    BY <1>2, <2>1, <2>2
<1>8. \A n \in 1 .. prev : log[i][n] = g[n]
  <2>1. CASE prev > 0
    <3>1. prev \in DOMAIN log[i] /\ prev \in DOMAIN g
      BY <1>1, <1>2, <1>5, <1>6, <2>1
    <3>2. log[i][prev].term = g[prev].term
      BY <1>6, <2>1, <3>1 DEF Conflicts
    <3> QED
      BY <1>1, <1>3, <3>1, <3>2, MatchedAgree
  <2>2. CASE prev = 0
    BY <2>2
  <2> QED
    BY <1>2, <2>1, <2>2
<1>9. Agree(log[i], g, prev) /\ SliceOf(m.entries, prev, g)
  BY <1>5, <1>6, <1>7, <1>8 DEF Agree, SliceOf
<1> QED
  BY <1>1, <1>2, <1>3, <1>9, MergedCopies

\* What a follower makes of its log when entries come still matches: it cuts
\* it off, or copies a part of the leader's log.
LEMMA FollowerMatched ==
  ASSUME TypeOK, NEW h \in Histories, LogsMatched(h), NEW i \in Nodes,
         NEW m \in Message, m.type = "AppendEntries",
         EntriesOrdered(m), Segment(m, h), ~Misses(i, m)
  PROVE  /\ Conflicts(i, m) =>
              Matched(SubSeq(log[i], 1, m.prevLogIndex - 1), h)
         /\ ~Conflicts(i, m) => Matched(Merged(log[i], m.entries), h)
<1> DEFINE prev == m.prevLogIndex
           g == h.glog[m.term]
<1>1. /\ log[i] \in Seq(LogEntry)
      /\ Len(log[i]) \in Nat
      /\ DOMAIN log[i] = 1 .. Len(log[i])
      /\ Matched(log[i], h)
  BY EntryTerms DEF TypeOK, LogsMatched
<1>2. prev \in Nat /\ m.term \in Terms /\ m.entries \in Seq(LogEntry)
  BY MessageFields
<1>3. g \in Seq(LogEntry) /\ Matched(g, h)
  BY <1>2, HistoryTypes DEF LogsMatched
<1>4. prev <= Len(log[i])
  BY <1>1, <1>2 DEF Misses
<1>5. ASSUME Conflicts(i, m)
      PROVE  Matched(SubSeq(log[i], 1, prev - 1), h)
  <2>1. prev - 1 \in Int /\ prev - 1 <= Len(log[i])
    BY <1>1, <1>2, <1>4
  <2> QED
    BY <1>1, <2>1, CutMatched
<1>6. ASSUME ~Conflicts(i, m)
      PROVE  Matched(Merged(log[i], m.entries), h)
  <2>1. CASE m.entries = <<>>
    BY <1>1, <1>2, <2>1, MergedNothing
  <2>2. CASE m.entries # <<>>
    <3>1. Agree(log[i], g, prev) /\ SliceOf(m.entries, prev, g)
      BY <1>6, <2>2, FollowerCopies
    <3> HIDE DEF prev, g
    <3> QED
      BY <1>1, <1>2, <1>3, <3>1, MergedMatched
  <2> QED
    BY <2>1, <2>2
<1> QED
  BY <1>5, <1>6

\* A follower's step.
LEMMA FollowerStep ==
  ASSUME LogInv, TypeOK', NetElectionInv, [Next]_vars,
         NeverEquivocates = Nodes,
         NEW h \in Histories, ElectionInv(h), LogsMatched(h),
         NEW g \in Histories, LeadersElected(g)',
         g.elected = h.elected, g.glog = h.glog,
         NEW i \in Nodes, Deliverable, i = Head(inflight).to,
         NEW m, m = Tampered(Head(inflight)), FollowLeader(i, m), ~Misses(i, m),
         \/ /\ Conflicts(i, m)
            /\ log' = [log EXCEPT ![i] = SubSeq(@, 1, m.prevLogIndex - 1)]
         \/ /\ ~Conflicts(i, m)
            /\ log' = [log EXCEPT ![i] = Merged(@, m.entries)]
  PROVE  LogsMatched(g)'
<1>1. TypeInv /\ TypeOK /\ NetTypeOK
  BY TypeParts DEF LogInv, TypeInv
<1>2. /\ Head(inflight) \in EnvelopeType
      /\ inflight # <<>>
  BY <1>1, HeadTailProperties DEF Deliverable, NetTypeOK
<1>3. m = Head(inflight).msg /\ m \in Message
  BY <1>1, <1>2, TamperedNothing DEF EnvelopeType
<1>4. m.type = "AppendEntries"
  BY DEF FollowLeader
<1>5. EntriesOrdered(m)
  BY <1>1, DeliveredOrdered DEF LogInv
<1>6. Segment(m, h)
  <2>1. /\ Queue \in Seq(EnvelopeType)
        /\ Len(Queue) = Len(inflight) + Len(pending)
        /\ \A k \in 1 .. Len(inflight) : Queue[k] = inflight[k]
    BY <1>1, ConcatProperties DEF NetTypeOK, Queue
  <2>2. Len(inflight) \in Nat \ {0} /\ Len(pending) \in Nat
    BY <1>1, <1>2, EmptySeq, LenProperties DEF NetTypeOK
  <2>3. Queue[1] = Head(inflight) /\ 1 \in DOMAIN Queue
    BY <1>1, <1>2, <2>1, <2>2, LenProperties DEF NetTypeOK
  <2> QED
    BY <1>3, <2>3 DEF LogsMatched
<1>7. /\ Conflicts(i, m) => Matched(SubSeq(log[i], 1, m.prevLogIndex - 1), h)
      /\ ~Conflicts(i, m) => Matched(Merged(log[i], m.entries), h)
  BY <1>1, <1>3, <1>4, <1>5, <1>6, FollowerMatched
<1>8. Matched(log'[i], h) /\ \A j \in Nodes \ {i} : log'[j] = log[j]
  BY <1>1, <1>7 DEF TypeOK
<1>9. \A j \in Nodes : Matched(log'[j], h)
  BY <1>8 DEF LogsMatched
<1>10. role'[i] = "Follower"
  BY <1>1 DEF FollowLeader, TypeOK
<1>11. \A j \in Nodes : role'[j] = "Leader" => log'[j] = log[j]
  BY <1>8, <1>10
<1> QED
  BY <1>1, <1>9, <1>11, SameLogsStep

LEMMA LogsMatchedStep ==
  ASSUME LogInv, TypeOK', NetElectionInv, MaxPending = 0,
         NeverEquivocates = Nodes, [Next]_vars,
         NEW h \in Histories, ElectionInv(h), LogsMatched(h)
  PROVE  \E g \in Histories :
           ElectionInv(g)' /\ LogsMatched(g)' /\ Follows(h, g)
<1>1. TypeInv /\ TypeOK
  BY DEF LogInv, TypeInv
<1>2. PICK f \in Histories : /\ ElectionInv(f)'
                             /\ VotesCast(h, f)
                             /\ f.glog = h.glog
                             /\ f.elected = h.elected \/ Wins(h, f)
  BY <1>1, ElectionStep
<1>3. CASE Wins(h, f)
  BY <1>1, <1>2, <1>3, WinnerStep
<1>4. f.elected = h.elected => Follows(h, f)
  BY <1>2 DEF Follows, Continues
<1>5. CASE f.elected = h.elected /\ log' = log
  <2>1. LeadersElected(f)'
    BY <1>2 DEF ElectionInv
  <2>2. \A i \in Nodes : Matched(log'[i], h)
    BY <1>5 DEF LogsMatched
  <2>3. LogsMatched(f)'
    BY <1>1, <1>2, <1>5, <2>1, <2>2, SameLogsStep
  <2> QED
    BY <1>2, <1>5, <1>4, <2>3
<1>6. CASE f.elected = h.elected /\ log' # log
  <2>1. Next
    BY <1>6 DEF vars, nodeVars, logVars
  <2>2. PICK i \in Nodes : LogStep(i)
    BY <1>1, <1>6, <2>1, LogSteps
  <2>3. CASE \E p \in Payloads : /\ role[i] = "Leader"
                                 /\ UNCHANGED <<currentTerm, role>>
                                 /\ log' = [log EXCEPT ![i] = Proposal(i, p)]
    BY <1>1, <1>2, <1>6, <2>3, ProposalStep
  <2>4. CASE ~\E p \in Payloads : /\ role[i] = "Leader"
                                  /\ UNCHANGED <<currentTerm, role>>
                                  /\ log' = [log EXCEPT ![i] = Proposal(i, p)]
    <3>1. PICK m :
            /\ Deliverable
            /\ i = Head(inflight).to
            /\ m = Tampered(Head(inflight))
            /\ FollowLeader(i, m)
            /\ ~Misses(i, m)
            /\ \/ /\ Conflicts(i, m)
                  /\ log' = [log EXCEPT ![i] =
                               SubSeq(@, 1, m.prevLogIndex - 1)]
               \/ /\ ~Conflicts(i, m)
                  /\ log' = [log EXCEPT ![i] = Merged(@, m.entries)]
      BY <2>2, <2>4 DEF LogStep
    <3>2. LeadersElected(f)'
      BY <1>2 DEF ElectionInv
    <3>3. LogsMatched(f)'
      BY <1>2, <1>6, <3>1, <3>2, FollowerStep
    <3> QED
      BY <1>2, <1>4, <1>6, <3>3
  <2> QED
    BY <2>3, <2>4
<1> QED
  BY <1>2, <1>3, <1>5, <1>6

\* At the start no log has an entry.
LEMMA LogsMatchedInit ==
  ASSUME Init, ~Forced
  PROVE  \E h \in Histories : ElectionInv(h) /\ LogsMatched(h)
<1>1. PICK h \in Histories : /\ ElectionInv(h)
                             /\ h.elected = [t \in Terms |-> None]
                             /\ h.glog = [t \in Terms |-> <<>>]
  BY ElectionInit
<1>2. DOMAIN <<>> = {}
  OBVIOUS
<1>3. Matched(<<>>, h)
  BY <1>2 DEF Matched
<1>4. \A i \in Nodes : log[i] = <<>> /\ role[i] # "Leader"
  BY DEF Init
<1>5. DOMAIN Queue = {}
  BY DEF Queue, Init, ClusterInit
<1> QED
  BY <1>1, <1>3, <1>4, <1>5 DEF LogsMatched

\* Some history explains the state and the logs.
LogsExplained ==
    /\ LogInv
    /\ NetElectionInv
    /\ \E h \in Histories : ElectionInv(h) /\ LogsMatched(h)

\* Two logs with an entry of one term at one place were copied, up to it, from
\* the log of one leader.
LEMMA MatchedLogs ==
  ASSUME TypeOK, NEW h, LogsMatched(h)
  PROVE  LogMatching
<1> SUFFICES ASSUME NEW i \in Nodes, NEW j \in Nodes,
                    NEW k \in DOMAIN log[i] \cap DOMAIN log[j],
                    log[i][k].term = log[j][k].term
             PROVE  SubSeq(log[i], 1, k) = SubSeq(log[j], 1, k)
  BY DEF LogMatching
<1>1. /\ log[i] \in Seq(LogEntry)
      /\ log[j] \in Seq(LogEntry)
      /\ k \in 1 .. Len(log[i])
      /\ k \in 1 .. Len(log[j])
      /\ Len(log[i]) \in Nat
      /\ Len(log[j]) \in Nat
  BY EntryTerms DEF TypeOK
<1>2. \A n \in 1 .. k : log[i][n] = log[j][n]
  BY MatchedAgree DEF LogsMatched
<1> DEFINE s == SubSeq(log[i], 1, k)
           t == SubSeq(log[j], 1, k)
<1>3. /\ s \in Seq(LogEntry)
      /\ Len(s) = k
      /\ \A n \in 1 .. k : s[n] = log[i][n]
  BY <1>1, PrefixType
<1>4. /\ t \in Seq(LogEntry)
      /\ Len(t) = k
      /\ \A n \in 1 .. k : t[n] = log[j][n]
  BY <1>1, PrefixType
<1> HIDE DEF s, t
<1>5. s = t
  BY <1>2, <1>3, <1>4, SeqEqual
<1> QED
  BY <1>5 DEF s, t

\* With elections as the only way to lead, a driver that completes the queue
\* before every other call and no node that equivocates, two logs that hold an
\* entry of one term at one index are equal up to it, for every number of
\* nodes, whatever is lost, cut off or partitioned: although entries beyond the
\* end of a log are pushed whatever their index, a follower reports entries
\* its leader never sent, and a leader counts next_index by such reports.
THEOREM LogsMatch ==
  ASSUME ~Forced, MaxPending = 0, NeverEquivocates = Nodes
  PROVE  Spec => []LogMatching
<1>1. Init => LogsExplained
  BY LogInvInit, ElectionInit, LogsMatchedInit DEF LogsExplained
<1>2. LogsExplained /\ [Next]_vars => LogsExplained'
  <2> SUFFICES ASSUME LogsExplained, [Next]_vars
               PROVE  LogsExplained'
    OBVIOUS
  <2>1. PICK h \in Histories : ElectionInv(h) /\ LogsMatched(h)
    BY DEF LogsExplained
  <2>2. LogInv'
    BY LogInvStep DEF LogsExplained
  <2>3. TypeInv /\ TypeOK'
    BY <2>2 DEF LogsExplained, LogInv, TypeInv
  <2>4. NetElectionInv'
    BY <2>1, <2>3, ElectionStep DEF LogsExplained
  <2>5. \E g \in Histories : ElectionInv(g)' /\ LogsMatched(g)'
    BY <2>1, <2>3, LogsMatchedStep DEF LogsExplained
  <2> QED
    BY <2>2, <2>4, <2>5 DEF LogsExplained
<1>3. LogsExplained => LogMatching
  BY MatchedLogs DEF LogsExplained, LogInv, TypeInv
<1> QED
  BY <1>1, <1>2, <1>3, PTL DEF Spec

-----------------------------------------------------------------------------
(***************************************************************************)
(* What is committed, in clusters of up to three nodes.  A follower        *)
(* reports the length of its log, entries its leader never sent included,  *)
(* so match_index proves little (run raft_minority_commits); but the       *)
(* answer that decides a commit is one to a message with all that the      *)
(* leader then has, and with three nodes that one answer makes a majority. *)
(* To the history of elections comes                                       *)
(*   a[j][t]   how much of the log of the leader of term t node j had when *)
(*             it last followed it.                                        *)
(***************************************************************************)
Acknowledgements == [Nodes -> [Terms -> Nat]]

\* Log l has the first n entries of g.
Holds(l, g, n) == \A k \in 1 .. n : k \in DOMAIN l /\ l[k] = g[k]

\* Place n of the log of the leader of term t has an entry of that term.
Point(h, t, n) == n \in DOMAIN h.glog[t] /\ h.glog[t][n].term = t

\* A majority has followed the leader of term t up to place n.
Chosen(h, a, t, n) ==
    /\ Point(h, t, n)
    /\ Cardinality({j \in Nodes : a[j][t] >= n}) >= Majority

\* A majority went on to later terms before.
RuledOut(a, t, n) ==
    Cardinality({j \in Nodes : currentTerm[j] > t /\ a[j][t] < n}) >= Majority

\* Log l holds what may have been chosen.
Keeps(l, h, a, t, n) == Holds(l, h.glog[t], n) \/ RuledOut(a, t, n)

\* Up to place c all is chosen, by the leaders of terms up to t.
Committed(h, a, t, c) ==
    \/ c = 0
    \/ \E u \in Terms : \E n \in Nat : u <= t /\ c <= n /\ Chosen(h, a, u, n)

AcksReal(h, a) ==
    \A j \in Nodes : \A t \in Terms :
        /\ a[j][t] <= Len(h.glog[t])
        /\ a[j][t] > 0 => currentTerm[j] >= t

LeadersAck(a) ==
    \A i \in Nodes : role[i] = "Leader" => a[i][currentTerm[i]] = Len(log[i])

\* A node keeps what it acknowledged.
AcksKept(h, a) ==
    \A j \in Nodes : \A t \in Terms : \A n \in Nat :
        n <= a[j][t] /\ Point(h, t, n) => Keeps(log[j], h, a, t, n)

\* So do the winners of later terms,
WinnersKeep(h, a) ==
    \A t, u \in Terms : \A n \in Nat :
        t < u /\ h.elected[u] # None /\ Point(h, t, n)
            => Keeps(h.glog[u], h, a, t, n)

\* and candidates, as far as those who voted for them acknowledged it.
CandidatesKeep(h, a) ==
    \A c, j \in Nodes : \A t \in Terms : \A n \in Nat :
        /\ role[c] = "Candidate"
        /\ h.ballot[j][currentTerm[c]] = c
        /\ t < currentTerm[c]
        /\ n <= a[j][t]
        /\ Point(h, t, n)
        => Keeps(log[c], h, a, t, n)

\* Elections begin with term 1 and are not held ahead of the candidate.
ElectionsBegin(h) ==
    /\ h.elected[0] = None
    /\ \A i \in Nodes : role[i] = "Candidate" => currentTerm[i] > 0
    /\ \A j, c \in Nodes : \A t \in Terms :
         h.ballot[j][t] = c => t <= currentTerm[c]
    /\ \A t \in Terms : Ordered(h.glog[t], t)

\* What a message says of its sender's log, or of the receiver's.
RequestFits(x) ==
    x.msg.type = "RequestVote" =>
        /\ x.msg.term <= currentTerm[x.from]
        /\ role[x.from] = "Candidate" =>
             /\ x.msg.lastLogIndex = Len(log[x.from])
             /\ x.msg.lastLogTerm = LastTerm(log[x.from])

\* Entries go to the end of the leader's log.
Whole(m, h) ==
    LET g == h.glog[m.term]
        prev == m.prevLogIndex
    IN  /\ \A k \in Nat \ {0} : prev + k \in DOMAIN g => k \in DOMAIN m.entries
        /\ m.prevLogTerm = IF prev \in DOMAIN g THEN g[prev].term ELSE 0

EntriesFit(x, h, a) ==
    x.msg.type = "AppendEntries" =>
        /\ role[x.from] # "Follower" => x.msg.term = currentTerm[x.from]
        /\ Whole(x.msg, h)
        /\ Committed(h, a, x.msg.term, x.msg.leaderCommit)

AnswerFits(x, h, a) ==
    x.msg.type = "AppendEntriesResponse" /\ x.msg.success =>
        /\ role[x.to] # "Follower" => x.msg.term = currentTerm[x.to]
        /\ h.elected[x.msg.term] # None
        /\ a[x.from][x.msg.term] = Len(h.glog[x.msg.term])

QueueFits(h, a) ==
    \A k \in DOMAIN Queue :
        /\ Queue[k].from # Queue[k].to
        /\ RequestFits(Queue[k])
        /\ EntriesFit(Queue[k], h, a)
        /\ AnswerFits(Queue[k], h, a)

\* What a node committed was chosen by a leader of its term or an earlier one,
\* and the node has it.
CommitsChosen(h, a) ==
    \A i \in Nodes :
        \/ commitIndex[i] = 0
        \/ \E u \in Terms : \E n \in Nat :
             /\ u <= currentTerm[i]
             /\ commitIndex[i] <= n
             /\ Chosen(h, a, u, n)
             /\ Holds(log[i], h.glog[u], commitIndex[i])

\* What is known of a state, and of a step and the histories around it.
Before(h, a) ==
    /\ LogInv
    /\ NetElectionInv
    /\ ElectionInv(h)
    /\ LogsMatched(h)
    /\ AcksReal(h, a)
    /\ LeadersAck(a)
    /\ AcksKept(h, a)
    /\ WinnersKeep(h, a)
    /\ CandidatesKeep(h, a)
    /\ ElectionsBegin(h)
    /\ QueueFits(h, a)
    /\ CommitsChosen(h, a)

\* In a step node j leads term t or takes what its leader sent.
Acknowledges(j, t) ==
    \/ role'[j] = "Leader" /\ currentTerm'[j] = t
    \/ \E e : /\ Delivers(e)
              /\ e.msg = Queue[1].msg
              /\ Replicate(e)
              /\ e.to = j
              /\ e.msg.term = t

StepOf(h, a, g, b) ==
    /\ [Next]_vars
    /\ LogInv'
    /\ ElectionInv(g)'
    /\ LogsMatched(g)'
    /\ Follows(h, g)
    /\ \A j \in Nodes : \A t \in Terms :
         b[j][t] = IF Acknowledges(j, t) THEN Len(g.glog[t]) ELSE a[j][t]

-----------------------------------------------------------------------------
(* What a step keeps *)

LEMMA TermsGrow ==
  ASSUME TypeOK, [Next]_vars, NEW j \in Nodes
  PROVE  /\ currentTerm[j] \in Nat
         /\ currentTerm'[j] >= currentTerm[j]
<1>1. currentTerm[j] \in Nat
  BY TermsAreNumbers
<1>2. CASE Next
  BY <1>1, <1>2, VoteSteps DEF VoteStep
<1>3. CASE UNCHANGED vars
  BY <1>1, <1>3 DEF vars, nodeVars, termVars
<1> QED
  BY <1>1, <1>2, <1>3

\* The leaders' logs of a history.
LEMMA LeadersLogs ==
  ASSUME NEW h \in Histories, NEW t \in Terms
  PROVE  /\ t \in Nat
         /\ h.glog[t] \in Seq(LogEntry)
         /\ Len(h.glog[t]) \in Nat
         /\ DOMAIN h.glog[t] = 1 .. Len(h.glog[t])
BY HistoryTypes, EntryTerms, TermsAreNumbers

\* The log of a node.
LEMMA NodeLogs ==
  ASSUME TypeOK, NEW i \in Nodes
  PROVE  /\ log[i] \in Seq(LogEntry)
         /\ Len(log[i]) \in Nat
         /\ DOMAIN log[i] = 1 .. Len(log[i])
         /\ currentTerm[i] \in Terms
         /\ currentTerm[i] \in Nat
         /\ commitIndex[i] \in Nat
BY EntryTerms, TermsAreNumbers DEF TypeOK

\* Who acknowledges a leader is in its term after the step.
LEMMA AcknowledgedTerm ==
  ASSUME TypeOK, NEW j \in Nodes, NEW t \in Terms, Acknowledges(j, t)
  PROVE  currentTerm'[j] = t
<1>1. ASSUME NEW e, Delivers(e), Replicate(e), e.to = j, e.msg.term = t
      PROVE  currentTerm'[j] = t
  <2>1. currentTerm' = [currentTerm EXCEPT ![e.to] = e.msg.term]
    BY <1>1 DEF Replicate, FollowLeader
  <2> QED
    BY <1>1, <2>1 DEF TypeOK
<1> QED
  BY <1>1 DEF Acknowledges

\* What is known at the outset of every step.
LEMMA StepTypes ==
  ASSUME NEW h \in Histories, NEW g \in Histories,
         NEW a \in Acknowledgements, NEW b \in Acknowledgements,
         Before(h, a), StepOf(h, a, g, b)
  PROVE  /\ TypeInv
         /\ TypeOK
         /\ NetTypeOK
         /\ TypeOK'
         /\ [Next]_vars
         /\ Continues(h, g)
         /\ \A j \in Nodes : \A t \in Terms :
              /\ t \in Nat
              /\ a[j][t] \in Nat
              /\ b[j][t] \in Nat
              /\ currentTerm[j] \in Nat
              /\ currentTerm'[j] \in Nat
              /\ currentTerm'[j] >= currentTerm[j]
<1>1. TypeInv /\ TypeOK /\ NetTypeOK /\ TypeOK' /\ [Next]_vars
  BY TypeParts DEF Before, StepOf, LogInv, TypeInv
<1>2. Continues(h, g)
  BY DEF StepOf, Follows
<1>3. \A j \in Nodes : currentTerm'[j] \in Nat
  BY <1>1, TermsAreNumbers DEF TypeOK
<1>4. \A j \in Nodes : \A t \in Terms :
        t \in Nat /\ a[j][t] \in Nat /\ b[j][t] \in Nat
  BY TermsAreNumbers DEF Acknowledgements
<1>5. \A j \in Nodes : /\ currentTerm[j] \in Nat
                       /\ currentTerm'[j] >= currentTerm[j]
  BY <1>1, TermsGrow
<1> QED
  BY <1>1, <1>2, <1>3, <1>4, <1>5

\* Acknowledgements grow, in the node's own term only.
LEMMA AcksGrow ==
  ASSUME NEW h \in Histories, NEW g \in Histories,
         NEW a \in Acknowledgements, NEW b \in Acknowledgements,
         Before(h, a), StepOf(h, a, g, b), NEW j \in Nodes, NEW t \in Terms
  PROVE  /\ a[j][t] <= b[j][t]
         /\ b[j][t] <= Len(g.glog[t])
         /\ Len(h.glog[t]) <= Len(g.glog[t])
         /\ b[j][t] > 0 => currentTerm'[j] >= t
         /\ currentTerm'[j] > t => b[j][t] = a[j][t]
<1>1. /\ TypeOK
      /\ Continues(h, g)
      /\ t \in Nat /\ a[j][t] \in Nat /\ b[j][t] \in Nat
      /\ currentTerm[j] \in Nat /\ currentTerm'[j] \in Nat
      /\ currentTerm'[j] >= currentTerm[j]
  BY StepTypes
<1>2. /\ Len(h.glog[t]) \in Nat /\ DOMAIN h.glog[t] = 1 .. Len(h.glog[t])
      /\ Len(g.glog[t]) \in Nat /\ DOMAIN g.glog[t] = 1 .. Len(g.glog[t])
  BY LeadersLogs
<1>3. Len(h.glog[t]) <= Len(g.glog[t])
  <2>1. CASE Len(h.glog[t]) > 0
    <3>1. Len(h.glog[t]) \in DOMAIN h.glog[t]
      BY <1>2, <2>1
    <3>2. \A n \in DOMAIN h.glog[t] : n \in DOMAIN g.glog[t]
      BY <1>1 DEF Continues
    <3>3. Len(h.glog[t]) \in DOMAIN g.glog[t]
      BY <3>1, <3>2
    <3> QED
      BY <1>2, <3>3
  <2>2. CASE Len(h.glog[t]) = 0
    BY <1>2, <2>2
  <2> QED
    BY <1>2, <2>1, <2>2
<1>4. a[j][t] <= Len(h.glog[t]) /\ (a[j][t] > 0 => currentTerm[j] >= t)
  BY DEF Before, AcksReal
<1>5. b[j][t] = IF Acknowledges(j, t) THEN Len(g.glog[t]) ELSE a[j][t]
  BY DEF StepOf
<1>6. Acknowledges(j, t) => currentTerm'[j] = t
  BY <1>1, AcknowledgedTerm
<1>7. CASE Acknowledges(j, t)
  BY <1>1, <1>2, <1>3, <1>4, <1>5, <1>6, <1>7
<1>8. CASE ~Acknowledges(j, t)
  BY <1>1, <1>2, <1>3, <1>4, <1>5, <1>8
<1> QED
  BY <1>7, <1>8

\* The more nodes the more of a majority.
LEMMA LargerMajority ==
  ASSUME NEW S \in SUBSET Nodes, NEW T \in SUBSET Nodes, S \subseteq T,
         Cardinality(S) >= Majority
  PROVE  Cardinality(T) >= Majority
<1>1. /\ IsFiniteSet(S) /\ Cardinality(S) \in Nat
      /\ IsFiniteSet(T) /\ Cardinality(T) \in Nat
  BY VotersFinite
<1>2. Cardinality(S) <= Cardinality(T)
  BY <1>1, FS_Subset
<1>3. Majority \in Nat
  BY SizeAssumption DEF Majority
<1> QED
  BY <1>1, <1>2, <1>3

LEMMA RuledOutStays ==
  ASSUME NEW h \in Histories, NEW g \in Histories,
         NEW a \in Acknowledgements, NEW b \in Acknowledgements,
         Before(h, a), StepOf(h, a, g, b),
         NEW t \in Terms, NEW n \in Nat, RuledOut(a, t, n)
  PROVE  RuledOut(b, t, n)'
<1> DEFINE S == {j \in Nodes : currentTerm[j] > t /\ a[j][t] < n}
           T == {j \in Nodes : currentTerm'[j] > t /\ b[j][t] < n}
<1>1. ASSUME NEW j \in Nodes, j \in S
      PROVE  j \in T
  <2>1. /\ t \in Nat
        /\ currentTerm[j] \in Nat /\ currentTerm'[j] \in Nat
        /\ currentTerm'[j] >= currentTerm[j]
    BY StepTypes
  <2>2. currentTerm'[j] > t
    BY <1>1, <2>1
  <2>3. b[j][t] = a[j][t]
    BY <2>2, AcksGrow
  <2> QED
    BY <1>1, <2>2, <2>3
<1>2. Cardinality(S) >= Majority
  BY DEF RuledOut
<1>3. S \in SUBSET Nodes /\ T \in SUBSET Nodes /\ S \subseteq T
  BY <1>1
<1> HIDE DEF S, T
<1>4. Cardinality(T) >= Majority
  BY <1>2, <1>3, LargerMajority
<1> QED
  BY <1>4 DEF T, RuledOut

LEMMA ChosenStays ==
  ASSUME NEW h \in Histories, NEW g \in Histories,
         NEW a \in Acknowledgements, NEW b \in Acknowledgements,
         Before(h, a), StepOf(h, a, g, b),
         NEW t \in Terms, NEW n \in Nat, Chosen(h, a, t, n)
  PROVE  Chosen(g, b, t, n)
<1>1. Point(g, t, n)
  BY StepTypes DEF Chosen, Point, Continues
<1> DEFINE S == {j \in Nodes : a[j][t] >= n}
           T == {j \in Nodes : b[j][t] >= n}
<1>2. ASSUME NEW j \in Nodes, j \in S
      PROVE  j \in T
  <2>1. a[j][t] <= b[j][t] /\ a[j][t] \in Nat /\ b[j][t] \in Nat
    BY StepTypes, AcksGrow
  <2> QED
    BY <1>2, <2>1
<1>3. Cardinality(S) >= Majority
  BY DEF Chosen
<1>4. S \in SUBSET Nodes /\ T \in SUBSET Nodes /\ S \subseteq T
  BY <1>2
<1> HIDE DEF S, T
<1>5. Cardinality(T) >= Majority
  BY <1>3, <1>4, LargerMajority
<1> QED
  BY <1>1, <1>5 DEF T, Chosen

\* What is chosen is not ruled out: two majorities share a node.
LEMMA ChosenNotRuledOut ==
  ASSUME NEW h, NEW a \in Acknowledgements, NEW t \in Terms, NEW n \in Nat,
         Chosen(h, a, t, n), RuledOut(a, t, n)
  PROVE  FALSE
<1> DEFINE S == {j \in Nodes : a[j][t] >= n}
           T == {j \in Nodes : currentTerm[j] > t /\ a[j][t] < n}
<1>1. PICK j \in Nodes : j \in S /\ j \in T
  <2>1. S \in SUBSET Nodes /\ T \in SUBSET Nodes
    OBVIOUS
  <2>2. Cardinality(S) >= Majority /\ Cardinality(T) >= Majority
    BY DEF Chosen, RuledOut
  <2> HIDE DEF S, T
  <2> QED
    BY <2>1, <2>2, MajoritiesMeet
<1>2. a[j][t] \in Nat
  BY DEF Acknowledgements
<1> QED
  BY <1>1, <1>2

\* A log that keeps what may have been chosen does so after the step.
LEMMA KeepsStays ==
  ASSUME NEW h \in Histories, NEW g \in Histories,
         NEW a \in Acknowledgements, NEW b \in Acknowledgements,
         Before(h, a), StepOf(h, a, g, b),
         NEW t \in Terms, NEW n \in Nat, Point(h, t, n),
         NEW l, Keeps(l, h, a, t, n)
  PROVE  Holds(l, g.glog[t], n) \/ RuledOut(b, t, n)'
<1>1. CASE RuledOut(a, t, n)
  BY <1>1, RuledOutStays
<1>2. CASE Holds(l, h.glog[t], n)
  <2>1. \A k \in 1 .. n : g.glog[t][k] = h.glog[t][k]
    <3>1. \A k \in 1 .. n : k \in DOMAIN h.glog[t]
      BY LeadersLogs DEF Point
    <3> QED
      BY <3>1, StepTypes DEF Continues
  <2> QED
    BY <1>2, <2>1 DEF Holds
<1> QED
  BY <1>1, <1>2 DEF Keeps

-----------------------------------------------------------------------------
(* When logs grow *)

\* A leader's log changes when a client proposes.
LEMMA LeaderProposes ==
  ASSUME TypeInv, [Next]_vars, NEW i \in Nodes,
         role'[i] = "Leader", log'[i] # log[i]
  PROVE  \E p \in Payloads : ProposeAccepted(p)
<1>1. TypeOK /\ NetTypeOK
  BY TypeParts DEF TypeInv
<1>2. CASE \E p \in Payloads : ProposeAccepted(p)
  BY <1>2
<1>3. CASE DeliverMessage
  <2>1. PICK e : Delivers(e) /\ HandleMessage(e)
    BY <1>1, <1>3, DeliveredSame
  <2>2. e.to \in Nodes
    BY <2>1 DEF Delivers, EnvelopeType
  <2>3. CASE UNCHANGED log
    BY <2>3
  <2>4. CASE RefuseConflict(e) \/ Replicate(e)
    <3>1. /\ role' = [role EXCEPT ![e.to] = "Follower"]
          /\ \E l : log' = [log EXCEPT ![e.to] = l]
      BY <2>4 DEF RefuseConflict, Replicate, FollowLeader
    <3>2. role'[e.to] = "Follower" /\ \A j \in Nodes \ {e.to} : log'[j] = log[j]
      BY <1>1, <2>2, <3>1 DEF TypeOK
    <3> QED
      BY <3>2
  <2>5. UNCHANGED log \/ RefuseConflict(e) \/ Replicate(e)
    BY <2>1
       DEF HandleMessage, HandleRequestVote, StepDown, CountVote, WinElection,
           RejectOldLeader, RefuseGap, NoteReplicated, BackUp, Discard,
           nodeVars, logVars
  <2> QED
    BY <2>3, <2>4, <2>5
<1>4. CASE UNCHANGED log
  BY <1>4
<1>5. CASE Tick
  BY <1>1, <1>4, <1>5, TickSends
<1>6. CASE \/ BeginStep \/ UNCHANGED vars \/ ChangeFaults \/ LoseMessage
           \/ \E p \in Payloads : ProposeRejected(p)
  BY <1>4, <1>6
     DEF BeginStep, ChangeFaults, LoseMessage, ProposeRejected, nodeVars,
         logVars, vars
<1> QED
  BY <1>2, <1>3, <1>5, <1>6 DEF Next

\* It does so with nothing under way.
LEMMA LeaderLogStep ==
  ASSUME TypeInv, [Next]_vars, MaxPending = 0, NEW i \in Nodes,
         role'[i] = "Leader", log'[i] # log[i]
  PROVE  DOMAIN Queue = {}
<1>1. NetTypeOK
  BY TypeParts DEF TypeInv
<1> QED
  BY <1>1, LeaderProposes, QuietQueue DEF ProposeAccepted, Idle

\* The log of a term changes when its leader has just won, or takes a
\* proposal with nothing under way.
LEMMA LeadersLogGrows ==
  ASSUME MaxPending = 0, NEW h \in Histories, NEW g \in Histories,
         NEW a \in Acknowledgements, NEW b \in Acknowledgements,
         Before(h, a), StepOf(h, a, g, b), NEW t \in Terms,
         g.glog[t] # h.glog[t]
  PROVE  \E i \in Nodes :
           /\ role'[i] = "Leader"
           /\ currentTerm'[i] = t
           /\ \/ DOMAIN Queue = {}
              \/ /\ h.elected[t] = None
                 /\ \E e : Delivers(e) /\ WinElection(e) /\ e.to = i
<1>1. TypeInv /\ TypeOK /\ TypeOK' /\ [Next]_vars
  BY StepTypes
<1>2. PICK i \in Nodes : role'[i] = "Leader" /\ currentTerm'[i] = t
  BY DEF StepOf, Follows
<1>3. g.glog[t] = log'[i]
  BY <1>2 DEF StepOf, LogsMatched
<1>4. CASE role[i] = "Leader" /\ currentTerm'[i] = currentTerm[i]
  <2>1. h.glog[t] = log[i]
    BY <1>2, <1>4 DEF Before, LogsMatched
  <2>2. DOMAIN Queue = {}
    BY <1>1, <1>2, <1>3, <2>1, LeaderLogStep
  <2> QED
    BY <1>2, <2>2
<1>5. CASE \E e : Delivers(e) /\ WinElection(e) /\ e.to = i
  <2>1. PICK e : Delivers(e) /\ WinElection(e) /\ e.to = i
    BY <1>5
  <2>2. RequestsCurrent /\ OneBallotPaper /\ ElectionInv(h)
    BY DEF Before, NetElectionInv
  <2>3. h.elected[currentTerm[i]] = None
    BY <1>1, <2>1, <2>2, WinElectionElection
  <2>4. currentTerm'[i] = currentTerm[i]
    BY <2>1 DEF WinElection
  <2> QED
    BY <1>2, <2>1, <2>3, <2>4
<1> QED
  BY <1>1, <1>2, <1>4, <1>5, LeadersStep

\* So what is under way was sent with the log of its term as it is.
LEMMA SameLeadersLog ==
  ASSUME MaxPending = 0, NEW h \in Histories, NEW g \in Histories,
         NEW a \in Acknowledgements, NEW b \in Acknowledgements,
         Before(h, a), StepOf(h, a, g, b), NEW t \in Terms,
         h.elected[t] # None, DOMAIN Queue # {}
  PROVE  g.glog[t] = h.glog[t]
BY LeadersLogGrows

-----------------------------------------------------------------------------
(* What followers make of their logs *)

\* What is known of the next message.
LEMMA DeliveredFacts ==
  ASSUME NEW h \in Histories, LogInv, LogsMatched(h), NeverEquivocates = Nodes,
         Deliverable, NEW m, m = Tampered(Head(inflight))
  PROVE  /\ m = Head(inflight).msg
         /\ m \in Message
         /\ EntriesOrdered(m)
         /\ Segment(m, h)
         /\ 1 \in DOMAIN Queue
         /\ Queue[1] = Head(inflight)
         /\ Queue[1] \in EnvelopeType
<1>1. NetTypeOK
  BY TypeParts DEF LogInv, TypeInv
<1>2. /\ Head(inflight) \in EnvelopeType
      /\ inflight # <<>>
  BY <1>1, HeadTailProperties DEF Deliverable, NetTypeOK
<1>3. m = Head(inflight).msg /\ m \in Message
  BY <1>1, <1>2, TamperedNothing DEF EnvelopeType
<1>4. EntriesOrdered(m)
  BY <1>1, DeliveredOrdered DEF LogInv
<1>5. /\ Queue \in Seq(EnvelopeType)
      /\ Len(Queue) = Len(inflight) + Len(pending)
      /\ \A k \in 1 .. Len(inflight) : Queue[k] = inflight[k]
  BY <1>1, ConcatProperties DEF NetTypeOK, Queue
<1>6. Len(inflight) \in Nat \ {0} /\ Len(pending) \in Nat
  BY <1>1, <1>2, EmptySeq, LenProperties DEF NetTypeOK
<1>7. Queue[1] = Head(inflight) /\ 1 \in DOMAIN Queue
  BY <1>1, <1>2, <1>5, <1>6, LenProperties DEF NetTypeOK
<1>8. Segment(m, h)
  BY <1>3, <1>7 DEF LogsMatched
<1> QED
  BY <1>2, <1>3, <1>4, <1>7, <1>8

\* A follower that takes all the leader has ends up with the leader's log, and
\* entries of its own after it perhaps.
LEMMA FollowerWhole ==
  ASSUME TypeOK, NEW h \in Histories, LogsMatched(h), ElectionsBegin(h),
         NEW i \in Nodes, NEW m \in Message, m.type = "AppendEntries",
         EntriesOrdered(m), Segment(m, h), Whole(m, h),
         ~Misses(i, m), ~Conflicts(i, m)
  PROVE  Holds(Merged(log[i], m.entries), h.glog[m.term],
               Len(h.glog[m.term]))
<1>1. PICK g, prev, l, es :
        g = h.glog[m.term] /\ prev = m.prevLogIndex /\ l = log[i]
          /\ es = m.entries
  OBVIOUS
<1>2. prev \in Nat /\ m.term \in Terms /\ es \in Seq(LogEntry)
  BY <1>1, MessageFields
<1>3. /\ l \in Seq(LogEntry)
      /\ Len(l) \in Nat
      /\ DOMAIN l = 1 .. Len(l)
      /\ Matched(l, h)
  BY <1>1, NodeLogs DEF LogsMatched
<1>4. /\ g \in Seq(LogEntry)
      /\ Len(g) \in Nat
      /\ DOMAIN g = 1 .. Len(g)
      /\ Matched(g, h)
  BY <1>1, <1>2, LeadersLogs DEF LogsMatched
<1>5. Len(es) \in Nat /\ DOMAIN es = 1 .. Len(es)
  BY <1>2, EntryTerms
<1>6. /\ \A k \in Nat \ {0} : prev + k \in DOMAIN g => k \in DOMAIN es
      /\ m.prevLogTerm = IF prev \in DOMAIN g THEN g[prev].term ELSE 0
  BY <1>1 DEF Whole
<1>7. Len(g) <= prev + Len(es)
  <2> SUFFICES ASSUME ~(Len(g) <= prev + Len(es)) PROVE FALSE
    OBVIOUS
  <2>1. prev + (Len(es) + 1) \in DOMAIN g
    BY <1>2, <1>4, <1>5
  <2>2. Len(es) + 1 \in DOMAIN es
    BY <1>5, <1>6, <2>1
  <2> QED
    BY <1>5, <2>2
<1>8. CASE es # <<>>
  <2> DEFINE r == Merged(l, es)
             last == prev + Len(es)
  <2>1. Copied(r, l, g, last)
    BY <1>1, <1>8, FollowerCopies
  <2>2. last \in Nat
    BY <1>2, <1>5
  <2>3. Len(g) <= last
    BY <1>7
  <2> HIDE DEF r, last
  <2>4. r \in Seq(LogEntry) /\ last <= Len(r) /\ \A k \in 1 .. last : r[k] = g[k]
    BY <2>1 DEF Copied, Agree
  <2>5. Len(r) \in Nat /\ DOMAIN r = 1 .. Len(r)
    BY <2>4, EntryTerms
  <2>6. Holds(r, g, Len(g))
    BY <1>4, <2>2, <2>3, <2>4, <2>5 DEF Holds
  <2> QED
    BY <1>1, <2>6 DEF r
<1>9. CASE es = <<>>
  <2>1. Merged(l, es) = l
    BY <1>2, <1>9, MergedNothing
  <2>2. Len(es) = 0
    BY <1>9, EmptySeq
  <2>3. Len(g) <= prev /\ prev <= Len(l)
    BY <1>1, <1>2, <1>3, <1>7, <2>2 DEF Misses
  <2>4. CASE Len(g) = 0
    <3>1. Holds(l, g, Len(g))
      BY <2>4 DEF Holds
    <3> QED
      BY <1>1, <2>1, <3>1
  <2>5. CASE Len(g) > 0
    <3>1. prev \in DOMAIN l
      BY <1>2, <1>3, <1>4, <2>3, <2>5
    <3>2. l[prev].term = m.prevLogTerm
      BY <1>1, <3>1 DEF Conflicts
    <3>3. prev \in DOMAIN g
      <4> SUFFICES ASSUME prev \notin DOMAIN g PROVE FALSE
        OBVIOUS
      <4>1. l[prev].term = 0
        BY <1>6, <3>2
      <4>2. prev \in DOMAIN h.glog[0]
        BY <1>3, <3>1, <4>1 DEF Matched
      <4>3. 0 \in Terms
        BY RaftAssumption DEF Terms
      <4>4. h.glog[0] = <<>>
        BY <4>3 DEF ElectionsBegin, LogsMatched
      <4> QED
        BY <4>2, <4>4
    <3>4. l[prev].term = g[prev].term
      BY <1>6, <3>2, <3>3
    <3>5. \A k \in 1 .. prev : l[k] = g[k]
      BY <1>3, <1>4, <3>1, <3>3, <3>4, MatchedAgree
    <3>6. Holds(l, g, Len(g))
      BY <1>2, <1>3, <1>4, <2>3, <3>5 DEF Holds
    <3> QED
      BY <1>1, <2>1, <3>6
  <2> QED
    BY <1>4, <2>4, <2>5
<1> QED
  BY <1>8, <1>9

\* A follower keeps what its log and the leader's have in common.
LEMMA FollowerKeeps ==
  ASSUME TypeOK, NEW h \in Histories, LogsMatched(h),
         NEW i \in Nodes, NEW m \in Message, m.type = "AppendEntries",
         EntriesOrdered(m), Segment(m, h), Whole(m, h), ~Misses(i, m),
         NEW x, NEW n \in Nat,
         Holds(log[i], x, n), Holds(h.glog[m.term], x, n)
  PROVE  /\ Conflicts(i, m) => Holds(SubSeq(log[i], 1, m.prevLogIndex - 1), x, n)
         /\ ~Conflicts(i, m) => Holds(Merged(log[i], m.entries), x, n)
<1>1. PICK g, prev, l, es :
        g = h.glog[m.term] /\ prev = m.prevLogIndex /\ l = log[i]
          /\ es = m.entries
  OBVIOUS
<1>2. prev \in Nat /\ m.term \in Terms /\ es \in Seq(LogEntry)
  BY <1>1, MessageFields
<1>3. /\ l \in Seq(LogEntry)
      /\ Len(l) \in Nat
      /\ DOMAIN l = 1 .. Len(l)
  BY <1>1, NodeLogs
<1>4. /\ Len(g) \in Nat
      /\ DOMAIN g = 1 .. Len(g)
  BY <1>1, <1>2, LeadersLogs
<1>5. Len(es) \in Nat /\ DOMAIN es = 1 .. Len(es)
  BY <1>2, EntryTerms
<1>6. /\ \A k \in Nat \ {0} : prev + k \in DOMAIN g => k \in DOMAIN es
      /\ m.prevLogTerm = IF prev \in DOMAIN g THEN g[prev].term ELSE 0
  BY <1>1 DEF Whole
<1>7. /\ \A k \in 1 .. n : k \in DOMAIN l /\ l[k] = x[k]
      /\ \A k \in 1 .. n : k \in DOMAIN g /\ g[k] = x[k]
  BY <1>1 DEF Holds
<1>8. prev <= Len(l)
  BY <1>1, <1>2, <1>3 DEF Misses
<1>9. ASSUME Conflicts(i, m)
      PROVE  Holds(SubSeq(l, 1, prev - 1), x, n)
  <2>1. prev \in DOMAIN l /\ l[prev].term # m.prevLogTerm
    BY <1>1, <1>9 DEF Conflicts
  <2>2. n < prev
    <3> SUFFICES ASSUME ~(n < prev) PROVE FALSE
      OBVIOUS
    <3>1. prev \in 1 .. n
      BY <1>2, <1>3, <2>1
    <3>2. prev \in DOMAIN g /\ l[prev] = g[prev]
      BY <1>7, <3>1
    <3> QED
      BY <1>6, <2>1, <3>2
  <2> DEFINE r == SubSeq(l, 1, prev - 1)
  <2>3. /\ r \in Seq(LogEntry)
        /\ Len(r) = prev - 1
        /\ \A k \in 1 .. prev - 1 : r[k] = l[k]
    <3>1. prev - 1 \in Int /\ prev - 1 <= Len(l) /\ prev - 1 >= 0
      BY <1>2, <1>3, <1>8, <2>2
    <3> QED
      BY <1>3, <3>1, PrefixType
  <2> HIDE DEF r
  <2>4. DOMAIN r = 1 .. prev - 1
    BY <2>3, EntryTerms
  <2>5. Holds(r, x, n)
    BY <1>2, <1>7, <2>2, <2>3, <2>4 DEF Holds
  <2> QED
    BY <2>5 DEF r
<1>10. ASSUME ~Conflicts(i, m)
       PROVE  Holds(Merged(l, es), x, n)
  <2>1. CASE es = <<>>
    <3>1. Merged(l, es) = l
      BY <1>2, <2>1, MergedNothing
    <3> QED
      BY <1>1, <3>1
  <2>2. CASE es # <<>>
    <3> DEFINE r == Merged(l, es)
               last == prev + Len(es)
    <3>1. Copied(r, l, g, last)
      BY <1>1, <1>10, <2>2, FollowerCopies
    <3>2. last \in Nat
      BY <1>2, <1>5
    <3>3. n <= last
      <4> SUFFICES ASSUME ~(n <= last) PROVE FALSE
        OBVIOUS
      <4>1. last + 1 \in 1 .. n /\ last + 1 = prev + (Len(es) + 1)
        BY <1>2, <1>5
      <4>2. prev + (Len(es) + 1) \in DOMAIN g
        BY <1>7, <4>1
      <4>3. Len(es) + 1 \in DOMAIN es
        BY <1>5, <1>6, <4>2
      <4> QED
        BY <1>5, <4>3
    <3> HIDE DEF r, last
    <3>4. r \in Seq(LogEntry) /\ last <= Len(r) /\ \A k \in 1 .. last : r[k] = g[k]
      BY <3>1 DEF Copied, Agree
    <3>5. Len(r) \in Nat /\ DOMAIN r = 1 .. Len(r)
      BY <3>4, EntryTerms
    <3>6. Holds(r, x, n)
      BY <1>7, <3>2, <3>3, <3>4, <3>5 DEF Holds
    <3> QED
      BY <3>6 DEF r
  <2> QED
    BY <2>1, <2>2
<1> QED
  BY <1>1, <1>9, <1>10

\* A node keeps entries that all leaders it may follow have.
LEMMA HoldsStep ==
  ASSUME NeverEquivocates = Nodes, NEW h \in Histories, NEW g \in Histories,
         NEW a \in Acknowledgements, NEW b \in Acknowledgements,
         Before(h, a), StepOf(h, a, g, b), NEW j \in Nodes,
         NEW x, NEW n \in Nat, Holds(log[j], x, n),
         \A v \in Terms : v >= currentTerm[j] /\ h.elected[v] # None
                            => Holds(h.glog[v], x, n)
  PROVE  Holds(log'[j], x, n)
<1>1. TypeInv /\ TypeOK /\ [Next]_vars
  BY StepTypes
<1>2. CASE log'[j] = log[j]
  BY <1>2
<1>3. CASE log'[j] # log[j]
  <2>1. Next /\ log' # log
    BY <1>1, <1>3 DEF vars, nodeVars, logVars
  <2>2. PICK i \in Nodes : LogStep(i)
    BY <1>1, <2>1, LogSteps
  <2>3. CASE \E p \in Payloads : log' = [log EXCEPT ![i] = Proposal(i, p)]
    <3>1. PICK p \in Payloads : log' = [log EXCEPT ![i] = Proposal(i, p)]
      BY <2>3
    <3>2. i = j /\ log'[j] = Proposal(j, p)
      BY <1>1, <1>3, <3>1 DEF TypeOK
    <3> DEFINE r == Proposal(j, p)
    <3>3. /\ r \in Seq(LogEntry)
          /\ Len(r) = Len(log[j]) + 1
          /\ \A k \in 1 .. Len(log[j]) : r[k] = log[j][k]
      BY <1>1, ProposalAppends
    <3> HIDE DEF r
    <3>4. Len(log[j]) \in Nat /\ DOMAIN log[j] = 1 .. Len(log[j])
      BY <1>1, NodeLogs
    <3>5. DOMAIN r = 1 .. Len(log[j]) + 1
      BY <3>3, EntryTerms
    <3>6. Holds(r, x, n)
      BY <3>3, <3>4, <3>5 DEF Holds
    <3> QED
      BY <3>2, <3>6 DEF r
  <2>4. CASE ~\E p \in Payloads : log' = [log EXCEPT ![i] = Proposal(i, p)]
    <3>1. PICK m :
            /\ Deliverable
            /\ i = Head(inflight).to
            /\ m = Tampered(Head(inflight))
            /\ FollowLeader(i, m)
            /\ ~Misses(i, m)
            /\ \/ /\ Conflicts(i, m)
                  /\ log' = [log EXCEPT ![i] =
                               SubSeq(@, 1, m.prevLogIndex - 1)]
               \/ /\ ~Conflicts(i, m)
                  /\ log' = [log EXCEPT ![i] = Merged(@, m.entries)]
      BY <2>2, <2>4 DEF LogStep
    <3>2. i = j
      BY <1>1, <1>3, <3>1 DEF TypeOK
    <3>3. /\ m = Queue[1].msg
          /\ m \in Message
          /\ EntriesOrdered(m)
          /\ Segment(m, h)
          /\ 1 \in DOMAIN Queue
      BY <3>1, DeliveredFacts DEF Before
    <3>4. m.type = "AppendEntries" /\ m.term >= currentTerm[j]
      BY <3>1, <3>2 DEF FollowLeader
    <3>5. Whole(m, h)
      BY <3>3, <3>4 DEF Before, QueueFits, EntriesFit
    <3>6. Holds(h.glog[m.term], x, n)
      BY <3>3, <3>4, MessageFields DEF Segment
    <3>7. LogsMatched(h)
      BY DEF Before
    <3>8. ~Misses(j, m)
      BY <3>1, <3>2
    <3>9. /\ Conflicts(j, m) =>
               Holds(SubSeq(log[j], 1, m.prevLogIndex - 1), x, n)
          /\ ~Conflicts(j, m) => Holds(Merged(log[j], m.entries), x, n)
      BY <1>1, <3>3, <3>4, <3>5, <3>6, <3>7, <3>8, FollowerKeeps
    <3>10. \/ /\ Conflicts(j, m)
              /\ log'[j] = SubSeq(log[j], 1, m.prevLogIndex - 1)
           \/ /\ ~Conflicts(j, m)
              /\ log'[j] = Merged(log[j], m.entries)
      <4>1. log \in [Nodes -> Seq(LogEntry)]
        BY <1>1 DEF TypeOK
      <4>2. CASE /\ Conflicts(i, m)
                 /\ log' = [log EXCEPT ![i] =
                              SubSeq(@, 1, m.prevLogIndex - 1)]
        BY <3>2, <4>1, <4>2
      <4>3. CASE ~Conflicts(i, m) /\ log' = [log EXCEPT ![i] = Merged(@, m.entries)]
        BY <3>2, <4>1, <4>3
      <4> QED
        BY <3>1, <4>2, <4>3
    <3> QED
      BY <3>9, <3>10
  <2> QED
    BY <2>3, <2>4
<1> QED
  BY <1>2, <1>3

\* A node that has come to term t keeps what may have been chosen in it.
LEMMA KeepsStep ==
  ASSUME NeverEquivocates = Nodes, NEW h \in Histories, NEW g \in Histories,
         NEW a \in Acknowledgements, NEW b \in Acknowledgements,
         Before(h, a), StepOf(h, a, g, b), NEW j \in Nodes,
         NEW t \in Terms, NEW n \in Nat, Point(h, t, n),
         t <= currentTerm[j], Keeps(log[j], h, a, t, n)
  PROVE  Keeps(log[j], g, b, t, n)'
<1>1. CASE RuledOut(a, t, n)
  BY <1>1, RuledOutStays DEF Keeps
<1>2. CASE ~RuledOut(a, t, n)
  <2>1. Holds(log[j], h.glog[t], n)
    BY <1>2 DEF Keeps
  <2>2. ASSUME NEW v \in Terms, v >= currentTerm[j], h.elected[v] # None
        PROVE  Holds(h.glog[v], h.glog[t], n)
    <3>1. v \in Nat /\ t \in Nat /\ currentTerm[j] \in Nat
      BY StepTypes
    <3>2. CASE v = t
      BY <3>2, LeadersLogs DEF Point, Holds
    <3>3. CASE t < v
      BY <1>2, <2>2, <3>3 DEF Before, WinnersKeep, Keeps
    <3> QED
      BY <2>2, <3>1, <3>2, <3>3
  <2>3. Holds(log'[j], h.glog[t], n)
    BY <2>1, <2>2, HoldsStep
  <2>4. Keeps(log'[j], h, a, t, n)
    BY <2>3 DEF Keeps
  <2>5. Holds(log'[j], g.glog[t], n) \/ RuledOut(b, t, n)'
    BY <2>4, KeepsStays
  <2> QED
    BY <2>5 DEF Keeps
<1> QED
  BY <1>1, <1>2

\* A point of the log of a leader that was there before.
LEMMA OldPoint ==
  ASSUME NEW h \in Histories, NEW g \in Histories, Continues(h, g),
         NEW t \in Terms, NEW n \in Nat, Point(g, t, n), n <= Len(h.glog[t])
  PROVE  Point(h, t, n)
<1>1. /\ Len(h.glog[t]) \in Nat
      /\ DOMAIN h.glog[t] = 1 .. Len(h.glog[t])
      /\ Len(g.glog[t]) \in Nat
      /\ DOMAIN g.glog[t] = 1 .. Len(g.glog[t])
  BY LeadersLogs
<1>2. n \in DOMAIN h.glog[t]
  BY <1>1 DEF Point
<1>3. g.glog[t][n] = h.glog[t][n]
  BY <1>2 DEF Continues
<1> QED
  BY <1>2, <1>3 DEF Point

\* What is known of a message that is delivered as it was sent.
LEMMA HeadFacts ==
  ASSUME NEW h \in Histories, LogInv, LogsMatched(h), NEW e, Delivers(e),
         e.msg = Queue[1].msg
  PROVE  /\ e.msg \in Message
         /\ EntriesOrdered(e.msg)
         /\ Segment(e.msg, h)
         /\ e.to \in Nodes
         /\ e.from \in Nodes
<1>1. e.msg \in Message /\ e.to \in Nodes /\ e.from \in Nodes
  BY DEF Delivers, EnvelopeType
<1>2. Segment(e.msg, h)
  BY DEF Delivers, LogsMatched
<1>3. NetTypeOK /\ inflight # <<>> /\ Queue[1] = Head(inflight)
  BY TypeParts DEF LogInv, TypeInv, Delivers
<1>4. 1 \in DOMAIN inflight /\ Head(inflight) = inflight[1]
  <2>1. Len(inflight) \in Nat \ {0} /\ DOMAIN inflight = 1 .. Len(inflight)
    BY <1>3, EmptySeq, LenProperties DEF NetTypeOK
  <2> QED
    BY <1>3, <2>1, HeadTailProperties DEF NetTypeOK
<1>5. EntriesOrdered(e.msg)
  BY <1>3, <1>4 DEF LogInv, MessagesOrdered
<1> QED
  BY <1>1, <1>2, <1>5

LEMMA AcksKeptStep ==
  ASSUME MaxPending = 0, NeverEquivocates = Nodes,
         NEW h \in Histories, NEW g \in Histories,
         NEW a \in Acknowledgements, NEW b \in Acknowledgements,
         Before(h, a), StepOf(h, a, g, b)
  PROVE  AcksKept(g, b)'
<1> SUFFICES ASSUME NEW j \in Nodes, NEW t \in Terms, NEW n \in Nat,
                    n <= b[j][t], Point(g, t, n)
             PROVE  Keeps(log[j], g, b, t, n)'
  BY DEF AcksKept, Point
<1>1. /\ TypeOK
      /\ Continues(h, g)
      /\ t \in Nat /\ a[j][t] \in Nat /\ b[j][t] \in Nat
      /\ currentTerm[j] \in Nat
  BY StepTypes
<1>2. /\ Len(h.glog[t]) \in Nat
      /\ DOMAIN h.glog[t] = 1 .. Len(h.glog[t])
      /\ Len(g.glog[t]) \in Nat
      /\ DOMAIN g.glog[t] = 1 .. Len(g.glog[t])
  BY LeadersLogs
<1>3. n \in 1 .. Len(g.glog[t])
  BY <1>2 DEF Point
<1>4. CASE role'[j] = "Leader" /\ currentTerm'[j] = t
  <2>1. log'[j] = g.glog[t]
    BY <1>4 DEF StepOf, LogsMatched
  <2>2. Holds(log'[j], g.glog[t], n)
    BY <1>2, <1>3, <2>1 DEF Holds
  <2> QED
    BY <2>2 DEF Keeps
<1>5. ASSUME NEW e, Delivers(e), e.msg = Queue[1].msg, Replicate(e), e.to = j,
             e.msg.term = t
      PROVE  Keeps(log[j], g, b, t, n)'
  <2>1. /\ e.msg \in Message
        /\ EntriesOrdered(e.msg)
        /\ Segment(e.msg, h)
    BY <1>5, HeadFacts DEF Before
  <2>2. /\ e.msg.type = "AppendEntries"
        /\ ~Misses(j, e.msg)
        /\ ~Conflicts(j, e.msg)
        /\ log' = [log EXCEPT ![j] = Merged(log[j], e.msg.entries)]
    BY <1>5 DEF Replicate, FollowLeader
  <2>3. 1 \in DOMAIN Queue
    BY <1>5 DEF Delivers
  <2>4. Whole(e.msg, h)
    BY <1>5, <2>2, <2>3 DEF Before, QueueFits, EntriesFit
  <2>5. LogsMatched(h) /\ ElectionsBegin(h)
    BY DEF Before
  <2>6. Holds(Merged(log[j], e.msg.entries), h.glog[t], Len(h.glog[t]))
    BY <1>1, <1>5, <2>1, <2>2, <2>4, <2>5, FollowerWhole
  <2>7. log'[j] = Merged(log[j], e.msg.entries)
    BY <1>1, <2>2 DEF TypeOK
  <2>8. h.elected[t] # None
    BY <1>5, <2>1, <2>2 DEF Segment
  <2>9. g.glog[t] = h.glog[t]
    BY <2>3, <2>8, SameLeadersLog
  <2>10. Holds(log'[j], g.glog[t], n)
    BY <1>2, <1>3, <2>6, <2>7, <2>9 DEF Holds
  <2> QED
    BY <2>10 DEF Keeps
<1>6. CASE ~Acknowledges(j, t)
  <2>1. b[j][t] = a[j][t]
    BY <1>6 DEF StepOf
  <2>2. a[j][t] <= Len(h.glog[t]) /\ (a[j][t] > 0 => currentTerm[j] >= t)
    BY DEF Before, AcksReal
  <2>3. Point(h, t, n)
    BY <1>1, <1>2, <2>1, <2>2, OldPoint
  <2>4. Keeps(log[j], h, a, t, n)
    BY <2>1, <2>3 DEF Before, AcksKept
  <2>5. t <= currentTerm[j]
    BY <1>1, <1>3, <2>1, <2>2
  <2> QED
    BY <2>3, <2>4, <2>5, KeepsStep
<1> QED
  BY <1>4, <1>5, <1>6 DEF Acknowledges

-----------------------------------------------------------------------------
(* What elections keep *)

\* Who stands after a step stood before, with the same log, or starts to.
LEMMA CandidatesStep ==
  ASSUME TypeInv, [Next]_vars, NEW c \in Nodes, role'[c] = "Candidate"
  PROVE  /\ log'[c] = log[c]
         /\ \/ role[c] = "Candidate" /\ currentTerm'[c] = currentTerm[c]
            \/ StartElection(c)
<1>1. /\ TypeOK
      /\ NetTypeOK
      /\ role \in [Nodes -> {"Follower", "Candidate", "Leader"}]
      /\ currentTerm \in [Nodes -> Terms]
      /\ log \in [Nodes -> Seq(LogEntry)]
  BY TypeParts DEF TypeInv, TypeOK
<1>2. CASE UNCHANGED <<termVars, log>>
  BY <1>2 DEF termVars
<1>3. CASE DeliverMessage
  <2>1. PICK e : Delivers(e) /\ HandleMessage(e)
    BY <1>1, <1>3, DeliveredSame
  <2>2. e.to \in Nodes
    BY <2>1 DEF Delivers, EnvelopeType
  <2>3. CASE HandleRequestVote(e)
    <3> DEFINE newer == IsNewer(e.to, e.msg)
    <3>1. /\ currentTerm' = [currentTerm EXCEPT ![e.to] =
                               IF newer THEN e.msg.term ELSE currentTerm[e.to]]
          /\ role' = [role EXCEPT ![e.to] = IF newer THEN "Follower" ELSE @]
          /\ log' = log
      BY <2>3 DEF HandleRequestVote, logVars
    <3> HIDE DEF newer
    <3>2. CASE c = e.to
      <4>1. ~newer
        BY <1>1, <3>1, <3>2
      <4> QED
        BY <1>1, <3>1, <3>2, <4>1
    <3>3. CASE c # e.to
      BY <1>1, <3>1, <3>3
    <3> QED
      BY <3>2, <3>3
  <2>4. ASSUME NEW r \in {"Follower", "Leader"}, NEW t, NEW l,
               role' = [role EXCEPT ![e.to] = r],
               currentTerm' = [currentTerm EXCEPT ![e.to] = t],
               log' = [log EXCEPT ![e.to] = l]
        PROVE  /\ log'[c] = log[c]
               /\ role[c] = "Candidate"
               /\ currentTerm'[c] = currentTerm[c]
    <3>1. c # e.to
      BY <1>1, <2>2, <2>4
    <3> QED
      BY <1>1, <2>4, <3>1
  <2>5. CASE StepDown(e) \/ WinElection(e) \/ RefuseGap(e)
               \/ RefuseConflict(e) \/ Replicate(e)
    <3>1. /\ role' = [role EXCEPT ![e.to] = "Follower"]
               \/ role' = [role EXCEPT ![e.to] = "Leader"]
          /\ currentTerm' = [currentTerm EXCEPT ![e.to] = e.msg.term]
               \/ currentTerm' = currentTerm
          /\ \/ \E l : log' = [log EXCEPT ![e.to] = l]
             \/ log' = log
      BY <2>5
         DEF StepDown, WinElection, RefuseGap, RefuseConflict, Replicate,
             FollowLeader, logVars
    <3>2. PICK t : currentTerm' = [currentTerm EXCEPT ![e.to] = t]
      <4>1. currentTerm' = currentTerm
              => currentTerm' = [currentTerm EXCEPT ![e.to] = currentTerm[e.to]]
        BY <1>1
      <4> QED
        BY <3>1, <4>1
    <3>3. PICK l : log' = [log EXCEPT ![e.to] = l]
      <4>1. log' = log => log' = [log EXCEPT ![e.to] = log[e.to]]
        BY <1>1
      <4> QED
        BY <3>1, <4>1
    <3> QED
      BY <2>4, <3>1, <3>2, <3>3
  <2>6. CASE CountVote(e) \/ RejectOldLeader(e) \/ NoteReplicated(e)
               \/ BackUp(e) \/ Discard(e)
    BY <1>2, <2>6
       DEF CountVote, RejectOldLeader, NoteReplicated, BackUp, Discard,
           nodeVars, logVars
  <2> QED
    BY <2>1, <2>3, <2>5, <2>6 DEF HandleMessage
<1>4. CASE \E p \in Payloads : ProposeAccepted(p)
  <2>1. PICK p \in Payloads : ProposeAccepted(p)
    BY <1>4
  <2>2. PICK i \in Nodes : /\ role[i] = "Leader"
                           /\ UNCHANGED termVars
                           /\ log' = [log EXCEPT ![i] = Proposal(i, p)]
    BY <1>1, <2>1, ProposeQueue
  <2>3. role' = role /\ currentTerm' = currentTerm
    BY <2>2 DEF termVars
  <2>4. c # i
    BY <2>2, <2>3
  <2> QED
    BY <1>1, <2>2, <2>3, <2>4
<1>5. CASE Tick
  <2>1. PICK i \in Nodes : /\ UNCHANGED log
                           /\ StartElection(i) \/ UNCHANGED termVars
    BY <1>5, TickSends
  <2>2. CASE UNCHANGED termVars
    BY <1>2, <2>1, <2>2
  <2>3. CASE StartElection(i)
    <3>1. /\ role' = [role EXCEPT ![i] = "Candidate"]
          /\ currentTerm' = [currentTerm EXCEPT ![i] = currentTerm[i] + 1]
      BY <2>3 DEF StartElection
    <3>2. c # i => role'[c] = role[c] /\ currentTerm'[c] = currentTerm[c]
      BY <1>1, <3>1
    <3> QED
      BY <2>1, <2>3, <3>2
  <2> QED
    BY <2>1, <2>2, <2>3
<1>6. CASE \/ BeginStep \/ UNCHANGED vars \/ ChangeFaults \/ LoseMessage
           \/ \E p \in Payloads : ProposeRejected(p)
  BY <1>2, <1>6
     DEF BeginStep, ChangeFaults, LoseMessage, ProposeRejected, nodeVars,
         logVars, vars
<1> QED
  BY <1>3, <1>4, <1>5, <1>6 DEF Next

\* Who voted in a later term neither leads term t nor follows its leader in
\* the step, and what is acknowledged was there before.
LEMMA OldAcks ==
  ASSUME NEW h \in Histories, NEW g \in Histories,
         NEW a \in Acknowledgements, NEW b \in Acknowledgements,
         Before(h, a), StepOf(h, a, g, b), NEW j \in Nodes, NEW u \in Terms,
         g.ballot[j][u] # None, NEW t \in Terms, t < u
  PROVE  /\ currentTerm'[j] > t
         /\ b[j][t] = a[j][t]
         /\ a[j][t] <= Len(h.glog[t])
<1>1. /\ t \in Nat /\ u \in Nat
      /\ currentTerm'[j] \in Nat
  BY StepTypes
<1>2. ~(u > currentTerm'[j])
  BY DEF StepOf, ElectionInv, BallotsKept
<1>3. currentTerm'[j] > t
  BY <1>1, <1>2
<1> QED
  BY <1>3, AcksGrow DEF Before, AcksReal

\* A candidate elected in a step: it has what its voters acknowledged, or none
\* of them did and all have gone on.
LEMMA NewWinnerKeeps ==
  ASSUME NEW h \in Histories, NEW g \in Histories,
         NEW a \in Acknowledgements, NEW b \in Acknowledgements,
         Before(h, a), StepOf(h, a, g, b),
         NEW t \in Terms, NEW u \in Terms, NEW n \in Nat, t < u,
         Point(h, t, n), g.elected[u] # None, h.elected[u] = None
  PROVE  Keeps(g.glog[u], h, a, t, n) \/ RuledOut(b, t, n)'
<1>1. PICK e : /\ Delivers(e)
               /\ WinElection(e)
               /\ e.to = g.elected[u]
               /\ currentTerm[e.to] = u
  BY DEF StepOf, Follows
<1>2. PICK w : w = e.to
  OBVIOUS
<1>3. /\ TypeOK
      /\ t \in Nat /\ u \in Nat
      /\ w \in Nodes
  BY <1>1, <1>2, StepTypes DEF Delivers, EnvelopeType
<1>4. /\ role[w] = "Candidate"
      /\ role'[w] = "Leader"
      /\ currentTerm'[w] = u
      /\ log'[w] = log[w]
  <2>1. /\ role' = [role EXCEPT ![w] = "Leader"]
        /\ currentTerm' = currentTerm
        /\ log' = log
        /\ role[w] = "Candidate"
    BY <1>1, <1>2 DEF WinElection, CountsVote, logVars
  <2> QED
    BY <1>1, <1>2, <1>3, <2>1 DEF TypeOK
<1>5. g.glog[u] = log[w]
  BY <1>3, <1>4 DEF StepOf, LogsMatched
<1> DEFINE V == {j \in Nodes : g.ballot[j][u] = w}
<1>6. Cardinality(V) >= Majority
  BY <1>1, <1>2, <1>3 DEF StepOf, ElectionInv, ElectedByMajority
<1>7. ASSUME NEW j \in Nodes, g.ballot[j][u] = w
      PROVE  /\ h.ballot[j][u] = w
             /\ currentTerm'[j] > t
             /\ b[j][t] = a[j][t]
  <2>1. ~Casts(j, u, w)
    <3>1. ~StartElection(j)
      BY <1>1 DEF StartElection, TickTurn, Delivers
    <3>2. ~\E f : Delivers(f) /\ HandleRequestVote(f)
      BY <1>1 DEF Delivers, HandleRequestVote, WinElection, CountsVote
    <3> QED
      BY <3>1, <3>2 DEF Casts
  <2>2. h.ballot[j][u] = w
    BY <1>7, <2>1 DEF StepOf, Follows, VotesCast
  <2>3. g.ballot[j][u] # None
    BY <1>3, <1>7, RaftAssumption
  <2> QED
    BY <2>2, <2>3, OldAcks
<1>8. CASE \E j \in Nodes : g.ballot[j][u] = w /\ a[j][t] >= n
  <2>1. PICK j \in Nodes : g.ballot[j][u] = w /\ a[j][t] >= n
    BY <1>8
  <2>2. h.ballot[j][currentTerm[w]] = w
    BY <1>1, <1>2, <1>7, <2>1
  <2>3. n <= a[j][t]
    BY <2>1, StepTypes
  <2>4. t < currentTerm[w]
    BY <1>1, <1>2
  <2>5. Keeps(log[w], h, a, t, n)
    BY <1>3, <1>4, <2>2, <2>3, <2>4 DEF Before, CandidatesKeep
  <2> QED
    BY <1>5, <2>5
<1>9. CASE \A j \in Nodes : g.ballot[j][u] = w => ~(a[j][t] >= n)
  <2> DEFINE T == {j \in Nodes : currentTerm'[j] > t /\ b[j][t] < n}
  <2>1. ASSUME NEW j \in Nodes, j \in V
        PROVE  j \in T
    <3>1. a[j][t] \in Nat
      BY StepTypes
    <3> QED
      BY <1>7, <1>9, <2>1, <3>1
  <2>2. V \in SUBSET Nodes /\ T \in SUBSET Nodes /\ V \subseteq T
    BY <2>1
  <2> HIDE DEF V, T
  <2>3. Cardinality(T) >= Majority
    BY <1>6, <2>2, LargerMajority
  <2> QED
    BY <2>3 DEF T, RuledOut
<1> QED
  BY <1>8, <1>9

\* An entry that a leader appends after a later election is ruled out: the
\* voters of that election have gone on.
LEMMA NewPointRuledOut ==
  ASSUME NEW h \in Histories, NEW g \in Histories,
         NEW a \in Acknowledgements, NEW b \in Acknowledgements,
         Before(h, a), StepOf(h, a, g, b),
         NEW t \in Terms, NEW u \in Terms, NEW n \in Nat, t < u,
         g.elected[u] # None, n > Len(h.glog[t])
  PROVE  RuledOut(b, t, n)'
<1>1. PICK w \in Nodes : g.elected[u] = w
  BY HistoryTypes
<1> DEFINE V == {j \in Nodes : g.ballot[j][u] = w}
           T == {j \in Nodes : currentTerm'[j] > t /\ b[j][t] < n}
<1>2. Cardinality(V) >= Majority
  BY <1>1 DEF StepOf, ElectionInv, ElectedByMajority
<1>3. ASSUME NEW j \in Nodes, j \in V
      PROVE  j \in T
  <2>1. g.ballot[j][u] # None
    BY <1>3, RaftAssumption
  <2>2. currentTerm'[j] > t /\ b[j][t] = a[j][t] /\ a[j][t] <= Len(h.glog[t])
    BY <2>1, OldAcks
  <2>3. a[j][t] \in Nat /\ Len(h.glog[t]) \in Nat
    BY StepTypes, LeadersLogs
  <2>4. b[j][t] < n
    BY <2>2, <2>3
  <2> QED
    BY <2>2, <2>4
<1>4. V \in SUBSET Nodes /\ T \in SUBSET Nodes /\ V \subseteq T
  BY <1>3
<1> HIDE DEF V, T
<1>5. Cardinality(T) >= Majority
  BY <1>2, <1>4, LargerMajority
<1> QED
  BY <1>5 DEF T, RuledOut

LEMMA WinnersKeepStep ==
  ASSUME NEW h \in Histories, NEW g \in Histories,
         NEW a \in Acknowledgements, NEW b \in Acknowledgements,
         Before(h, a), StepOf(h, a, g, b)
  PROVE  WinnersKeep(g, b)'
<1> SUFFICES ASSUME NEW t \in Terms, NEW u \in Terms, NEW n \in Nat,
                    t < u, g.elected[u] # None, Point(g, t, n)
             PROVE  Keeps(g.glog[u], g, b, t, n)'
  BY DEF WinnersKeep, Point
<1>1. Continues(h, g)
  BY StepTypes
<1>2. Len(h.glog[t]) \in Nat
  BY LeadersLogs
<1>3. CASE n > Len(h.glog[t])
  BY <1>3, NewPointRuledOut DEF Keeps
<1>4. CASE n <= Len(h.glog[t])
  <2>1. Point(h, t, n)
    BY <1>1, <1>4, OldPoint
  <2>2. CASE h.elected[u] = None
    <3>1. Keeps(g.glog[u], h, a, t, n) \/ RuledOut(b, t, n)'
      BY <2>1, <2>2, NewWinnerKeeps
    <3>2. Holds(g.glog[u], g.glog[t], n) \/ RuledOut(b, t, n)'
      BY <2>1, <3>1, KeepsStays
    <3> QED
      BY <3>2 DEF Keeps
  <2>3. CASE h.elected[u] # None
    <3>1. Keeps(h.glog[u], h, a, t, n)
      BY <2>1, <2>3 DEF Before, WinnersKeep
    <3>2. Holds(h.glog[u], g.glog[t], n) \/ RuledOut(b, t, n)'
      BY <2>1, <3>1, KeepsStays
    <3>3. Holds(h.glog[u], g.glog[t], n) => Holds(g.glog[u], g.glog[t], n)
      BY <1>1 DEF Holds, Continues
    <3> QED
      BY <3>2, <3>3 DEF Keeps
  <2> QED
    BY <2>2, <2>3
<1> QED
  BY <1>2, <1>3, <1>4

\* Terms do not go back along a log, from any place to any later one.
LEMMA OrderedTerms ==
  ASSUME NEW l \in Seq(LogEntry), NEW t, Ordered(l, t),
         NEW i \in DOMAIN l, NEW k \in DOMAIN l, i <= k
  PROVE  l[i].term <= l[k].term
<1>1. /\ Len(l) \in Nat
      /\ DOMAIN l = 1 .. Len(l)
      /\ \A n \in 1 .. Len(l) : l[n].term \in Nat
  BY EntryTerms
<1> DEFINE G == {d \in Nat : i + d <= Len(l) => l[i].term <= l[i + d].term}
<1>2. 0 \in G
  BY <1>1
<1>3. ASSUME NEW d \in Nat, d \in G
      PROVE  d + 1 \in G
  <2>1. CASE i + (d + 1) <= Len(l)
    <3>1. i + d \in DOMAIN l /\ i + (d + 1) \in DOMAIN l
      BY <1>1, <2>1
    <3>2. l[i].term <= l[i + d].term
      BY <1>1, <1>3, <3>1
    <3>3. PICK n : n = i + (d + 1)
      OBVIOUS
    <3>4. n \in DOMAIN l /\ n > 1 /\ n - 1 = i + d
      BY <1>1, <3>1, <3>3
    <3>5. l[n - 1].term <= l[n].term
      BY <3>4 DEF Ordered
    <3>6. PICK u, v, w \in Nat :
            u = l[i].term /\ v = l[i + d].term /\ w = l[n].term
      BY <1>1, <3>1, <3>4
    <3>7. u <= w
      BY <3>2, <3>4, <3>5, <3>6
    <3> QED
      BY <3>3, <3>6, <3>7
  <2>2. CASE ~(i + (d + 1) <= Len(l))
    BY <2>2
  <2> QED
    BY <2>1, <2>2
<1>4. Nat \subseteq G
  <2> HIDE DEF G
  <2> QED
    BY <1>2, <1>3, NumberInduction
<1>5. k - i \in Nat /\ i + (k - i) = k /\ k <= Len(l)
  BY <1>1
<1>6. k - i \in G
  BY <1>4, <1>5
<1> QED
  BY <1>5, <1>6

\* A log at least as up to date as one that keeps what may have been chosen
\* keeps it too.
LEMMA UpToDateKeeps ==
  ASSUME TypeOK, NEW h \in Histories, NEW a \in Acknowledgements,
         Before(h, a), NEW c \in Nodes, NEW j \in Nodes,
         NEW m, m.lastLogTerm = LastTerm(log[c]),
         m.lastLogIndex = Len(log[c]), UpToDate(j, m),
         NEW t \in Terms, NEW n \in Nat, Point(h, t, n),
         Keeps(log[j], h, a, t, n)
  PROVE  Keeps(log[c], h, a, t, n)
<1> SUFFICES ASSUME ~RuledOut(a, t, n)
             PROVE  Holds(log[c], h.glog[t], n)
  BY DEF Keeps
<1>1. PICK l, q : l = log[c] /\ q = log[j]
  OBVIOUS
<1>2. /\ l \in Seq(LogEntry) /\ Len(l) \in Nat /\ DOMAIN l = 1 .. Len(l)
      /\ q \in Seq(LogEntry) /\ Len(q) \in Nat /\ DOMAIN q = 1 .. Len(q)
      /\ t \in Nat
  BY <1>1, NodeLogs, TermsAreNumbers
<1>3. /\ LogsMatched(h)
      /\ ElectionsBegin(h)
      /\ WinnersKeep(h, a)
      /\ Ordered(q, currentTerm[j])
      /\ Matched(l, h)
  BY <1>1 DEF Before, LogInv, LogsOrdered, LogsMatched
<1>4. Holds(q, h.glog[t], n)
  BY <1>1 DEF Keeps
<1>5. /\ n \in DOMAIN q
      /\ q[n].term = t
      /\ n > 0
      /\ t > 0
  <2>1. /\ n \in 1 .. Len(h.glog[t])
        /\ h.glog[t][n].term = t
    BY LeadersLogs DEF Point
  <2>2. n \in DOMAIN q /\ q[n] = h.glog[t][n]
    BY <1>4, <2>1 DEF Holds
  <2>3. t # 0
    <3> SUFFICES ASSUME t = 0 PROVE FALSE
      OBVIOUS
    <3>1. h.glog[0] = <<>>
      BY <1>3 DEF ElectionsBegin, LogsMatched
    <3> QED
      BY <3>1 DEF Point
  <2> QED
    BY <1>2, <2>1, <2>2, <2>3
<1>6. /\ q # <<>>
      /\ n <= Len(q)
      /\ LastTerm(q) \in Nat
      /\ t <= LastTerm(q)
  <2>1. Len(q) \in DOMAIN q /\ n <= Len(q)
    BY <1>2, <1>5
  <2>2. q # <<>>
    BY <1>5
  <2>3. q[n].term <= q[Len(q)].term
    BY <1>2, <1>3, <1>5, <2>1, OrderedTerms
  <2>4. q[Len(q)].term \in Nat
    BY <1>2, <2>1, EntryTerms
  <2> QED
    BY <1>5, <2>1, <2>2, <2>3, <2>4 DEF LastTerm
<1>7. \/ LastTerm(l) > LastTerm(q)
      \/ LastTerm(l) = LastTerm(q) /\ Len(l) >= Len(q)
  BY <1>1 DEF UpToDate
<1>8. l # <<>>
  <2> SUFFICES ASSUME l = <<>> PROVE FALSE
    OBVIOUS
  <2>1. LastTerm(l) = 0
    BY DEF LastTerm
  <2> QED
    BY <1>2, <1>5, <1>6, <1>7, <2>1
<1>9. PICK v : v = LastTerm(l)
  OBVIOUS
<1>10. /\ Len(l) \in DOMAIN l
       /\ l[Len(l)].term = v
       /\ v \in Terms
       /\ v \in Nat
       /\ Len(l) > 0
  <2>1. Len(l) # 0
    BY <1>2, <1>8, EmptySeq
  <2>2. Len(l) \in DOMAIN l
    BY <1>2, <2>1
  <2>3. l[Len(l)] \in LogEntry
    BY <1>2, <2>2, EntryTerms
  <2>4. l[Len(l)].term \in Terms
    BY <2>3 DEF LogEntry
  <2>5. v = l[Len(l)].term
    BY <1>8, <1>9 DEF LastTerm
  <2> QED
    BY <1>2, <2>1, <2>2, <2>4, <2>5, TermsAreNumbers
<1>11. PICK g : g = h.glog[v]
  OBVIOUS
<1>12. /\ g \in Seq(LogEntry) /\ Len(g) \in Nat /\ DOMAIN g = 1 .. Len(g)
       /\ Len(l) \in DOMAIN g
       /\ \A k \in 1 .. Len(l) : l[k] = g[k]
       /\ g[Len(l)].term = v
  <2>1. g \in Seq(LogEntry) /\ Len(g) \in Nat /\ DOMAIN g = 1 .. Len(g)
    BY <1>10, <1>11, LeadersLogs
  <2>2. Len(l) \in DOMAIN g /\ \A k \in 1 .. Len(l) : l[k] = g[k]
    BY <1>3, <1>10, <1>11 DEF Matched
  <2> QED
    BY <1>2, <1>10, <2>1, <2>2
<1>13. t <= v
  BY <1>2, <1>6, <1>7, <1>9, <1>10
<1>14. CASE v = t
  <2>1. n <= Len(l)
    BY <1>2, <1>5, <1>6, <1>7, <1>9, <1>10, <1>14
  <2>2. Holds(l, g, n)
    BY <1>2, <1>12, <2>1 DEF Holds
  <2> QED
    BY <1>1, <1>11, <1>14, <2>2
<1>15. CASE t < v
  <2>1. g # <<>>
    BY <1>12
  <2>2. h.elected[v] # None
    BY <1>3, <1>10, <1>11, <2>1 DEF LogsMatched
  <2>3. Holds(g, h.glog[t], n)
    BY <1>3, <1>10, <1>11, <1>15, <2>2 DEF WinnersKeep, Keeps
  <2>4. n <= Len(l)
    <3> SUFFICES ASSUME Len(l) < n PROVE FALSE
      BY <1>2
    <3>1. n \in DOMAIN g /\ g[n] = h.glog[t][n]
      BY <1>5, <2>3 DEF Holds
    <3>2. Ordered(g, v)
      BY <1>3, <1>10, <1>11 DEF ElectionsBegin
    <3>3. Len(l) <= n
      BY <1>2
    <3>4. g[Len(l)].term <= g[n].term
      BY <1>12, <3>1, <3>2, <3>3, OrderedTerms
    <3>5. g[n].term = t
      BY <3>1 DEF Point
    <3> QED
      BY <1>2, <1>10, <1>12, <1>15, <3>4, <3>5
  <2>5. \A k \in 1 .. n : k \in DOMAIN l /\ l[k] = g[k]
    BY <1>2, <1>12, <2>4
  <2>6. Holds(l, h.glog[t], n)
    BY <2>3, <2>5 DEF Holds
  <2> QED
    BY <1>1, <2>6
<1> QED
  BY <1>2, <1>10, <1>13, <1>14, <1>15

LEMMA CandidatesKeepStep ==
  ASSUME NEW h \in Histories, NEW g \in Histories,
         NEW a \in Acknowledgements, NEW b \in Acknowledgements,
         Before(h, a), StepOf(h, a, g, b)
  PROVE  CandidatesKeep(g, b)'
<1> SUFFICES ASSUME NEW c \in Nodes, NEW j \in Nodes,
                    NEW t \in Terms, NEW n \in Nat,
                    role'[c] = "Candidate",
                    g.ballot[j][currentTerm'[c]] = c,
                    t < currentTerm'[c], n <= b[j][t], Point(g, t, n)
             PROVE  Keeps(log[c], g, b, t, n)'
  BY DEF CandidatesKeep, Point
<1>1. /\ TypeInv
      /\ TypeOK
      /\ TypeOK'
      /\ [Next]_vars
      /\ Continues(h, g)
      /\ t \in Nat
      /\ a[j][t] \in Nat
  BY StepTypes
<1>2. PICK u \in Terms : u = currentTerm'[c]
  BY <1>1 DEF TypeOK
<1>3. b[j][t] = a[j][t] /\ a[j][t] <= Len(h.glog[t])
  <2>1. g.ballot[j][u] # None
    BY <1>2, RaftAssumption
  <2> QED
    BY <1>2, <2>1, OldAcks
<1>4. Point(h, t, n)
  <2>1. Len(h.glog[t]) \in Nat
    BY LeadersLogs
  <2>2. n <= Len(h.glog[t])
    BY <1>1, <1>3, <2>1
  <2> QED
    BY <1>1, <2>2, OldPoint
<1>5. Keeps(log[j], h, a, t, n)
  BY <1>3, <1>4 DEF Before, AcksKept
<1>6. /\ log'[c] = log[c]
      /\ \/ role[c] = "Candidate" /\ currentTerm'[c] = currentTerm[c]
         \/ StartElection(c)
  BY <1>1, CandidatesStep
<1>7. h.ballot[j][u] = c \/ Casts(j, u, c)
  BY <1>2 DEF StepOf, Follows, VotesCast
<1>8. SUFFICES Keeps(log[c], h, a, t, n)
  <2>1. Keeps(log'[c], h, a, t, n)
    BY <1>6, <1>8
  <2>2. Holds(log'[c], g.glog[t], n) \/ RuledOut(b, t, n)'
    BY <1>4, <2>1, KeepsStays
  <2> QED
    BY <2>2 DEF Keeps
<1>9. CASE c = j
  BY <1>5, <1>9
<1>10. CASE StartElection(c) /\ c # j
  <2>1. currentTerm'[c] = currentTerm[c] + 1
    BY <1>1, <1>10 DEF StartElection, TypeOK
  <2>2. currentTerm[c] \in Nat
    BY <1>1, TermsAreNumbers
  <2>3. h.ballot[j][u] # c
    <3> SUFFICES ASSUME h.ballot[j][u] = c PROVE FALSE
      OBVIOUS
    <3>1. u <= currentTerm[c]
      BY DEF Before, ElectionsBegin
    <3> QED
      BY <1>2, <2>1, <2>2, <3>1
  <2>4. PICK e : Delivers(e)
    BY <1>7, <1>10, <2>3 DEF Casts
  <2> QED
    BY <1>10, <2>4 DEF Delivers, StartElection, TickTurn
<1>11. CASE /\ role[c] = "Candidate"
            /\ currentTerm'[c] = currentTerm[c]
            /\ c # j
  <2>1. CASE h.ballot[j][u] = c
    BY <1>2, <1>3, <1>4, <1>11, <2>1 DEF Before, CandidatesKeep
  <2>2. CASE Casts(j, u, c)
    <3>1. PICK e : /\ Delivers(e)
                   /\ HandleRequestVote(e)
                   /\ e.to = j
                   /\ e.from = c
                   /\ Grants(j, e.msg)
      BY <1>11, <2>2 DEF Casts
    <3>2. /\ Queue[1].from = c
          /\ e.msg = Queue[1].msg
          /\ Queue[1].msg.type = "RequestVote"
          /\ 1 \in DOMAIN Queue
      BY <3>1 DEF Delivers, HandleRequestVote
    <3>3. /\ e.msg.lastLogIndex = Len(log[c])
          /\ e.msg.lastLogTerm = LastTerm(log[c])
      BY <1>11, <3>2 DEF Before, QueueFits, RequestFits
    <3>4. UpToDate(j, e.msg)
      BY <3>1 DEF Grants
    <3> QED
      BY <1>1, <1>4, <1>5, <3>3, <3>4, UpToDateKeeps
  <2> QED
    BY <1>7, <2>1, <2>2
<1> QED
  BY <1>6, <1>9, <1>10, <1>11

LEMMA ElectionsBeginStep ==
  ASSUME NEW h \in Histories, NEW g \in Histories,
         NEW a \in Acknowledgements, NEW b \in Acknowledgements,
         Before(h, a), StepOf(h, a, g, b)
  PROVE  ElectionsBegin(g)'
<1>1. TypeInv /\ TypeOK /\ TypeOK' /\ [Next]_vars
  BY StepTypes
<1>2. g.elected[0] = None
  <2> SUFFICES ASSUME g.elected[0] # None PROVE FALSE
    OBVIOUS
  <2>1. 0 \in Terms
    BY RaftAssumption DEF Terms
  <2>2. h.elected[0] = None
    BY DEF Before, ElectionsBegin
  <2>3. PICK e : /\ Delivers(e)
                 /\ WinElection(e)
                 /\ currentTerm[e.to] = 0
    BY <2>1, <2>2 DEF StepOf, Follows
  <2>4. e.to \in Nodes /\ role[e.to] = "Candidate"
    BY <2>3 DEF Delivers, EnvelopeType, WinElection, CountsVote
  <2>5. currentTerm[e.to] > 0
    BY <2>4 DEF Before, ElectionsBegin
  <2> QED
    BY <2>3, <2>5
<1>3. ASSUME NEW i \in Nodes, role'[i] = "Candidate"
      PROVE  currentTerm'[i] > 0
  <2>1. currentTerm[i] \in Nat
    BY <1>1, TermsAreNumbers
  <2>2. CASE role[i] = "Candidate" /\ currentTerm'[i] = currentTerm[i]
    BY <2>2 DEF Before, ElectionsBegin
  <2>3. CASE StartElection(i)
    <3>1. currentTerm'[i] = currentTerm[i] + 1
      BY <1>1, <2>3 DEF StartElection, TypeOK
    <3> QED
      BY <2>1, <3>1
  <2> QED
    BY <1>1, <1>3, <2>2, <2>3, CandidatesStep
<1>4. ASSUME NEW j \in Nodes, NEW c \in Nodes, NEW t \in Terms,
             g.ballot[j][t] = c
      PROVE  t <= currentTerm'[c]
  <2>1. /\ t \in Nat
        /\ currentTerm[c] \in Nat /\ currentTerm'[c] \in Nat
        /\ currentTerm'[c] >= currentTerm[c]
    BY StepTypes
  <2>2. CASE h.ballot[j][t] = c
    <3>1. t <= currentTerm[c]
      BY <2>2 DEF Before, ElectionsBegin
    <3> QED
      BY <2>1, <3>1
  <2>3. CASE Casts(j, t, c)
    <3>1. CASE c = j
      BY <2>1, <2>3, <3>1 DEF Casts
    <3>2. CASE c # j
      <4>1. PICK e : /\ Delivers(e)
                     /\ HandleRequestVote(e)
                     /\ e.from = c
                     /\ e.msg.term = t
        BY <2>3, <3>2 DEF Casts
      <4>2. /\ Queue[1].from = c
            /\ e.msg = Queue[1].msg
            /\ Queue[1].msg.type = "RequestVote"
            /\ 1 \in DOMAIN Queue
        BY <4>1 DEF Delivers, HandleRequestVote
      <4>3. t <= currentTerm[c]
        BY <4>1, <4>2 DEF Before, QueueFits, RequestFits
      <4> QED
        BY <2>1, <4>3
    <3> QED
      BY <3>1, <3>2
  <2> QED
    BY <1>4, <2>2, <2>3 DEF StepOf, Follows, VotesCast
<1>5. ASSUME NEW t \in Terms
      PROVE  Ordered(g.glog[t], t)
  <2>1. CASE g.glog[t] = h.glog[t]
    BY <2>1 DEF Before, ElectionsBegin
  <2>2. CASE g.glog[t] # h.glog[t]
    <3>1. PICK i \in Nodes : role'[i] = "Leader" /\ currentTerm'[i] = t
      BY <2>2 DEF StepOf, Follows
    <3>2. g.glog[t] = log'[i]
      BY <3>1 DEF StepOf, LogsMatched
    <3>3. Ordered(log'[i], t)
      BY <3>1 DEF StepOf, LogInv, LogsOrdered
    <3> QED
      BY <3>2, <3>3
  <2> QED
    BY <2>1, <2>2
<1> QED
  BY <1>2, <1>3, <1>4, <1>5 DEF ElectionsBegin

-----------------------------------------------------------------------------
(* What is acknowledged, and what is under way *)

LEMMA AcksRealStep ==
  ASSUME NEW h \in Histories, NEW g \in Histories,
         NEW a \in Acknowledgements, NEW b \in Acknowledgements,
         Before(h, a), StepOf(h, a, g, b)
  PROVE  AcksReal(g, b)' /\ LeadersAck(b)'
<1>1. AcksReal(g, b)'
  BY AcksGrow DEF AcksReal
<1>2. ASSUME NEW i \in Nodes, role'[i] = "Leader"
      PROVE  b[i][currentTerm'[i]] = Len(log'[i])
  <2>1. PICK t \in Terms : t = currentTerm'[i]
    BY StepTypes DEF TypeOK
  <2>2. g.glog[t] = log'[i]
    BY <1>2, <2>1 DEF StepOf, LogsMatched
  <2>3. Acknowledges(i, t)
    BY <1>2, <2>1 DEF Acknowledges
  <2>4. b[i][t] = Len(g.glog[t])
    BY <2>3 DEF StepOf
  <2> QED
    BY <2>1, <2>2, <2>4
<1> QED
  BY <1>1, <1>2 DEF LeadersAck

\* A node stands in its turn of a tick.
LEMMA StandsInTick ==
  ASSUME TypeInv, [Next]_vars, NEW i \in Nodes, StartElection(i)
  PROVE  Tick /\ i = ticking /\ log' = log
<1>1. /\ i = ticking
      /\ log' = log
      /\ inflight = <<>>
      /\ currentTerm' # currentTerm
  <2>1. /\ i = ticking
        /\ log' = log
        /\ inflight = <<>>
        /\ currentTerm' = [currentTerm EXCEPT ![i] = currentTerm[i] + 1]
    BY DEF StartElection, TickTurn, logVars
  <2>2. currentTerm \in [Nodes -> Nat]
    BY TermsAreNumbers DEF TypeInv
  <2> QED
    BY <2>1, <2>2
<1>2. ~DeliverMessage
  BY <1>1 DEF DeliverMessage, Deliverable
<1>3. ~UNCHANGED termVars
  BY <1>1 DEF termVars
<1>4. \A p \in Payloads : ~ProposeAccepted(p) /\ ~ProposeRejected(p)
  BY <1>3 DEF ProposeAccepted, ProposeRejected, nodeVars
<1>5. ~BeginStep /\ ~LoseMessage /\ ~ChangeFaults /\ ~UNCHANGED vars
  BY <1>3 DEF BeginStep, LoseMessage, ChangeFaults, nodeVars, vars
<1> QED
  BY <1>1, <1>2, <1>4, <1>5 DEF Next

\* Who does not follow after a step did not before, in the same term, or has
\* just begun to stand.
LEMMA NotFollowerStep ==
  ASSUME TypeInv, TypeOK', [Next]_vars, NEW i \in Nodes,
         role'[i] # "Follower"
  PROVE  \/ role[i] # "Follower" /\ currentTerm'[i] = currentTerm[i]
         \/ StartElection(i)
<1>1. CASE role'[i] = "Candidate"
  BY <1>1, CandidatesStep
<1>2. CASE role'[i] = "Leader"
  <2>1. CASE \E e : Delivers(e) /\ WinElection(e) /\ e.to = i
    BY <2>1 DEF WinElection, CountsVote
  <2> QED
    BY <1>2, <2>1, LeadersStep
<1> QED
  BY <1>1, <1>2 DEF TypeOK

LEMMA CommittedStays ==
  ASSUME NEW h \in Histories, NEW g \in Histories,
         NEW a \in Acknowledgements, NEW b \in Acknowledgements,
         Before(h, a), StepOf(h, a, g, b),
         NEW t, NEW c, Committed(h, a, t, c)
  PROVE  Committed(g, b, t, c)
BY ChosenStays DEF Committed

\* What is under way stays true.
LEMMA FitsStays ==
  ASSUME MaxPending = 0, NEW h \in Histories, NEW g \in Histories,
         NEW a \in Acknowledgements, NEW b \in Acknowledgements,
         Before(h, a), StepOf(h, a, g, b),
         NEW k \in DOMAIN Queue, NEW x, x = Queue[k]
  PROVE  /\ x.from # x.to
         /\ RequestFits(x)'
         /\ EntriesFit(x, g, b)'
         /\ AnswerFits(x, g, b)'
<1>1. /\ TypeInv
      /\ TypeOK
      /\ TypeOK'
      /\ NetTypeOK
      /\ [Next]_vars
      /\ Continues(h, g)
  BY StepTypes
<1>2. x = Queue[k] /\ k \in DOMAIN Queue
  OBVIOUS
<1>3. x \in EnvelopeType
  <2>1. Queue \in Seq(EnvelopeType)
    BY <1>1, ConcatProperties DEF NetTypeOK, Queue
  <2> QED
    BY <1>2, <2>1, ElementOfSeq, LenProperties
<1>4. x.from \in Nodes /\ x.to \in Nodes /\ x.msg \in Message
      /\ x.msg.term \in Terms
  BY <1>3, MessageFields DEF EnvelopeType
<1>5. /\ x.from # x.to
      /\ RequestFits(x)
      /\ EntriesFit(x, h, a)
      /\ AnswerFits(x, h, a)
      /\ Segment(x.msg, h)
  BY <1>2 DEF Before, QueueFits, LogsMatched
<1>6. ~StartElection(x.from)
  <2> SUFFICES ASSUME StartElection(x.from) PROVE FALSE
    OBVIOUS
  <2>1. Tick /\ x.from = ticking
    BY <1>1, <1>4, StandsInTick
  <2>2. x.from < ticking
    BY <1>1, <1>2, <2>1, TickFinds DEF Before, NetElectionInv
  <2> QED
    BY <1>4, <2>1, <2>2, SizeAssumption DEF Nodes
<1>7. role'[x.from] # "Follower" =>
        /\ role[x.from] # "Follower"
        /\ currentTerm'[x.from] = currentTerm[x.from]
  BY <1>1, <1>4, <1>6, NotFollowerStep
<1>8. RequestFits(x)'
  <2> SUFFICES ASSUME x.msg.type = "RequestVote"
               PROVE  /\ x.msg.term <= currentTerm'[x.from]
                      /\ role'[x.from] = "Candidate" =>
                           /\ x.msg.lastLogIndex = Len(log'[x.from])
                           /\ x.msg.lastLogTerm = LastTerm(log'[x.from])
    BY DEF RequestFits
  <2>1. x.msg.term <= currentTerm'[x.from]
    <3>1. x.msg.term <= currentTerm[x.from]
      BY <1>5 DEF RequestFits
    <3>2. /\ x.msg.term \in Nat
          /\ currentTerm[x.from] \in Nat /\ currentTerm'[x.from] \in Nat
          /\ currentTerm'[x.from] >= currentTerm[x.from]
      BY <1>4, StepTypes
    <3> QED
      BY <3>1, <3>2
  <2>2. ASSUME role'[x.from] = "Candidate"
        PROVE  role[x.from] = "Candidate" /\ log'[x.from] = log[x.from]
    BY <1>1, <1>4, <1>6, <2>2, CandidatesStep
  <2> QED
    BY <1>5, <2>1, <2>2 DEF RequestFits
<1>9. EntriesFit(x, g, b)'
  <2> SUFFICES ASSUME x.msg.type = "AppendEntries"
               PROVE  EntriesFit(x, g, b)'
    BY DEF EntriesFit
  <2>1. h.elected[x.msg.term] # None /\ DOMAIN Queue # {}
    BY <1>5 DEF Segment
  <2>2. g.glog[x.msg.term] = h.glog[x.msg.term]
    BY <1>4, <2>1, SameLeadersLog
  <2>3. Whole(x.msg, g)
    BY <1>5, <2>2 DEF EntriesFit, Whole
  <2>4. Committed(g, b, x.msg.term, x.msg.leaderCommit)
    BY <1>5, CommittedStays DEF EntriesFit
  <2>5. role'[x.from] # "Follower" => x.msg.term = currentTerm'[x.from]
    BY <1>5, <1>7 DEF EntriesFit
  <2> QED
    BY <2>3, <2>4, <2>5 DEF EntriesFit
<1>10. AnswerFits(x, g, b)'
  <2> SUFFICES ASSUME x.msg.type = "AppendEntriesResponse", x.msg.success
               PROVE  AnswerFits(x, g, b)'
    BY DEF AnswerFits
  <2>1. /\ role[x.to] # "Follower" => x.msg.term = currentTerm[x.to]
        /\ h.elected[x.msg.term] # None
        /\ a[x.from][x.msg.term] = Len(h.glog[x.msg.term])
    BY <1>5 DEF AnswerFits
  <2>2. ~StartElection(x.to)
    <3> SUFFICES ASSUME StartElection(x.to) PROVE FALSE
      OBVIOUS
    <3>1. Tick
      BY <1>1, <1>4, StandsInTick
    <3>2. x.msg.type \in {"RequestVote", "AppendEntries"}
      BY <1>1, <1>2, <3>1, TickFinds DEF Before, NetElectionInv
    <3> QED
      BY <3>2
  <2>3. role'[x.to] # "Follower" => x.msg.term = currentTerm'[x.to]
    BY <1>1, <1>4, <2>1, <2>2, NotFollowerStep
  <2>4. g.elected[x.msg.term] # None
    BY <1>1, <1>4, <2>1 DEF Continues
  <2>5. g.glog[x.msg.term] = h.glog[x.msg.term]
    BY <1>4, <2>1, SameLeadersLog
  <2>6. b[x.from][x.msg.term] = Len(g.glog[x.msg.term])
    <3>1. /\ a[x.from][x.msg.term] <= b[x.from][x.msg.term]
          /\ b[x.from][x.msg.term] <= Len(g.glog[x.msg.term])
      BY <1>4, AcksGrow
    <3>2. b[x.from][x.msg.term] \in Nat /\ Len(g.glog[x.msg.term]) \in Nat
      BY <1>4, StepTypes, LeadersLogs
    <3> QED
      BY <2>1, <2>5, <3>1, <3>2
  <2> QED
    BY <2>3, <2>4, <2>6 DEF AnswerFits
<1> QED
  BY <1>5, <1>8, <1>9, <1>10

\* What a leader builds of its log goes to its end.
LEMMA BuildWhole ==
  ASSUME NEW h, NEW i \in Nodes, NEW l \in Seq(LogEntry),
         NEW next \in Nat \ {0}, NEW commit, h.glog[currentTerm[i]] = l
  PROVE  LET m == BuildAppendEntries(i, l, next, commit) IN
           /\ Whole(m, h)
           /\ m.type = "AppendEntries"
           /\ m.term = currentTerm[i]
           /\ m.leaderCommit = commit
<1> DEFINE es == SubSeq(l, next, Len(l))
           prevTerm == IF next - 1 \in DOMAIN l THEN l[next - 1].term ELSE 0
           m == BuildAppendEntries(i, l, next, commit)
<1>1. /\ m.type = "AppendEntries"
      /\ m.prevLogIndex = next - 1
      /\ m.prevLogTerm = prevTerm
      /\ m.entries = es
      /\ m.term = currentTerm[i]
      /\ m.leaderCommit = commit
  BY DEF BuildAppendEntries, AppendEntriesMsg
<1>2. Len(l) \in Nat /\ DOMAIN l = 1 .. Len(l)
  BY EntryTerms
<1>3. /\ es \in Seq(LogEntry)
      /\ Len(es) = IF next <= Len(l) THEN Len(l) - next + 1 ELSE 0
  BY SuffixType
<1> HIDE DEF m, es
<1>4. DOMAIN es = 1 .. Len(es)
  BY <1>3, EntryTerms
<1>5. ASSUME NEW k \in Nat \ {0}, (next - 1) + k \in DOMAIN l
      PROVE  k \in DOMAIN es
  BY <1>2, <1>3, <1>4, <1>5
<1>6. Whole(m, h)
  BY <1>1, <1>5 DEF Whole
<1> QED
  BY <1>1, <1>6 DEF m

\* A message that is delivered was sent as it is.
LEMMA DeliveredAsSent ==
  ASSUME NetTypeOK, NeverEquivocates = Nodes, NEW e, Delivers(e),
         e = [Head(inflight) EXCEPT !.msg = Tampered(Head(inflight))]
  PROVE  e.msg = Queue[1].msg
<1>1. Queue[1] \in EnvelopeType
  <2>1. Queue \in Seq(EnvelopeType)
    BY ConcatProperties DEF NetTypeOK, Queue
  <2> QED
    BY <2>1, ElementOfSeq, LenProperties DEF Delivers
<1>2. Queue[1] = Head(inflight)
  BY DEF Delivers
<1>3. Tampered(Head(inflight)) = Head(inflight).msg
  BY <1>1, <1>2, TamperedNothing
<1>4. Head(inflight) \in EnvelopeType
  BY <1>1, <1>2
<1>5. e.msg = Tampered(Head(inflight))
  BY <1>4 DEF EnvelopeType
<1> QED
  BY <1>2, <1>3, <1>5

\* What is sent is true when it is.
LEMMA NewFits ==
  ASSUME NeverEquivocates = Nodes, NEW h \in Histories, NEW g \in Histories,
         NEW a \in Acknowledgements, NEW b \in Acknowledgements,
         Before(h, a), StepOf(h, a, g, b), NEW x \in EnvelopeType, Sent(x)
  PROVE  /\ x.from # x.to
         /\ RequestFits(x)'
         /\ EntriesFit(x, g, b)'
         /\ AnswerFits(x, g, b)'
<1>1. /\ TypeInv
      /\ TypeOK
      /\ TypeOK'
      /\ NetTypeOK
      /\ [Next]_vars
      /\ Continues(h, g)
  BY StepTypes
<1>2. x.from \in Nodes /\ x.to \in Nodes /\ x.msg \in Message
      /\ x.msg.term \in Terms
  BY MessageFields DEF EnvelopeType
<1>3. ASSUME NEW e, Delivers(e)
      PROVE  /\ e.from = Queue[1].from
             /\ e.to = Queue[1].to
             /\ Queue[1].from # Queue[1].to
             /\ EntriesFit(Queue[1], h, a)
             /\ inflight # <<>>
             /\ e.msg.type = Queue[1].msg.type
  <2>1. /\ 1 \in DOMAIN Queue
        /\ e.from = Queue[1].from
        /\ e.to = Queue[1].to
        /\ inflight # <<>>
        /\ e.msg.type = Queue[1].msg.type
    BY <1>3 DEF Delivers
  <2> QED
    BY <2>1 DEF Before, QueueFits
<1>4. x.from # x.to
  BY <1>3 DEF Sent
<1>5. RequestFits(x)'
  <2> SUFFICES ASSUME x.msg.type = "RequestVote"
               PROVE  RequestFits(x)'
    BY DEF RequestFits
  <2>1. /\ StartElection(x.from)
        /\ x.msg = RequestVoteMsg(currentTerm[x.from] + 1, x.from, log[x.from])
    BY DEF Sent
  <2>2. /\ currentTerm' = [currentTerm EXCEPT ![x.from] = currentTerm[x.from] + 1]
        /\ log' = log
    BY <2>1 DEF StartElection, logVars
  <2>3. /\ currentTerm'[x.from] = currentTerm[x.from] + 1
        /\ currentTerm[x.from] \in Nat
    BY <1>1, <1>2, <2>2, NodeLogs DEF TypeOK
  <2>4. /\ x.msg.term = currentTerm[x.from] + 1
        /\ x.msg.lastLogIndex = Len(log[x.from])
        /\ x.msg.lastLogTerm = LastTerm(log[x.from])
    BY <2>1 DEF RequestVoteMsg
  <2>5. x.msg.term <= currentTerm'[x.from]
    BY <2>3, <2>4
  <2>6. LastTerm(log'[x.from]) = LastTerm(log[x.from])
    BY <2>2
  <2>7. x.msg.lastLogIndex = Len(log'[x.from])
    BY <2>2, <2>4
  <2> QED
    BY <2>4, <2>5, <2>6, <2>7 DEF RequestFits
<1>6. EntriesFit(x, g, b)'
  <2> SUFFICES ASSUME x.msg.type = "AppendEntries"
               PROVE  EntriesFit(x, g, b)'
    BY DEF EntriesFit
  <2>1. /\ role'[x.from] = "Leader"
        /\ currentTerm'[x.from] = currentTerm[x.from]
    BY DEF Sent
  <2>2. PICK next \in Nat \ {0} :
          x.msg = BuildAppendEntries(x.from, log'[x.from], next,
                                     commitIndex[x.from])
    BY DEF Sent
  <2>3. g.glog[currentTerm[x.from]] = log'[x.from]
    BY <1>2, <2>1 DEF StepOf, LogsMatched
  <2>4. PICK l \in Seq(LogEntry) : l = log'[x.from]
    BY <1>1, <1>2 DEF TypeOK
  <2>5. /\ Whole(x.msg, g)
        /\ x.msg.term = currentTerm[x.from]
        /\ x.msg.leaderCommit = commitIndex[x.from]
    BY <1>2, <2>2, <2>3, <2>4, BuildWhole
  <2>6. Committed(h, a, currentTerm[x.from], commitIndex[x.from])
    BY <1>2 DEF Before, CommitsChosen, Committed
  <2>7. Committed(g, b, x.msg.term, x.msg.leaderCommit)
    BY <2>5, <2>6, CommittedStays
  <2> QED
    BY <2>1, <2>5, <2>7 DEF EntriesFit
<1>7. AnswerFits(x, g, b)'
  <2> SUFFICES ASSUME x.msg.type = "AppendEntriesResponse", x.msg.success
               PROVE  AnswerFits(x, g, b)'
    BY DEF AnswerFits
  <2>1. PICK e : /\ Delivers(e)
                 /\ e = [Head(inflight) EXCEPT !.msg = Tampered(Head(inflight))]
                 /\ Replicate(e)
                 /\ x.from = e.to
                 /\ x.to = e.from
                 /\ x.msg.term = e.msg.term
    BY DEF Sent
  <2>2. e.msg = Queue[1].msg
    BY <1>1, <2>1, DeliveredAsSent
  <2>3. e.msg.type = "AppendEntries"
    BY <2>1 DEF Replicate, FollowLeader
  <2>4. Acknowledges(x.from, x.msg.term)
    BY <2>1, <2>2 DEF Acknowledges
  <2>5. b[x.from][x.msg.term] = Len(g.glog[x.msg.term])
    BY <1>2, <2>4 DEF StepOf
  <2>6. h.elected[x.msg.term] # None
    <3>1. Segment(e.msg, h)
      BY <2>1, <2>2, HeadFacts DEF Before
    <3> QED
      BY <2>1, <2>3, <3>1 DEF Segment
  <2>7. g.elected[x.msg.term] # None
    BY <1>1, <1>2, <2>6 DEF Continues
  <2>8. role[x.to] # "Follower" => x.msg.term = currentTerm[x.to]
    BY <1>3, <2>1, <2>2, <2>3 DEF EntriesFit
  <2>9. ~StartElection(x.to)
    BY <1>3, <2>1 DEF StartElection, TickTurn
  <2>10. role'[x.to] # "Follower" => x.msg.term = currentTerm'[x.to]
    BY <1>1, <1>2, <2>8, <2>9, NotFollowerStep
  <2> QED
    BY <2>5, <2>7, <2>10 DEF AnswerFits
<1> QED
  BY <1>4, <1>5, <1>6, <1>7

LEMMA QueueFitsStep ==
  ASSUME MaxPending = 0, NeverEquivocates = Nodes,
         NEW h \in Histories, NEW g \in Histories,
         NEW a \in Acknowledgements, NEW b \in Acknowledgements,
         Before(h, a), StepOf(h, a, g, b)
  PROVE  QueueFits(g, b)'
<1>1. TypeInv /\ TypeOK' /\ [Next]_vars
  BY StepTypes
<1>2. ASSUME NEW k \in DOMAIN Queue, NEW x, x = Queue[k]
      PROVE  /\ x.from # x.to
             /\ RequestFits(x)'
             /\ EntriesFit(x, g, b)'
             /\ AnswerFits(x, g, b)'
  BY <1>2, FitsStays
<1>3. ASSUME NEW k \in DOMAIN Queue', NEW x, x = Queue'[k]
      PROVE  /\ x.from # x.to
             /\ RequestFits(x)'
             /\ EntriesFit(x, g, b)'
             /\ AnswerFits(x, g, b)'
  <2>1. CASE Queue' = Queue
    BY <1>2, <1>3, <2>1
  <2>2. ASSUME NEW d, NEW out, QueueStep(d, out),
               \A n \in DOMAIN out : Sent(out[n])
        PROVE  \/ \E n \in DOMAIN Queue : x = Queue[n]
               \/ x \in EnvelopeType /\ Sent(x)
    <3>1. \/ k + d \in DOMAIN Queue /\ x = Queue[k + d]
          \/ \E n \in DOMAIN out : x = out[n]
      BY <1>3, <2>2, QueueOrigins
    <3>2. \A n \in DOMAIN out : out[n] \in EnvelopeType
      BY <2>2, ElementOfSeq, LenProperties DEF QueueStep
    <3> QED
      BY <2>2, <3>1, <3>2
  <2>3. \/ \E n \in DOMAIN Queue : x = Queue[n]
        \/ x \in EnvelopeType /\ Sent(x)
    BY <1>1, <1>3, <2>1, <2>2, MessagesSent
  <2> QED
    BY <1>2, <2>3, NewFits
<1>4. ASSUME NEW k \in DOMAIN Queue'
      PROVE  /\ Queue'[k].from # Queue'[k].to
             /\ (RequestFits(Queue[k]))'
             /\ (EntriesFit(Queue[k], g, b))'
             /\ (AnswerFits(Queue[k], g, b))'
  <2>1. PICK x : x = Queue'[k]
    OBVIOUS
  <2>2. /\ x.from # x.to
        /\ RequestFits(x)'
        /\ EntriesFit(x, g, b)'
        /\ AnswerFits(x, g, b)'
    BY <1>3, <2>1
  <2>3. (RequestFits(Queue[k]))'
    BY <2>1, <2>2 DEF RequestFits
  <2>4. (EntriesFit(Queue[k], g, b))'
    BY <2>1, <2>2 DEF EntriesFit
  <2>5. (AnswerFits(Queue[k], g, b))'
    BY <2>1, <2>2 DEF AnswerFits
  <2> QED
    BY <2>1, <2>2, <2>3, <2>4, <2>5
<1> QED
  BY <1>4 DEF QueueFits

-----------------------------------------------------------------------------
(* What is committed *)

\* What the leader of a term has chosen all later leaders have.
LEMMA LeadersHold ==
  ASSUME NEW h \in Histories, NEW a \in Acknowledgements, Before(h, a),
         NEW u \in Terms, NEW n \in Nat, Chosen(h, a, u, n),
         NEW v \in Terms, u <= v, h.elected[v] # None
  PROVE  Holds(h.glog[v], h.glog[u], n)
<1>1. Point(h, u, n) /\ ~RuledOut(a, u, n)
  BY ChosenNotRuledOut DEF Chosen
<1>2. u \in Nat /\ v \in Nat
  BY TermsAreNumbers
<1>3. CASE u = v
  BY <1>1, <1>3, LeadersLogs DEF Point, Holds
<1>4. CASE u < v
  BY <1>1, <1>4 DEF Before, WinnersKeep, Keeps
<1> QED
  BY <1>2, <1>3, <1>4

\* A log that holds what is chosen does so in the history of the next state.
LEMMA HoldsChosen ==
  ASSUME NEW h \in Histories, NEW g \in Histories,
         NEW a \in Acknowledgements, NEW b \in Acknowledgements,
         Before(h, a), StepOf(h, a, g, b),
         NEW u \in Terms, NEW n \in Nat, Chosen(h, a, u, n),
         NEW c \in Nat, c <= n, NEW l, Holds(l, h.glog[u], c)
  PROVE  Chosen(g, b, u, n) /\ Holds(l, g.glog[u], c)
<1>1. Chosen(g, b, u, n)
  BY ChosenStays
<1>2. ASSUME NEW k \in 1 .. c
      PROVE  k \in DOMAIN l /\ l[k] = g.glog[u][k]
  <2>1. k \in DOMAIN l /\ l[k] = h.glog[u][k]
    BY <1>2 DEF Holds
  <2>2. k \in DOMAIN h.glog[u]
    BY LeadersLogs DEF Chosen, Point
  <2>3. g.glog[u][k] = h.glog[u][k]
    BY <2>2, StepTypes DEF Continues
  <2> QED
    BY <2>1, <2>3
<1> QED
  BY <1>1, <1>2 DEF Holds

\* Commits are made by a leader that notes an answer and by a follower.
LEMMA CommitSteps ==
  ASSUME TypeInv, NetTypeOK, NeverEquivocates = Nodes, [Next]_vars
  PROVE  \/ UNCHANGED <<commitIndex, committed>>
         \/ \E e : /\ Delivers(e)
                   /\ e.msg = Queue[1].msg
                   /\ NoteReplicated(e) \/ Replicate(e)
<1>1. ASSUME NEW p \in Payloads, ProposeAccepted(p) \/ ProposeRejected(p)
      PROVE  UNCHANGED <<commitIndex, committed>>
  BY <1>1 DEF ProposeAccepted, ProposeRejected, nodeVars, logVars
<1>2. CASE BeginStep \/ LoseMessage \/ ChangeFaults \/ UNCHANGED vars
  BY <1>2 DEF BeginStep, LoseMessage, ChangeFaults, vars, nodeVars, logVars
<1>3. CASE Tick
  BY <1>3 DEF Tick, Heartbeat, TickLeader, TickFollower, StartElection, logVars
<1>4. CASE DeliverMessage
  <2>1. PICK e : Delivers(e) /\ HandleMessage(e) /\ e.msg = Queue[1].msg
    BY <1>4, DeliveredWhole
  <2>2. CASE NoteReplicated(e) \/ Replicate(e)
    BY <2>1, <2>2
  <2>3. CASE \/ HandleRequestVote(e) \/ StepDown(e) \/ CountVote(e)
             \/ WinElection(e) \/ RefuseGap(e) \/ RefuseConflict(e)
             \/ BackUp(e)
    BY <2>3 DEF HandleRequestVote, StepDown, CountVote, WinElection,
                RefuseGap, RefuseConflict, BackUp, logVars
  <2>4. CASE RejectOldLeader(e) \/ Discard(e)
    BY <2>4 DEF RejectOldLeader, Discard, nodeVars, logVars
  <2> QED
    BY <2>1, <2>2, <2>3, <2>4 DEF HandleMessage
<1> QED
  BY <1>1, <1>2, <1>3, <1>4 DEF Next

\* Node i commits up to place c of its log, which is then l.
CommitsTo(i, l, c) ==
    /\ i \in Nodes
    /\ l \in Seq(LogEntry)
    /\ c \in Nat
    /\ commitIndex[i] <= c
    /\ c = commitIndex[i] \/ c <= Len(l)
    /\ log' = [log EXCEPT ![i] = l]
    /\ commitIndex' = [commitIndex EXCEPT ![i] = c]
    /\ committed' = [committed EXCEPT ![i] = @ \o Newly(l, commitIndex[i], c)]

\* A follower commits no more than its leader and what its log then holds.
LEMMA ReplicateCommits ==
  ASSUME TypeOK, NEW e \in EnvelopeType, Replicate(e)
  PROVE  \E l, c : /\ CommitsTo(e.to, l, c)
                   /\ l = Merged(log[e.to], e.msg.entries)
                   /\ c > commitIndex[e.to] => c <= e.msg.leaderCommit
<1> DEFINE i == e.to
           m == e.msg
<1>1. i \in Nodes /\ m \in Message
  BY DEF EnvelopeType
<1>2. m.entries \in Seq(LogEntry) /\ m.leaderCommit \in Nat
  BY <1>1, MessageFields DEF Replicate, FollowLeader
<1>3. log[i] \in Seq(LogEntry) /\ commitIndex[i] \in Nat
  BY <1>1 DEF TypeOK
<1>4. PICK l : l = Merged(log[i], m.entries)
  OBVIOUS
<1>5. PICK c : c = FollowedCommit(i, m, l)
  OBVIOUS
<1>6. l \in Seq(LogEntry)
  BY <1>2, <1>3, <1>4, MergedType
<1>7. c \in Nat /\ (c = commitIndex[i] \/ c <= Len(l))
  BY <1>1, <1>2, <1>3, <1>5, <1>6, FollowedCommitType
<1>8. /\ commitIndex[i] <= c
      /\ log' = [log EXCEPT ![i] = l]
      /\ commitIndex' = [commitIndex EXCEPT ![i] = c]
      /\ committed' = [committed EXCEPT ![i] = @ \o Newly(l, commitIndex[i], c)]
  BY <1>4, <1>5 DEF Replicate
<1>9. CommitsTo(i, l, c)
  BY <1>1, <1>6, <1>7, <1>8 DEF CommitsTo
<1>10. c > commitIndex[i] => c <= m.leaderCommit
  <2>1. Len(l) \in Nat
    BY <1>6, LenProperties
  <2> QED
    BY <1>2, <1>3, <1>5, <2>1 DEF FollowedCommit
<1> QED
  BY <1>4, <1>9, <1>10

\* A leader commits up to an entry of its own term.
LEMMA LeaderCommits ==
  ASSUME TypeOK, NEW e \in EnvelopeType, NoteReplicated(e)
  PROVE  \E c : /\ CommitsTo(e.to, log[e.to], c)
                /\ c > commitIndex[e.to] =>
                     /\ c \in DOMAIN log[e.to]
                     /\ log[e.to][c].term = currentTerm[e.to]
<1> DEFINE i == e.to
           match == [matchIndex[i] EXCEPT ![e.from] = e.msg.matchIndex]
           Committable(n) ==
             /\ log[i][n].term = currentTerm[i]
             /\ Cardinality({p \in Nodes \ {i} : match[p] >= n}) + 1 >= Majority
           candidates == {n \in commitIndex[i] + 1 .. Len(log[i]) :
                            Committable(n)}
<1>1. /\ i \in Nodes
      /\ log[i] \in Seq(LogEntry)
      /\ commitIndex[i] \in Nat
      /\ Len(log[i]) \in Nat
      /\ DOMAIN log[i] = 1 .. Len(log[i])
  BY NodeLogs DEF EnvelopeType
<1>2. PICK c : c = LeaderCommit(i, match)
  OBVIOUS
<1>3. /\ commitIndex' = [commitIndex EXCEPT ![i] = c]
      /\ committed' = [committed EXCEPT ![i] =
                         @ \o Newly(log[i], commitIndex[i], c)]
      /\ log' = log
  BY <1>2 DEF NoteReplicated
<1>4. /\ c \in Nat
      /\ commitIndex[i] <= c
      /\ c = commitIndex[i] \/ c <= Len(log[i])
  BY <1>1, <1>2, LeaderCommitType
<1>5. log' = [log EXCEPT ![i] = log[i]]
  BY <1>3 DEF TypeOK
<1>6. CommitsTo(i, log[i], c)
  BY <1>1, <1>3, <1>4, <1>5 DEF CommitsTo
<1>7. ASSUME c > commitIndex[i]
      PROVE  c \in DOMAIN log[i] /\ log[i][c].term = currentTerm[i]
  <2>1. c = IF candidates = {} THEN commitIndex[i] ELSE Max(candidates)
    BY <1>2 DEF LeaderCommit
  <2>2. \A n \in candidates : /\ n \in commitIndex[i] + 1 .. Len(log[i])
                              /\ log[i][n].term = currentTerm[i]
    OBVIOUS
  <2> HIDE DEF candidates
  <2>3. candidates \in SUBSET (0 .. Len(log[i]))
    BY <1>1, <2>2
  <2>4. candidates # {}
    BY <1>1, <1>4, <1>7, <2>1
  <2>5. c \in candidates
    BY <1>1, <2>1, <2>3, <2>4, MaxInSet
  <2> QED
    BY <1>1, <2>2, <2>5
<1> QED
  BY <1>6, <1>7

\* What a follower commits was chosen: its leader had committed it.
LEMMA ReplicateChosen ==
  ASSUME NEW h \in Histories, NEW a \in Acknowledgements, Before(h, a),
         NEW e, Delivers(e), e.msg = Queue[1].msg, Replicate(e),
         NEW l, l = Merged(log[e.to], e.msg.entries),
         NEW c \in Nat, 0 < c, c <= e.msg.leaderCommit
  PROVE  \E u \in Terms : \E n \in Nat :
           u <= e.msg.term /\ c <= n /\ Chosen(h, a, u, n)
             /\ Holds(l, h.glog[u], c)
<1> DEFINE i == e.to
           m == e.msg
           t == m.term
<1>1. TypeOK /\ LogInv /\ LogsMatched(h) /\ ElectionsBegin(h)
  BY TypeParts DEF Before, LogInv, TypeInv
<1>2. /\ m \in Message /\ EntriesOrdered(m) /\ Segment(m, h)
      /\ i \in Nodes
  BY <1>1, HeadFacts
<1>3. m.type = "AppendEntries" /\ ~Misses(i, m) /\ ~Conflicts(i, m)
  BY DEF Replicate, FollowLeader
<1>4. Whole(m, h) /\ Committed(h, a, t, m.leaderCommit)
  BY <1>3 DEF Before, QueueFits, EntriesFit, Delivers
<1>5. h.elected[t] # None
  BY <1>2, <1>3 DEF Segment
<1>6. t \in Terms /\ m.leaderCommit \in Nat
  BY <1>2, <1>3, MessageFields
<1>7. Holds(l, h.glog[t], Len(h.glog[t]))
  BY <1>1, <1>2, <1>3, <1>4, FollowerWhole
<1>8. PICK u \in Terms : \E n \in Nat :
        u <= t /\ m.leaderCommit <= n /\ Chosen(h, a, u, n)
  BY <1>4, <1>6 DEF Committed
<1>9. PICK n \in Nat : u <= t /\ m.leaderCommit <= n /\ Chosen(h, a, u, n)
  BY <1>8
<1>10. Holds(h.glog[t], h.glog[u], n)
  BY <1>5, <1>6, <1>9, LeadersHold
<1>11. c <= n
  BY <1>6, <1>9
<1>12. Holds(l, h.glog[u], c)
  <2>1. \A k \in 1 .. c : k \in 1 .. n
    BY <1>11
  <2>2. \A k \in 1 .. c : k \in DOMAIN h.glog[t] /\ h.glog[t][k] = h.glog[u][k]
    BY <1>10, <2>1 DEF Holds
  <2>3. DOMAIN h.glog[t] = 1 .. Len(h.glog[t])
    BY <1>6, LeadersLogs
  <2> QED
    BY <1>7, <2>2, <2>3 DEF Holds
<1> QED
  BY <1>9, <1>11, <1>12

\* What a leader commits is chosen: with the node that answers it is a
\* majority of a cluster of up to three.
LEMMA NoteReplicatedChosen ==
  ASSUME N <= 3, NEW h \in Histories, NEW a \in Acknowledgements, Before(h, a),
         NEW e, Delivers(e), e.msg = Queue[1].msg, NoteReplicated(e),
         NEW c \in DOMAIN log[e.to], log[e.to][c].term = currentTerm[e.to]
  PROVE  /\ Chosen(h, a, currentTerm[e.to], c)
         /\ Holds(log[e.to], h.glog[currentTerm[e.to]], c)
<1> DEFINE i == e.to
           j == e.from
           t == currentTerm[i]
<1>1. TypeOK
  BY TypeParts DEF Before, LogInv, TypeInv
<1>2. /\ i \in Nodes /\ j \in Nodes
      /\ i = Queue[1].to /\ j = Queue[1].from
      /\ 1 \in DOMAIN Queue
  BY DEF Delivers, EnvelopeType
<1>3. /\ e.msg.type = "AppendEntriesResponse"
      /\ e.msg.success
      /\ role[i] = "Leader"
  BY DEF NoteReplicated, AcceptsResponse
<1>4. j # i /\ AnswerFits(Queue[1], h, a)
  BY <1>2 DEF Before, QueueFits
<1>5. e.msg.term = t /\ a[j][t] = Len(h.glog[t])
  BY <1>2, <1>3, <1>4 DEF AnswerFits
<1>6. h.glog[t] = log[i] /\ a[i][t] = Len(log[i])
  BY <1>2, <1>3 DEF Before, LogsMatched, LeadersAck
<1>7. /\ t \in Terms
      /\ Len(log[i]) \in Nat
      /\ DOMAIN log[i] = 1 .. Len(log[i])
  BY <1>1, <1>2, NodeLogs
<1>8. c <= a[i][t] /\ c <= a[j][t] /\ c \in Nat
  BY <1>5, <1>6, <1>7
<1>9. Point(h, t, c)
  BY <1>6 DEF Point
<1>10. Holds(log[i], h.glog[t], c)
  BY <1>6, <1>7 DEF Holds
<1>11. Cardinality({p \in Nodes : a[p][t] >= c}) >= Majority
  <2> DEFINE S == {i, j}
             T == {p \in Nodes : a[p][t] >= c}
  <2>1. S \in SUBSET Nodes /\ T \in SUBSET Nodes /\ S \subseteq T
    <3>1. a[i][t] >= c /\ a[j][t] >= c
      BY <1>6, <1>5, <1>7, <1>8
    <3> QED
      BY <1>2, <3>1
  <2>2. Cardinality(S) = 2
    <3>1. IsFiniteSet({i}) /\ Cardinality({i}) = 1
      BY FS_Singleton
    <3>2. S = {i} \cup {j} /\ j \notin {i}
      BY <1>4
    <3>3. Cardinality({i} \cup {j}) = Cardinality({i}) + 1
      BY <3>1, <3>2, FS_AddElement
    <3> QED
      BY <3>1, <3>2, <3>3
  <2>3. Majority <= 2 /\ Majority \in Nat
    BY SizeAssumption DEF Majority
  <2> HIDE DEF S, T
  <2>4. Cardinality(S) >= Majority
    BY <2>2, <2>3
  <2>5. Cardinality(T) >= Majority
    BY <2>1, <2>4, LargerMajority
  <2> QED
    BY <2>5 DEF T
<1> QED
  BY <1>9, <1>10, <1>11 DEF Chosen

\* What a node holds of its commits it goes on to hold.
LEMMA CommitsKept ==
  ASSUME NeverEquivocates = Nodes, NEW h \in Histories, NEW g \in Histories,
         NEW a \in Acknowledgements, NEW b \in Acknowledgements,
         Before(h, a), StepOf(h, a, g, b), NEW i \in Nodes,
         NEW x, NEW u \in Terms, NEW n \in Nat, u <= currentTerm[i],
         commitIndex[i] <= n, Chosen(h, a, u, n),
         Holds(log[i], h.glog[u], commitIndex[i]),
         Holds(log[i], x, commitIndex[i])
  PROVE  Holds(log'[i], x, commitIndex[i])
<1> DEFINE c == commitIndex[i]
<1>1. /\ c \in Nat /\ u \in Nat /\ currentTerm[i] \in Nat
  BY StepTypes, NodeLogs
<1>2. ASSUME NEW v \in Terms, v >= currentTerm[i], h.elected[v] # None
      PROVE  Holds(h.glog[v], x, c)
  <2>1. u <= v
    BY <1>1, <1>2, TermsAreNumbers
  <2>2. Holds(h.glog[v], h.glog[u], n)
    BY <1>2, <2>1, LeadersHold
  <2>3. \A k \in 1 .. c : k \in 1 .. n
    BY <1>1
  <2> QED
    BY <2>2, <2>3 DEF Holds
<1> QED
  BY <1>1, <1>2, HoldsStep

LEMMA CommitsChosenStep ==
  ASSUME N <= 3, NeverEquivocates = Nodes,
         NEW h \in Histories, NEW g \in Histories,
         NEW a \in Acknowledgements, NEW b \in Acknowledgements,
         Before(h, a), StepOf(h, a, g, b)
  PROVE  CommitsChosen(g, b)'
<1>1. /\ TypeInv /\ TypeOK /\ NetTypeOK /\ TypeOK' /\ [Next]_vars
      /\ currentTerm \in [Nodes -> Terms]
      /\ commitIndex \in [Nodes -> Nat]
      /\ log \in [Nodes -> Seq(LogEntry)]
  BY StepTypes DEF TypeOK
<1>2. SUFFICES ASSUME NEW i \in Nodes, commitIndex'[i] # 0
               PROVE  \E u \in Terms : \E n \in Nat :
                        /\ u <= currentTerm'[i]
                        /\ commitIndex'[i] <= n
                        /\ Chosen(g, b, u, n)
                        /\ Holds(log'[i], g.glog[u], commitIndex'[i])
  BY DEF CommitsChosen, Chosen, Point
<1>3. /\ currentTerm[i] \in Nat /\ currentTerm'[i] \in Nat
      /\ currentTerm'[i] >= currentTerm[i]
      /\ commitIndex[i] \in Nat /\ commitIndex'[i] \in Nat
  BY <1>1, StepTypes DEF TypeOK
\* A fact about the old history is one about the new one.
<1>4. ASSUME NEW u \in Terms, NEW n \in Nat, u <= currentTerm'[i],
             commitIndex'[i] <= n, Chosen(h, a, u, n),
             Holds(log'[i], h.glog[u], commitIndex'[i])
      PROVE  \E v \in Terms : \E k \in Nat :
               /\ v <= currentTerm'[i]
               /\ commitIndex'[i] <= k
               /\ Chosen(g, b, v, k)
               /\ Holds(log'[i], g.glog[v], commitIndex'[i])
  BY <1>3, <1>4, HoldsChosen
<1>5. CASE commitIndex'[i] = commitIndex[i]
  <2>1. PICK u \in Terms : \E n \in Nat :
          /\ u <= currentTerm[i]
          /\ commitIndex[i] <= n
          /\ Chosen(h, a, u, n)
          /\ Holds(log[i], h.glog[u], commitIndex[i])
    BY <1>2, <1>5 DEF Before, CommitsChosen
  <2>2. PICK n \in Nat :
          /\ u <= currentTerm[i]
          /\ commitIndex[i] <= n
          /\ Chosen(h, a, u, n)
          /\ Holds(log[i], h.glog[u], commitIndex[i])
    BY <2>1
  <2>3. Holds(log'[i], h.glog[u], commitIndex[i])
    BY <2>2, CommitsKept
  <2>4. u <= currentTerm'[i]
    BY <1>3, <2>2, TermsAreNumbers
  <2> QED
    BY <1>4, <1>5, <2>2, <2>3, <2>4
<1>6. CASE commitIndex'[i] # commitIndex[i]
  <2>1. PICK e : /\ Delivers(e)
                 /\ e.msg = Queue[1].msg
                 /\ NoteReplicated(e) \/ Replicate(e)
    BY <1>1, <1>6, CommitSteps
  <2>2. e \in EnvelopeType /\ e.to \in Nodes
    BY <2>1 DEF Delivers, EnvelopeType
  <2>3. ASSUME NEW l, NEW c, CommitsTo(e.to, l, c)
        PROVE  /\ e.to = i
               /\ commitIndex'[i] = c
               /\ c > commitIndex[i]
               /\ c \in Nat
               /\ log'[i] = l
    BY <1>1, <1>6, <2>3 DEF CommitsTo
  <2>4. CASE NoteReplicated(e)
    <3>1. PICK c : /\ CommitsTo(e.to, log[e.to], c)
                   /\ c > commitIndex[e.to] =>
                        /\ c \in DOMAIN log[e.to]
                        /\ log[e.to][c].term = currentTerm[e.to]
      BY <1>1, <2>2, <2>4, LeaderCommits
    <3>2. /\ e.to = i /\ commitIndex'[i] = c /\ c \in Nat
          /\ log'[i] = log[i]
          /\ c \in DOMAIN log[i] /\ log[i][c].term = currentTerm[i]
      BY <2>3, <3>1
    <3>3. /\ Chosen(h, a, currentTerm[i], c)
          /\ Holds(log[i], h.glog[currentTerm[i]], c)
      BY <2>1, <2>4, <3>2, NoteReplicatedChosen
    <3>4. c <= c
      BY <3>2
    <3> QED
      BY <1>1, <1>3, <1>4, <3>2, <3>3, <3>4
  <2>5. CASE Replicate(e)
    <3>1. PICK l, c : /\ CommitsTo(e.to, l, c)
                      /\ l = Merged(log[e.to], e.msg.entries)
                      /\ c > commitIndex[e.to] => c <= e.msg.leaderCommit
      BY <1>1, <2>2, <2>5, ReplicateCommits
    <3>2. /\ e.to = i /\ commitIndex'[i] = c /\ c \in Nat /\ 0 < c
          /\ log'[i] = l
          /\ c <= e.msg.leaderCommit
      BY <1>3, <2>3, <3>1
    <3>3. PICK u \in Terms : \E n \in Nat :
            u <= e.msg.term /\ c <= n /\ Chosen(h, a, u, n)
              /\ Holds(l, h.glog[u], c)
      BY <2>1, <2>5, <3>1, <3>2, ReplicateChosen
    <3>4. currentTerm'[i] = e.msg.term
      BY <1>1, <2>2, <2>5, <3>2 DEF Replicate, FollowLeader
    <3> QED
      BY <1>4, <3>2, <3>3, <3>4
  <2> QED
    BY <2>1, <2>4, <2>5
<1> QED
  BY <1>5, <1>6

\* What is handed out at a place is in the log at that place.
LEMMA CommittedStep ==
  ASSUME NeverEquivocates = Nodes,
         NEW h \in Histories, NEW g \in Histories,
         NEW a \in Acknowledgements, NEW b \in Acknowledgements,
         Before(h, a), StepOf(h, a, g, b), CommitsChosen(g, b)',
         CommitsDense, CommittedStaysInLog
  PROVE  CommittedStaysInLog'
<1>1. /\ TypeInv /\ TypeOK /\ NetTypeOK /\ TypeOK' /\ [Next]_vars
      /\ commitIndex \in [Nodes -> Nat]
      /\ log \in [Nodes -> Seq(LogEntry)]
      /\ committed \in [Nodes -> Seq(CommittedEntry)]
  BY StepTypes DEF TypeOK
<1>2. ASSUME NEW i \in Nodes
      PROVE  commitIndex'[i] <= Len(log'[i])
  <2>1. /\ commitIndex'[i] \in Nat /\ log'[i] \in Seq(LogEntry)
        /\ Len(log'[i]) \in Nat /\ DOMAIN log'[i] = 1 .. Len(log'[i])
    BY <1>1, EntryTerms DEF TypeOK
  <2>2. ASSUME commitIndex'[i] # 0
        PROVE  commitIndex'[i] \in DOMAIN log'[i]
    <3>1. \E x : Holds(log'[i], x, commitIndex'[i])
      BY <2>2 DEF CommitsChosen
    <3>2. commitIndex'[i] \in 1 .. commitIndex'[i]
      BY <2>1, <2>2
    <3> QED
      BY <3>1, <3>2 DEF Holds
  <2> QED
    BY <2>1, <2>2
<1>3. ASSUME NEW i \in Nodes, NEW k \in 1 .. commitIndex[i]
      PROVE  /\ k \in DOMAIN committed[i]
             /\ committed[i][k].payload = log'[i][k].payload
  <2>1. /\ commitIndex[i] \in Nat
        /\ log[i] \in Seq(LogEntry)
        /\ Len(log[i]) \in Nat /\ DOMAIN log[i] = 1 .. Len(log[i])
        /\ commitIndex[i] # 0
    BY <1>1, <1>3, EntryTerms
  <2>2. /\ commitIndex[i] <= Len(log[i])
        /\ committed[i][k].payload = log[i][k].payload
        /\ Len(committed[i]) = commitIndex[i]
    BY <1>3 DEF CommittedStaysInLog, CommitsDense
  <2>3. DOMAIN committed[i] = 1 .. Len(committed[i])
    BY <1>1, LenProperties
  <2>4. PICK u \in Terms : \E n \in Nat :
          /\ u <= currentTerm[i]
          /\ commitIndex[i] <= n
          /\ Chosen(h, a, u, n)
          /\ Holds(log[i], h.glog[u], commitIndex[i])
    BY <2>1 DEF Before, CommitsChosen
  <2>5. PICK n \in Nat :
          /\ u <= currentTerm[i]
          /\ commitIndex[i] <= n
          /\ Chosen(h, a, u, n)
          /\ Holds(log[i], h.glog[u], commitIndex[i])
    BY <2>4
  <2>6. PICK x : x = log[i]
    OBVIOUS
  <2>7. Holds(log[i], x, commitIndex[i])
    BY <2>1, <2>2, <2>6 DEF Holds
  <2>8. Holds(log'[i], x, commitIndex[i])
    BY <2>5, <2>7, CommitsKept
  <2>9. log'[i][k] = log[i][k]
    BY <1>3, <2>6, <2>8 DEF Holds
  <2> QED
    BY <1>3, <2>2, <2>3, <2>9
<1>4. ASSUME NEW i \in Nodes, NEW k \in 1 .. commitIndex'[i]
      PROVE  committed'[i][k].payload = log'[i][k].payload
  <2>1. CASE /\ commitIndex'[i] = commitIndex[i]
             /\ committed'[i] = committed[i]
    BY <1>3, <1>4, <2>1
  <2>2. ASSUME NEW l, NEW c, CommitsTo(i, l, c)
        PROVE  committed'[i][k].payload = log'[i][k].payload
    <3> DEFINE d == commitIndex[i]
               new == Newly(l, d, c)
    <3>1. /\ log'[i] = l
          /\ commitIndex'[i] = c
          /\ committed'[i] = committed[i] \o new
      BY <1>1, <2>2 DEF CommitsTo
    <3>2. /\ c \in Nat /\ d \in Nat /\ d <= c /\ l \in Seq(LogEntry)
          /\ c = d \/ c <= Len(l)
      BY <1>1, <2>2 DEF CommitsTo
    <3>3. new \in Seq(CommittedEntry) /\ Len(new) = c - d
      BY <3>2, NewlyType
    <3>4. \A m \in 1 .. c - d : new[m].payload = l[d + m].payload
      BY DEF Newly
    <3>5. /\ committed[i] \in Seq(CommittedEntry)
          /\ Len(committed[i]) = d
      BY <1>1 DEF CommitsDense
    <3>6. k \in 1 .. c
      BY <1>4, <3>1
    <3> HIDE DEF new
    <3>7. (committed[i] \o new)[k] =
            IF k <= d THEN committed[i][k] ELSE new[k - d]
      <4>1. k \in 1 .. Len(committed[i]) + Len(new)
        BY <3>2, <3>3, <3>5, <3>6
      <4> QED
        BY <3>3, <3>5, <4>1, ConcatProperties
    <3> HIDE DEF d
    <3>8. CASE k <= d
      <4>1. k \in 1 .. commitIndex[i]
        BY <3>2, <3>6, <3>8 DEF d
      <4> QED
        BY <1>3, <3>1, <3>7, <3>8, <4>1
    <3>9. CASE ~(k <= d)
      <4>1. k - d \in 1 .. c - d /\ d + (k - d) = k
        BY <3>2, <3>6, <3>9
      <4> QED
        BY <3>1, <3>4, <3>7, <3>9, <4>1
    <3> QED
      BY <3>8, <3>9
  <2>3. ASSUME NEW e, Delivers(e), NoteReplicated(e) \/ Replicate(e)
        PROVE  \E l, c : CommitsTo(e.to, l, c)
    <3>1. e \in EnvelopeType
      BY <2>3 DEF Delivers
    <3> QED
      BY <1>1, <2>3, <3>1, ReplicateCommits, LeaderCommits
  <2>4. ASSUME NEW j, NEW l, NEW c, CommitsTo(j, l, c), j # i
        PROVE  /\ commitIndex'[i] = commitIndex[i]
               /\ committed'[i] = committed[i]
    BY <1>1, <2>4 DEF CommitsTo
  <2> QED
    BY <1>1, <2>1, <2>2, <2>3, <2>4, CommitSteps
<1> QED
  BY <1>2, <1>4 DEF CommittedStaysInLog

-----------------------------------------------------------------------------
(* What clients proposed *)

\* Each payload in the leaders' logs was accepted, and is at one place.
FromClients(h) ==
    \A t \in Terms : \A k \in DOMAIN h.glog[t] :
        \E p \in Payloads : h.glog[t][k].payload = <<p, 0>>
                            /\ outcome[p] = "accepted"

Unrepeated(h) ==
    \A t, u \in Terms : \A k \in DOMAIN h.glog[t] : \A l \in DOMAIN h.glog[u] :
        h.glog[t][k].payload = h.glog[u][l].payload => k = l

\* What a client was told once a proposal was accepted does not change, and
\* nothing proposed is forgotten.
LEMMA OutcomesKept ==
  ASSUME TypeOK, [Next]_vars
  PROVE  /\ \A p \in Payloads : outcome[p] = "accepted"
                                  => outcome'[p] = "accepted"
         /\ Proposed \subseteq Proposed'
         /\ outcome' # outcome => UNCHANGED committed
<1>1. outcome \in [Payloads -> {"unsent", "accepted", "rejected"}]
  BY DEF TypeOK
<1>2. CASE UNCHANGED outcome
  BY <1>2 DEF Proposed
<1>3. ASSUME NEW p \in Payloads, NEW o \in {"accepted", "rejected"},
             outcome[p] # "accepted", outcome' = [outcome EXCEPT ![p] = o]
      PROVE  /\ \A q \in Payloads : outcome[q] = "accepted"
                                      => outcome'[q] = "accepted"
             /\ Proposed \subseteq Proposed'
  <2>1. \A q \in Payloads : outcome'[q] = IF q = p THEN o ELSE outcome[q]
    BY <1>1, <1>3
  <2>2. {q \in Payloads : outcome[q] # "unsent"}
          \subseteq {q \in Payloads : outcome'[q] # "unsent"}
    BY <1>3, <2>1
  <2> QED
    BY <1>3, <2>1, <2>2 DEF Proposed
<1>4. ASSUME NEW p \in Payloads, ProposeAccepted(p) \/ ProposeRejected(p)
      PROVE  /\ \A q \in Payloads : outcome[q] = "accepted"
                                      => outcome'[q] = "accepted"
             /\ Proposed \subseteq Proposed'
             /\ UNCHANGED committed
  <2>1. /\ outcome[p] # "accepted"
        /\ \E o \in {"accepted", "rejected"} :
             outcome' = [outcome EXCEPT ![p] = o]
    BY <1>4 DEF ProposeAccepted, ProposeRejected
  <2>2. UNCHANGED committed
    BY <1>4 DEF ProposeAccepted, ProposeRejected, nodeVars, logVars
  <2> QED
    BY <1>3, <2>1, <2>2
<1>5. CASE BeginStep \/ LoseMessage \/ ChangeFaults \/ UNCHANGED vars
  BY <1>2, <1>5 DEF BeginStep, LoseMessage, ChangeFaults, vars
<1>6. CASE Tick
  BY <1>2, <1>6 DEF Tick, Heartbeat, TickLeader, TickFollower, StartElection
<1>7. CASE DeliverMessage
  <2>1. PICK e : HandleMessage(e)
    BY <1>7 DEF DeliverMessage
  <2>2. UNCHANGED outcome
    BY <2>1
       DEF HandleMessage, HandleRequestVote, StepDown, CountVote, WinElection,
           RejectOldLeader, RefuseGap, RefuseConflict, Replicate, FollowLeader,
           NoteReplicated, BackUp, Discard
  <2> QED
    BY <1>2, <2>2
<1> QED
  BY <1>2, <1>4, <1>5, <1>6, <1>7 DEF Next

\* Entry k of log l was in a leader's log at that place before.
Old(h, l, k) ==
    \E u \in Terms : k \in DOMAIN h.glog[u] /\ l[k] = h.glog[u][k]

\* What is new in the leaders' logs is one entry, just proposed: the log of a
\* new leader consists of parts of earlier leaders' logs.
LEMMA NewEntries ==
  ASSUME NEW h \in Histories, NEW g \in Histories,
         NEW a \in Acknowledgements, NEW b \in Acknowledgements,
         Before(h, a), StepOf(h, a, g, b)
  PROVE  \E p, m : \A t \in Terms : \A k \in DOMAIN g.glog[t] :
           \/ Old(h, g.glog[t], k)
           \/ /\ p \in Payloads
              /\ ProposeAccepted(p)
              /\ k = m
              /\ g.glog[t][k].payload = <<p, 0>>
<1>1. /\ TypeInv /\ TypeOK /\ [Next]_vars
      /\ log \in [Nodes -> Seq(LogEntry)]
      /\ currentTerm' \in [Nodes -> Terms]
      /\ LogsMatched(h)
  BY StepTypes DEF TypeOK, Before
<1>2. ASSUME NEW t \in Terms, NEW k \in DOMAIN g.glog[t], g.glog[t] = h.glog[t]
      PROVE  Old(h, g.glog[t], k)
  BY <1>2 DEF Old
<1>3. ASSUME NEW i \in Nodes, NEW k \in DOMAIN log[i]
      PROVE  Old(h, log[i], k)
  <2>1. log[i][k].term \in Terms
    BY <1>1, EntryTerms DEF LogEntry
  <2>2. k \in DOMAIN h.glog[log[i][k].term]
        /\ \A n \in 1 .. k : log[i][n] = h.glog[log[i][k].term][n]
    BY <1>1 DEF LogsMatched, Matched
  <2>3. k \in 1 .. k
    BY <1>1, EntryTerms
  <2> QED
    BY <2>1, <2>2, <2>3 DEF Old
<1>4. ASSUME NEW t \in Terms, g.glog[t] # h.glog[t]
      PROVE  \E i \in Nodes : role'[i] = "Leader" /\ g.glog[t] = log'[i]
  <2>1. PICK i \in Nodes : role'[i] = "Leader" /\ currentTerm'[i] = t
    BY <1>4 DEF StepOf, Follows
  <2> QED
    BY <2>1 DEF StepOf, LogsMatched
<1>5. CASE \E p \in Payloads : ProposeAccepted(p)
  <2>1. PICK p \in Payloads : ProposeAccepted(p)
    BY <1>5
  <2>2. PICK r : log' = [log EXCEPT ![r] = Proposal(r, p)]
    BY <2>1 DEF ProposeAccepted, AppendProposal, Proposal
  <2>3. ASSUME NEW t \in Terms, NEW k \in DOMAIN g.glog[t],
               g.glog[t] # h.glog[t]
        PROVE  \/ Old(h, g.glog[t], k)
               \/ k = Len(log[r]) + 1 /\ g.glog[t][k].payload = <<p, 0>>
    <3>1. PICK i \in Nodes : g.glog[t] = log'[i]
      BY <1>4, <2>3
    <3>2. CASE log'[i] = log[i]
      BY <1>3, <2>3, <3>1, <3>2 DEF Old
    <3>3. CASE log'[i] # log[i]
      <4>1. i = r /\ log'[i] = Proposal(r, p)
        BY <1>1, <2>2, <3>3
      <4> DEFINE l == Proposal(r, p)
      <4>2. /\ l \in Seq(LogEntry)
            /\ Len(log[r]) \in Nat
            /\ Len(l) = Len(log[r]) + 1
            /\ \A n \in 1 .. Len(log[r]) : l[n] = log[r][n]
            /\ l[Len(log[r]) + 1].payload = <<p, 0>>
        <5>1. r \in Nodes
          BY <4>1
        <5>2. l[Len(log[r]) + 1] =
                [term |-> currentTerm[r], index |-> Len(log[r]) + 1,
                 payload |-> <<p, 0>>]
          BY <1>1, <5>1, ProposalAppends
        <5>3. l[Len(log[r]) + 1].payload = <<p, 0>>
          BY <5>2
        <5> QED
          BY <1>1, <5>1, <5>3, ProposalAppends
      <4> HIDE DEF l
      <4>3. k \in 1 .. Len(log[r]) + 1 /\ g.glog[t] = l
        BY <2>3, <3>1, <4>1, <4>2, EntryTerms DEF l
      <4>4. CASE k = Len(log[r]) + 1
        BY <4>2, <4>3, <4>4
      <4>5. CASE k # Len(log[r]) + 1
        <5>1. k \in 1 .. Len(log[r])
          BY <4>2, <4>3, <4>5
        <5>2. k \in DOMAIN log[r] /\ l[k] = log[r][k]
          BY <1>1, <4>1, <4>2, <5>1, EntryTerms
        <5>3. Old(h, log[r], k)
          BY <1>3, <4>1, <5>2
        <5> QED
          BY <4>3, <5>2, <5>3 DEF Old
      <4> QED
        BY <4>4, <4>5
    <3> QED
      BY <3>2, <3>3
  <2>4. PICK m : m = Len(log[r]) + 1
    OBVIOUS
  <2>5. \A t \in Terms : \A k \in DOMAIN g.glog[t] :
           \/ Old(h, g.glog[t], k)
           \/ /\ p \in Payloads
              /\ ProposeAccepted(p)
              /\ k = m
              /\ g.glog[t][k].payload = <<p, 0>>
    BY <1>2, <2>1, <2>3, <2>4
  <2> QED
    BY <2>5
<1>6. CASE ~\E p \in Payloads : ProposeAccepted(p)
  <2>1. ASSUME NEW t \in Terms, NEW k \in DOMAIN g.glog[t],
               g.glog[t] # h.glog[t]
        PROVE  Old(h, g.glog[t], k)
    <3>1. PICK i \in Nodes : role'[i] = "Leader" /\ g.glog[t] = log'[i]
      BY <1>4, <2>1
    <3>2. log'[i] = log[i]
      BY <1>1, <1>6, <3>1, LeaderProposes
    <3> QED
      BY <1>3, <2>1, <3>1, <3>2 DEF Old
  <2> QED
    BY <1>2, <2>1
<1> QED
  BY <1>5, <1>6

LEMMA ClientsStep ==
  ASSUME NEW h \in Histories, NEW g \in Histories,
         NEW a \in Acknowledgements, NEW b \in Acknowledgements,
         Before(h, a), StepOf(h, a, g, b), FromClients(h), Unrepeated(h)
  PROVE  FromClients(g)' /\ Unrepeated(g)'
<1>1. TypeOK /\ [Next]_vars
  BY StepTypes
<1>2. PICK p, m : \A t \in Terms : \A k \in DOMAIN g.glog[t] :
           \/ Old(h, g.glog[t], k)
           \/ /\ p \in Payloads
              /\ ProposeAccepted(p)
              /\ k = m
              /\ g.glog[t][k].payload = <<p, 0>>
  BY NewEntries
<1>3. ASSUME NEW t \in Terms, NEW k \in DOMAIN g.glog[t], Old(h, g.glog[t], k)
      PROVE  \E q \in Payloads : g.glog[t][k].payload = <<q, 0>>
                                 /\ outcome[q] = "accepted"
  BY <1>3 DEF Old, FromClients
<1>4. ASSUME p \in Payloads, ProposeAccepted(p)
      PROVE  outcome'[p] = "accepted" /\ outcome[p] # "accepted"
  BY <1>1, <1>4 DEF ProposeAccepted, TypeOK
<1>5. FromClients(g)'
  <2> SUFFICES ASSUME NEW t \in Terms, NEW k \in DOMAIN g.glog[t]
               PROVE  \E q \in Payloads : g.glog[t][k].payload = <<q, 0>>
                                          /\ outcome'[q] = "accepted"
    BY DEF FromClients
  <2>1. CASE Old(h, g.glog[t], k)
    BY <1>1, <1>3, <2>1, OutcomesKept
  <2>2. CASE ~Old(h, g.glog[t], k)
    BY <1>2, <1>4, <2>2
  <2> QED
    BY <2>1, <2>2
<1>6. Unrepeated(g)
  <2> SUFFICES ASSUME NEW t \in Terms, NEW u \in Terms,
                      NEW k \in DOMAIN g.glog[t], NEW l \in DOMAIN g.glog[u],
                      g.glog[t][k].payload = g.glog[u][l].payload
               PROVE  k = l
    BY DEF Unrepeated
  <2>1. CASE Old(h, g.glog[t], k) /\ Old(h, g.glog[u], l)
    BY <2>1 DEF Old, Unrepeated
  <2>2. ASSUME NEW v \in Terms, NEW w \in Terms,
               NEW x \in DOMAIN g.glog[v], NEW y \in DOMAIN g.glog[w],
               Old(h, g.glog[v], x), ~Old(h, g.glog[w], y)
        PROVE  g.glog[v][x].payload # g.glog[w][y].payload
    <3>1. PICK q \in Payloads : g.glog[v][x].payload = <<q, 0>>
                                /\ outcome[q] = "accepted"
      BY <1>3, <2>2
    <3>2. /\ p \in Payloads /\ ProposeAccepted(p)
          /\ g.glog[w][y].payload = <<p, 0>>
      BY <1>2, <2>2
    <3>3. q # p
      BY <1>4, <3>1, <3>2
    <3>4. <<q, 0>> # <<p, 0>>
      BY <3>3
    <3> QED
      BY <3>1, <3>2, <3>4
  <2>3. CASE ~Old(h, g.glog[t], k) /\ ~Old(h, g.glog[u], l)
    BY <1>2, <2>3
  <2> QED
    BY <2>1, <2>2, <2>3
<1> QED
  BY <1>5, <1>6 DEF Unrepeated

-----------------------------------------------------------------------------
(* The invariant *)

\* Everything a step keeps.
LEMMA BeforeStep ==
  ASSUME N <= 3, MaxPending = 0, NeverEquivocates = Nodes,
         NEW h \in Histories, NEW g \in Histories,
         NEW a \in Acknowledgements, NEW b \in Acknowledgements,
         Before(h, a), StepOf(h, a, g, b)
  PROVE  Before(g, b)'
<1>1. NetElectionInv'
  BY StepTypes, ElectionStep DEF Before
<1>2. LogInv' /\ ElectionInv(g)' /\ LogsMatched(g)'
  BY DEF StepOf
<1>3. /\ AcksReal(g, b)' /\ LeadersAck(b)' /\ AcksKept(g, b)'
      /\ QueueFits(g, b)' /\ CommitsChosen(g, b)'
  BY AcksRealStep, AcksKeptStep, QueueFitsStep, CommitsChosenStep
<1>4. WinnersKeep(g, b)' /\ CandidatesKeep(g, b)' /\ ElectionsBegin(g)'
  BY WinnersKeepStep, CandidatesKeepStep, ElectionsBeginStep
<1> QED
  BY <1>1, <1>2, <1>3, <1>4 DEF Before

\* Every step has histories around it.
LEMMA SomeStep ==
  ASSUME MaxPending = 0, NeverEquivocates = Nodes, [Next]_vars,
         NEW h \in Histories, NEW a \in Acknowledgements, Before(h, a)
  PROVE  \E g \in Histories : \E b \in Acknowledgements : StepOf(h, a, g, b)
<1>1. LogInv'
  BY LogInvStep DEF Before
<1>2. TypeOK'
  BY <1>1 DEF LogInv, TypeInv
<1>3. PICK g \in Histories : ElectionInv(g)' /\ LogsMatched(g)' /\ Follows(h, g)
  BY <1>2, LogsMatchedStep DEF Before
<1>4. PICK b : b = [j \in Nodes |-> [t \in Terms |->
                      IF Acknowledges(j, t) THEN Len(g.glog[t]) ELSE a[j][t]]]
  OBVIOUS
<1>5. b \in Acknowledgements
  <2>1. \A t \in Terms : Len(g.glog[t]) \in Nat
    BY LeadersLogs
  <2> QED
    BY <1>4, <2>1 DEF Acknowledgements
<1>6. \A j \in Nodes : \A t \in Terms :
        b[j][t] = IF Acknowledges(j, t) THEN Len(g.glog[t]) ELSE a[j][t]
  BY <1>4
<1>7. StepOf(h, a, g, b)
  BY <1>1, <1>3, <1>6 DEF StepOf
<1> QED
  BY <1>5, <1>7

\* At the start nothing is acknowledged.
LEMMA BeforeInit ==
  ASSUME Init, ~Forced
  PROVE  \E h \in Histories : \E a \in Acknowledgements :
           Before(h, a) /\ FromClients(h) /\ Unrepeated(h)
<1>1. PICK h \in Histories : /\ ElectionInv(h)
                             /\ h.elected = [t \in Terms |-> None]
                             /\ h.glog = [t \in Terms |-> <<>>]
  BY ElectionInit
<1>2. PICK a : a = [j \in Nodes |-> [t \in Terms |-> 0]]
  OBVIOUS
<1>3. a \in Acknowledgements
  BY <1>2 DEF Acknowledgements
<1>4. /\ \A i \in Nodes : /\ log[i] = <<>>
                          /\ role[i] = "Follower"
                          /\ commitIndex[i] = 0
                          /\ currentTerm[i] = 0
      /\ 0 \in Terms
      /\ None \notin Nodes
  BY RaftAssumption DEF Init, Terms
<1>5. DOMAIN Queue = {}
  BY DEF Queue, Init, ClusterInit
<1>6. DOMAIN <<>> = {} /\ Len(<<>>) = 0
  OBVIOUS
<1>7. LogInv /\ NetElectionInv
  BY LogInvInit, ElectionInit
<1>8. LogsMatched(h)
  <2>1. Matched(<<>>, h)
    BY <1>6 DEF Matched
  <2> QED
    BY <1>1, <1>4, <1>5, <2>1 DEF LogsMatched
<1>9. \A t \in Terms : \A n : ~Point(h, t, n)
  BY <1>1, <1>6 DEF Point
<1>10. AcksReal(h, a) /\ LeadersAck(a)
  BY <1>1, <1>2, <1>4, <1>6 DEF AcksReal, LeadersAck
<1>11. AcksKept(h, a) /\ WinnersKeep(h, a) /\ CandidatesKeep(h, a)
  BY <1>9 DEF AcksKept, WinnersKeep, CandidatesKeep
<1>12. ElectionsBegin(h)
  <2>1. ASSUME NEW j \in Nodes, NEW c \in Nodes, NEW t \in Terms,
               h.ballot[j][t] = c
        PROVE  t <= currentTerm[c]
    <3>1. t \in Nat /\ currentTerm[j] = 0 /\ currentTerm[c] = 0
      BY <1>4, TermsAreNumbers
    <3>2. ~(t > currentTerm[j])
      BY <1>1, <1>4, <2>1 DEF ElectionInv, BallotsKept
    <3> QED
      BY <3>1, <3>2
  <2>2. \A t \in Terms : Ordered(h.glog[t], t)
    BY <1>1, <1>6 DEF Ordered
  <2> QED
    BY <1>1, <1>4, <2>1, <2>2 DEF ElectionsBegin
<1>13. QueueFits(h, a) /\ CommitsChosen(h, a)
  BY <1>4, <1>5 DEF QueueFits, CommitsChosen
<1>14. FromClients(h) /\ Unrepeated(h)
  BY <1>1, <1>6 DEF FromClients, Unrepeated
<1>15. Before(h, a)
  BY <1>1, <1>7, <1>8, <1>10, <1>11, <1>12, <1>13 DEF Before
<1> QED
  BY <1>3, <1>14, <1>15

\* Histories explain the state, the logs and what is committed.
CommitsExplained ==
    /\ CommitsDense
    /\ CommittedStaysInLog
    /\ \E h \in Histories : \E a \in Acknowledgements :
         Before(h, a) /\ FromClients(h) /\ Unrepeated(h)

LEMMA CommitsExplainedInit ==
  ASSUME Init, ~Forced
  PROVE  CommitsExplained
<1>1. \A n \in Nodes : committed[n] = <<>> /\ commitIndex[n] = 0 /\ log[n] = <<>>
  BY DEF Init
<1>2. CommitsDense
  BY <1>1, EmptySeq DEF CommitsDense
<1>3. CommittedStaysInLog
  BY <1>1, EmptySeq DEF CommittedStaysInLog
<1> QED
  BY <1>2, <1>3, BeforeInit DEF CommitsExplained

LEMMA CommitsExplainedStep ==
  ASSUME N <= 3, MaxPending = 0, NeverEquivocates = Nodes,
         CommitsExplained, [Next]_vars
  PROVE  CommitsExplained'
<1>1. PICK h \in Histories : \E a \in Acknowledgements :
        Before(h, a) /\ FromClients(h) /\ Unrepeated(h)
  BY DEF CommitsExplained
<1>2. PICK a \in Acknowledgements :
        Before(h, a) /\ FromClients(h) /\ Unrepeated(h)
  BY <1>1
<1>3. PICK g \in Histories : \E b \in Acknowledgements : StepOf(h, a, g, b)
  BY <1>2, SomeStep
<1>4. PICK b \in Acknowledgements : StepOf(h, a, g, b)
  BY <1>3
<1>5. Before(g, b)'
  BY <1>2, <1>4, BeforeStep
<1>6. CommittedStaysInLog'
  BY <1>2, <1>4, <1>5, CommittedStep DEF CommitsExplained, Before
<1>7. CommitsDense'
  <2>1. CASE Next
    <3>1. LogInv /\ LogsOrdered'
      BY <1>2, <1>5 DEF Before, LogInv
    <3> QED
      BY <2>1, <3>1, CommitsStep DEF CommitsExplained
  <2>2. CASE UNCHANGED vars
    BY <2>2 DEF CommitsExplained, CommitsDense, vars, nodeVars, logVars
  <2> QED
    BY <2>1, <2>2
<1>8. FromClients(g)' /\ Unrepeated(g)'
  BY <1>2, <1>4, ClientsStep
<1> QED
  BY <1>5, <1>6, <1>7, <1>8 DEF CommitsExplained

LEMMA CommitsAreExplained ==
  ASSUME N <= 3, ~Forced, MaxPending = 0, NeverEquivocates = Nodes
  PROVE  Spec => []CommitsExplained
<1>1. Init => CommitsExplained
  BY CommitsExplainedInit
<1>2. CommitsExplained /\ [Next]_vars => CommitsExplained'
  BY CommitsExplainedStep
<1> QED
  BY <1>1, <1>2, PTL DEF Spec

\* What a node committed: place k of its log is that of the log a leader of
\* an earlier term, or its own, chose.
LEMMA CommittedPlace ==
  ASSUME NEW h \in Histories, NEW a \in Acknowledgements, Before(h, a),
         CommittedStaysInLog, NEW i \in Nodes, NEW k \in 1 .. commitIndex[i]
  PROVE  \E u \in Terms : \E n \in Nat :
           /\ u <= currentTerm[i]
           /\ commitIndex[i] <= n
           /\ k \in 1 .. n
           /\ Chosen(h, a, u, n)
           /\ committed[i][k].payload = h.glog[u][k].payload
<1>1. commitIndex[i] \in Nat /\ commitIndex[i] # 0
  BY NodeLogs, TypeParts DEF Before, LogInv, TypeInv
<1>2. PICK u \in Terms : \E n \in Nat :
        /\ u <= currentTerm[i]
        /\ commitIndex[i] <= n
        /\ Chosen(h, a, u, n)
        /\ Holds(log[i], h.glog[u], commitIndex[i])
  BY <1>1 DEF Before, CommitsChosen
<1>3. PICK n \in Nat :
        /\ u <= currentTerm[i]
        /\ commitIndex[i] <= n
        /\ Chosen(h, a, u, n)
        /\ Holds(log[i], h.glog[u], commitIndex[i])
  BY <1>2
<1>4. log[i][k] = h.glog[u][k]
  BY <1>3 DEF Holds
<1>5. committed[i][k].payload = log[i][k].payload
  BY DEF CommittedStaysInLog
<1>6. k \in 1 .. n
  BY <1>1, <1>3
<1> QED
  BY <1>3, <1>4, <1>5, <1>6

\* With elections as the only way to lead, a driver that completes the queue
\* before every other call and no node that equivocates, nothing a node of a
\* cluster of up to three has committed is cut off or overwritten in its log:
\* Replicate never hands Newly a slice beyond the log, which would panic.
THEOREM CommitsStayInLog ==
  ASSUME N <= 3, ~Forced, MaxPending = 0, NeverEquivocates = Nodes
  PROVE  Spec => []CommittedStaysInLog
<1>1. CommitsExplained => CommittedStaysInLog
  BY DEF CommitsExplained
<1> QED
  BY <1>1, CommitsAreExplained, PTL

\* Under the same assumptions a leader holds what any node committed up to its
\* term.
THEOREM LeadersComplete ==
  ASSUME N <= 3, ~Forced, MaxPending = 0, NeverEquivocates = Nodes
  PROVE  Spec => []LeaderCompleteness
<1>1. CommitsExplained => LeaderCompleteness
  <2> SUFFICES ASSUME CommitsExplained,
                      NEW i \in Nodes, NEW j \in Nodes, role[i] = "Leader",
                      currentTerm[j] <= currentTerm[i]
               PROVE  /\ commitIndex[j] <= Len(log[i])
                      /\ \A k \in 1 .. commitIndex[j] :
                           committed[j][k].payload = log[i][k].payload
    BY DEF LeaderCompleteness
  <2>1. PICK h \in Histories : \E a \in Acknowledgements : Before(h, a)
    BY DEF CommitsExplained
  <2>2. PICK a \in Acknowledgements : Before(h, a)
    BY <2>1
  <2>3. TypeOK
    BY <2>2 DEF Before, LogInv, TypeInv
  <2>4. /\ commitIndex[j] \in Nat
        /\ currentTerm[i] \in Terms /\ currentTerm[i] \in Nat
        /\ currentTerm[j] \in Nat
        /\ Len(log[i]) \in Nat /\ DOMAIN log[i] = 1 .. Len(log[i])
    BY <2>3, NodeLogs
  <2>5. /\ h.glog[currentTerm[i]] = log[i]
        /\ h.elected[currentTerm[i]] # None
    BY <2>2, HistoryTypes DEF Before, LogsMatched, ElectionInv, LeadersElected
  <2>6. ASSUME NEW k \in 1 .. commitIndex[j]
        PROVE  /\ k \in DOMAIN log[i]
               /\ committed[j][k].payload = log[i][k].payload
    <3>1. PICK u \in Terms : \E n \in Nat :
            /\ u <= currentTerm[j]
            /\ commitIndex[j] <= n
            /\ k \in 1 .. n
            /\ Chosen(h, a, u, n)
            /\ committed[j][k].payload = h.glog[u][k].payload
      BY <2>2, <2>6, CommittedPlace DEF CommitsExplained
    <3>2. PICK n \in Nat :
            /\ u <= currentTerm[j]
            /\ commitIndex[j] <= n
            /\ k \in 1 .. n
            /\ Chosen(h, a, u, n)
            /\ committed[j][k].payload = h.glog[u][k].payload
      BY <3>1
    <3>3. u <= currentTerm[i]
      BY <2>4, <3>2, TermsAreNumbers
    <3>4. Holds(h.glog[currentTerm[i]], h.glog[u], n)
      BY <2>2, <2>4, <2>5, <3>2, <3>3, LeadersHold
    <3> QED
      BY <2>5, <3>2, <3>4 DEF Holds
  <2>7. commitIndex[j] <= Len(log[i])
    <3>1. CASE commitIndex[j] = 0
      BY <2>4, <3>1
    <3>2. CASE commitIndex[j] # 0
      <4>1. commitIndex[j] \in DOMAIN log[i]
        BY <2>4, <2>6, <3>2
      <4> QED
        BY <2>4, <4>1
    <3> QED
      BY <3>1, <3>2
  <2> QED
    BY <2>6, <2>7
<1> QED
  BY <1>1, CommitsAreExplained, PTL

\* Under the same assumptions a majority holds every committed entry, although
\* a follower reports the length of its log, entries of older terms that its
\* leader never sent included.
THEOREM MajoritiesHoldCommits ==
  ASSUME N <= 3, ~Forced, MaxPending = 0, NeverEquivocates = Nodes
  PROVE  Spec => []CommitsOnMajority
<1>1. CommitsExplained => CommitsOnMajority
  <2> SUFFICES ASSUME CommitsExplained,
                      NEW i \in Nodes, NEW k \in 1 .. commitIndex[i]
               PROVE  Cardinality({j \in Nodes : k \in DOMAIN log[j]
                        /\ log[j][k].payload = committed[i][k].payload})
                        >= Majority
    BY DEF CommitsOnMajority
  <2>1. PICK h \in Histories : \E a \in Acknowledgements : Before(h, a)
    BY DEF CommitsExplained
  <2>2. PICK a \in Acknowledgements : Before(h, a)
    BY <2>1
  <2>3. PICK u \in Terms : \E n \in Nat :
          /\ u <= currentTerm[i]
          /\ commitIndex[i] <= n
          /\ k \in 1 .. n
          /\ Chosen(h, a, u, n)
          /\ committed[i][k].payload = h.glog[u][k].payload
    BY <2>2, CommittedPlace DEF CommitsExplained
  <2>4. PICK n \in Nat :
          /\ u <= currentTerm[i]
          /\ commitIndex[i] <= n
          /\ k \in 1 .. n
          /\ Chosen(h, a, u, n)
          /\ committed[i][k].payload = h.glog[u][k].payload
    BY <2>3
  <2> DEFINE S == {j \in Nodes : a[j][u] >= n}
             T == {j \in Nodes : k \in DOMAIN log[j]
                     /\ log[j][k].payload = committed[i][k].payload}
  <2>5. Cardinality(S) >= Majority /\ Point(h, u, n)
    BY <2>4 DEF Chosen
  <2>6. ~RuledOut(a, u, n)
    BY <2>4, ChosenNotRuledOut
  <2>7. ASSUME NEW j \in Nodes, j \in S
        PROVE  j \in T
    <3>1. n <= a[j][u]
      <4>1. a[j][u] \in Nat /\ a[j][u] >= n
        BY <2>7 DEF Acknowledgements
      <4> QED
        BY <4>1
    <3>2. Holds(log[j], h.glog[u], n)
      BY <2>2, <2>5, <2>6, <3>1 DEF Before, AcksKept, Keeps
    <3> QED
      BY <2>4, <3>2 DEF Holds
  <2>8. S \in SUBSET Nodes /\ T \in SUBSET Nodes /\ S \subseteq T
    BY <2>7
  <2> HIDE DEF S, T
  <2>9. Cardinality(T) >= Majority
    BY <2>5, <2>8, LargerMajority
  <2> QED
    BY <2>9 DEF T
<1> QED
  BY <1>1, CommitsAreExplained, PTL

-----------------------------------------------------------------------------
(***************************************************************************)
(* The refinement.  What nodes hand out comes from the leaders' logs: it   *)
(* agrees, was proposed, and no node hands out a payload twice.            *)
(***************************************************************************)

\* What the leaders of two terms have chosen agrees.
LEMMA ChosenAgree ==
  ASSUME NEW h \in Histories, NEW a \in Acknowledgements, Before(h, a),
         NEW u \in Terms, NEW n \in Nat, Chosen(h, a, u, n),
         NEW v \in Terms, NEW m \in Nat, Chosen(h, a, v, m), u <= v,
         NEW k \in 1 .. n
  PROVE  h.glog[u][k] = h.glog[v][k]
<1>1. h.elected[v] # None
  <2>1. m \in DOMAIN h.glog[v] /\ DOMAIN <<>> = {}
    BY DEF Chosen, Point
  <2>2. h.elected[v] = None => h.glog[v] = <<>>
    BY DEF Before, LogsMatched
  <2> QED
    BY <2>1, <2>2
<1>2. Holds(h.glog[v], h.glog[u], n)
  BY <1>1, LeadersHold
<1> QED
  BY <1>2 DEF Holds

AgreedOn ==
    \A i, j \in Nodes :
        \A k \in DOMAIN committed[i] \cap DOMAIN committed[j] :
            committed[i][k].payload = committed[j][k].payload

AllProposed ==
    \A i \in Nodes : \A k \in DOMAIN committed[i] :
        committed[i][k].payload \in Proposed

NoneTwice ==
    \A i \in Nodes : \A k, l \in DOMAIN committed[i] :
        committed[i][k].payload = committed[i][l].payload => k = l

LEMMA OneLog ==
  ASSUME CommitsExplained
  PROVE  AgreedOn /\ AllProposed /\ NoneTwice
<1>1. PICK h \in Histories : \E a \in Acknowledgements :
        Before(h, a) /\ FromClients(h) /\ Unrepeated(h)
  BY DEF CommitsExplained
<1>2. PICK a \in Acknowledgements :
        Before(h, a) /\ FromClients(h) /\ Unrepeated(h)
  BY <1>1
<1>3. TypeOK
  BY <1>2 DEF Before, LogInv, TypeInv
<1>4. ASSUME NEW i \in Nodes, NEW k \in DOMAIN committed[i]
      PROVE  \E u \in Terms : \E n \in Nat :
               /\ Chosen(h, a, u, n)
               /\ k \in 1 .. n
               /\ committed[i][k].payload = h.glog[u][k].payload
  <2>1. Len(committed[i]) = commitIndex[i]
    BY DEF CommitsExplained, CommitsDense
  <2>2. committed[i] \in Seq(CommittedEntry)
    BY <1>3 DEF TypeOK
  <2>3. k \in 1 .. commitIndex[i]
    BY <1>4, <2>1, <2>2, LenProperties
  <2>4. CommittedStaysInLog
    BY DEF CommitsExplained
  <2>5. \E u \in Terms : \E n \in Nat :
          /\ u <= currentTerm[i]
          /\ commitIndex[i] <= n
          /\ k \in 1 .. n
          /\ Chosen(h, a, u, n)
          /\ committed[i][k].payload = h.glog[u][k].payload
    BY <1>2, <2>3, <2>4, CommittedPlace
  <2> QED
    BY <2>5
<1>5. ASSUME NEW u \in Terms, NEW n \in Nat, Chosen(h, a, u, n), NEW k \in 1 .. n
      PROVE  k \in DOMAIN h.glog[u]
  <2>1. n \in DOMAIN h.glog[u] /\ DOMAIN h.glog[u] = 1 .. Len(h.glog[u])
        /\ Len(h.glog[u]) \in Nat
    BY <1>5, LeadersLogs DEF Chosen, Point
  <2> QED
    BY <1>5, <2>1
<1>6. AgreedOn
  <2> SUFFICES ASSUME NEW i \in Nodes, NEW j \in Nodes,
                      NEW k \in DOMAIN committed[i] \cap DOMAIN committed[j]
               PROVE  committed[i][k].payload = committed[j][k].payload
    BY DEF AgreedOn
  <2>1. PICK u \in Terms : \E n \in Nat :
               /\ Chosen(h, a, u, n)
               /\ k \in 1 .. n
               /\ committed[i][k].payload = h.glog[u][k].payload
    BY <1>4
  <2>2. PICK n \in Nat :
               /\ Chosen(h, a, u, n)
               /\ k \in 1 .. n
               /\ committed[i][k].payload = h.glog[u][k].payload
    BY <2>1
  <2>3. PICK v \in Terms : \E m \in Nat :
               /\ Chosen(h, a, v, m)
               /\ k \in 1 .. m
               /\ committed[j][k].payload = h.glog[v][k].payload
    BY <1>4
  <2>4. PICK m \in Nat :
               /\ Chosen(h, a, v, m)
               /\ k \in 1 .. m
               /\ committed[j][k].payload = h.glog[v][k].payload
    BY <2>3
  <2>5. u <= v \/ v <= u
    BY TermsAreNumbers
  <2>6. h.glog[u][k] = h.glog[v][k]
    BY <1>2, <2>2, <2>4, <2>5, ChosenAgree
  <2> QED
    BY <2>2, <2>4, <2>6
<1>7. AllProposed
  <2> SUFFICES ASSUME NEW i \in Nodes, NEW k \in DOMAIN committed[i]
               PROVE  committed[i][k].payload \in Proposed
    BY DEF AllProposed
  <2>1. PICK u \in Terms : k \in DOMAIN h.glog[u]
                /\ committed[i][k].payload = h.glog[u][k].payload
    BY <1>4, <1>5
  <2>2. PICK p \in Payloads : h.glog[u][k].payload = <<p, 0>>
                              /\ outcome[p] = "accepted"
    BY <1>2, <2>1 DEF FromClients
  <2> QED
    BY <2>1, <2>2 DEF Proposed
<1>8. NoneTwice
  <2> SUFFICES ASSUME NEW i \in Nodes,
                      NEW k \in DOMAIN committed[i], NEW l \in DOMAIN committed[i],
                      committed[i][k].payload = committed[i][l].payload
               PROVE  k = l
    BY DEF NoneTwice
  <2>1. PICK u \in Terms : k \in DOMAIN h.glog[u]
                /\ committed[i][k].payload = h.glog[u][k].payload
    BY <1>4, <1>5
  <2>2. PICK v \in Terms : l \in DOMAIN h.glog[v]
                /\ committed[i][l].payload = h.glog[v][l].payload
    BY <1>4, <1>5
  <2> QED
    BY <1>2, <2>1, <2>2 DEF Unrepeated
<1> QED
  BY <1>6, <1>7, <1>8

\* What a node has handed out, without the numbers.
LEMMA DeliveredIs ==
  ASSUME TypeOK, NEW i \in Nodes
  PROVE  /\ Len(committed[i]) \in Nat
         /\ DOMAIN committed[i] = 1 .. Len(committed[i])
         /\ Delivered[i] \in Seq(Payload)
         /\ Len(Delivered[i]) = Len(committed[i])
         /\ DOMAIN Delivered[i] = 1 .. Len(committed[i])
         /\ \A k \in 1 .. Len(committed[i]) :
              Delivered[i][k] = committed[i][k].payload
<1>1. committed[i] \in Seq(CommittedEntry)
  BY DEF TypeOK
<1>2. /\ Len(committed[i]) \in Nat
      /\ DOMAIN committed[i] = 1 .. Len(committed[i])
      /\ \A k \in 1 .. Len(committed[i]) : committed[i][k] \in CommittedEntry
  BY <1>1, ElementOfSeq, LenProperties
<1>3. Delivered[i] = [k \in 1 .. Len(committed[i]) |-> committed[i][k].payload]
  BY <1>2 DEF Delivered
<1>4. \A k \in 1 .. Len(committed[i]) : committed[i][k].payload \in Payload
  BY <1>2 DEF CommittedEntry
<1>5. Delivered[i] \in Seq(Payload)
  BY <1>2, <1>3, <1>4
<1>6. DOMAIN Delivered[i] = 1 .. Len(committed[i])
  BY <1>3
<1>7. Len(Delivered[i]) = Len(committed[i])
  BY <1>2, <1>5, <1>6, LenProperties
<1> QED
  BY <1>2, <1>3, <1>5, <1>6, <1>7

\* Some node has handed out most.
LEMMA LongestIs ==
  ASSUME TypeOK
  PROVE  \E n \in Nodes : /\ Longest = Delivered[n]
                          /\ \A m \in Nodes : Len(committed[m])
                                                <= Len(committed[n])
<1> DEFINE G == {k \in Nat : \E b \in Nat : \A m \in Nodes :
                   m < k => Len(committed[m]) <= b}
           B == {b \in Nat : \A m \in Nodes : Len(committed[m]) <= b}
<1>1. \A m \in Nodes : Len(committed[m]) \in Nat
  BY DeliveredIs
<1>2. Nodes = 0 .. N - 1 /\ N \in Nat \ {0}
  BY SizeAssumption DEF Nodes
<1>3. 0 \in G
  BY <1>2
<1>4. ASSUME NEW k \in Nat, k \in G
      PROVE  k + 1 \in G
  <2>1. PICK b \in Nat : \A m \in Nodes : m < k => Len(committed[m]) <= b
    BY <1>4
  <2>2. CASE k \in Nodes
    <3>1. PICK c \in Nat : b <= c /\ Len(committed[k]) <= c
      <4>1. b <= Len(committed[k]) \/ Len(committed[k]) <= b
        BY <1>1, <2>2
      <4> QED
        BY <1>1, <2>2, <4>1
    <3>2. \A m \in Nodes : m < k + 1 => Len(committed[m]) <= c
      BY <1>1, <1>2, <2>1, <3>1
    <3> QED
      BY <3>2
  <2>3. CASE k \notin Nodes
    <3>1. \A m \in Nodes : m < k + 1 => m < k
      BY <1>2, <2>3
    <3> QED
      BY <2>1, <3>1
  <2> QED
    BY <2>2, <2>3
<1> HIDE DEF G
<1>5. N \in G
  BY <1>2, <1>3, <1>4, NumberInduction
<1>6. B \in SUBSET Nat /\ B # {}
  <2>1. PICK b \in Nat : \A m \in Nodes : m < N => Len(committed[m]) <= b
    BY <1>5 DEF G
  <2> QED
    BY <1>2, <2>1
<1>7. PICK b \in B : \A c \in B : b <= c
  BY <1>6, LeastNumber
<1>8. b \in Nat /\ \A m \in Nodes : Len(committed[m]) <= b
  BY <1>7
<1>9. \E n \in Nodes : Len(committed[n]) = b
  <2> SUFFICES ASSUME \A n \in Nodes : Len(committed[n]) # b
               PROVE  FALSE
    OBVIOUS
  <2>1. \A m \in Nodes : Len(committed[m]) <= b - 1
    BY <1>1, <1>8
  <2>2. 0 \in Nodes
    BY <1>2
  <2>3. b - 1 \in Nat
    BY <1>1, <1>8, <2>1, <2>2
  <2>4. b - 1 \in B
    BY <2>1, <2>3
  <2> HIDE DEF B
  <2>5. b <= b - 1
    BY <1>7, <2>4
  <2> QED
    BY <1>8, <2>5
<1> HIDE DEF B
<1>10. \E n \in Nodes : \A m \in Nodes : Len(committed[m]) <= Len(committed[n])
  BY <1>8, <1>9
<1> DEFINE n == CHOOSE n \in Nodes :
                  \A m \in Nodes : Len(committed[m]) <= Len(committed[n])
<1>11. n \in Nodes /\ \A m \in Nodes : Len(committed[m]) <= Len(committed[n])
  BY <1>10
<1>12. Longest = Delivered[n]
  BY DEF Longest
<1> QED
  BY <1>11, <1>12

\* In a step one node hands out more, or none does.
LEMMA DeliveredStep ==
  ASSUME NeverEquivocates = Nodes, TypeInv, TypeOK', CommitsDense,
         [Next]_vars, committed' # committed
  PROVE  /\ UNCHANGED outcome
         /\ \E i \in Nodes :
              /\ Len(committed[i]) < Len(committed'[i])
              /\ \A k \in DOMAIN committed[i] : committed'[i][k] = committed[i][k]
              /\ \A j \in Nodes \ {i} : committed'[j] = committed[j]
<1>1. /\ TypeOK /\ NetTypeOK
      /\ committed \in [Nodes -> Seq(CommittedEntry)]
      /\ commitIndex \in [Nodes -> Nat]
  BY TypeParts DEF TypeInv, TypeOK
<1>2. UNCHANGED outcome
  BY <1>1, OutcomesKept
<1>3. PICK e : Delivers(e) /\ (NoteReplicated(e) \/ Replicate(e))
  BY <1>1, CommitSteps
<1>4. e \in EnvelopeType
  BY <1>3 DEF Delivers
<1>5. PICK l, c : CommitsTo(e.to, l, c)
  BY <1>1, <1>3, <1>4, ReplicateCommits, LeaderCommits
<1>6. PICK i \in Nodes : i = e.to
  BY <1>5 DEF CommitsTo
<1> DEFINE d == commitIndex[i]
           new == Newly(l, d, c)
<1>7. /\ committed' = [committed EXCEPT ![i] = @ \o new]
      /\ c \in Nat /\ d \in Nat /\ d <= c /\ l \in Seq(LogEntry)
      /\ c = d \/ c <= Len(l)
  BY <1>1, <1>5, <1>6 DEF CommitsTo
<1>8. new \in Seq(CommittedEntry) /\ Len(new) = c - d
  BY <1>7, NewlyType
<1>9. /\ committed[i] \in Seq(CommittedEntry)
      /\ Len(committed[i]) = d
      /\ DOMAIN committed[i] = 1 .. d
  BY <1>1, LenProperties DEF CommitsDense
<1> HIDE DEF new, d
<1>10. /\ committed'[i] = committed[i] \o new
       /\ \A j \in Nodes \ {i} : committed'[j] = committed[j]
  BY <1>1, <1>7
<1>11. /\ Len(committed[i] \o new) = c
       /\ \A k \in 1 .. d : (committed[i] \o new)[k] = committed[i][k]
  <2>1. PICK s \in Seq(CommittedEntry) : s = committed[i]
    BY <1>9
  <2>2. /\ Len(s \o new) = Len(s) + Len(new)
        /\ \A k \in 1 .. Len(s) + Len(new) :
             (s \o new)[k] = IF k <= Len(s) THEN s[k]
                                            ELSE new[k - Len(s)]
    BY <1>8, ConcatProperties
  <2>3. Len(s) = d /\ Len(new) = c - d
    BY <1>8, <1>9, <2>1
  <2>4. Len(s \o new) = c
    BY <1>7, <2>2, <2>3
  <2>5. ASSUME NEW k \in 1 .. d PROVE (s \o new)[k] = s[k]
    <3>1. k \in 1 .. Len(s) + Len(new) /\ k <= Len(s)
      BY <1>7, <2>3, <2>5
    <3> QED
      BY <2>2, <3>1
  <2> QED
    BY <2>1, <2>4, <2>5
<1>12. c # d
  <2> SUFFICES ASSUME c = d PROVE FALSE
    OBVIOUS
  <2>1. \A k \in 1 .. Len(committed[i]) :
          (committed[i] \o new)[k] = committed[i][k]
    BY <1>9, <1>11
  <2>2. committed[i] \o new \in Seq(CommittedEntry)
    BY <1>8, <1>9, ConcatProperties
  <2>3. committed[i] \o new = committed[i]
    <3>1. Len(committed[i]) = Len(committed[i] \o new)
      BY <1>9, <1>11
    <3> QED
      BY <1>9, <2>1, <2>2, <3>1, SeqEqual
  <2>4. committed' = committed
    BY <1>1, <1>7, <2>3
  <2> QED
    BY <2>4
<1> QED
  BY <1>2, <1>7, <1>9, <1>10, <1>11, <1>12

\* What committed logs, and what is handed out of them, look like.
DeliveredFits ==
    \A j \in Nodes :
        /\ Len(committed[j]) \in Nat
        /\ DOMAIN committed[j] = 1 .. Len(committed[j])
        /\ Delivered[j] \in Seq(Payload)
        /\ Len(Delivered[j]) = Len(committed[j])
        /\ DOMAIN Delivered[j] = 1 .. Len(committed[j])
        /\ \A k \in 1 .. Len(committed[j]) :
             Delivered[j][k] = committed[j][k].payload

LongestFits ==
    \E n \in Nodes : /\ Longest = Delivered[n]
                     /\ \A m \in Nodes : Len(committed[m])
                                           <= Len(committed[n])

OneLogInv ==
    /\ TypeInv
    /\ CommitsDense
    /\ DeliveredFits
    /\ LongestFits
    /\ AgreedOn
    /\ AllProposed
    /\ NoneTwice

LEMMA OneLogShape == CommitsExplained => OneLogInv
<1> SUFFICES ASSUME CommitsExplained PROVE OneLogInv
  OBVIOUS
<1>1. PICK h \in Histories, a \in Acknowledgements : Before(h, a)
  BY DEF CommitsExplained
<1>2. TypeInv /\ TypeOK /\ CommitsDense
  BY <1>1 DEF CommitsExplained, Before, LogInv, TypeInv
<1>3. DeliveredFits
  BY <1>2, DeliveredIs DEF DeliveredFits
<1>4. LongestFits
  BY <1>2, LongestIs DEF LongestFits
<1>5. AgreedOn /\ AllProposed /\ NoneTwice
  BY OneLog
<1> QED
  BY <1>2, <1>3, <1>4, <1>5 DEF OneLogInv

\* A node that hands out more hands out what the agreed log then holds: it is
\* the log of a node that has handed out most.
LEMMA AbstractDeliver ==
  ASSUME OneLogInv, OneLogInv', UNCHANGED outcome, NEW i \in Nodes,
         Len(committed[i]) < Len(committed'[i]),
         \A k \in DOMAIN committed[i] : committed'[i][k] = committed[i][k],
         \A j \in Nodes \ {i} : committed'[j] = committed[j]
  PROVE  Abstract!Deliver(i)
<1>1. AgreedOn' /\ AllProposed' /\ NoneTwice'
  BY DEF OneLogInv
<1>2. PICK n \in Nodes : /\ Longest = Delivered[n]
                         /\ \A m \in Nodes : Len(committed[m])
                                               <= Len(committed[n])
  BY DEF OneLogInv, LongestFits
<1>3. PICK r \in Nodes : /\ Longest' = Delivered'[r]
                         /\ \A m \in Nodes : Len(committed'[m])
                                               <= Len(committed'[r])
  BY DEF OneLogInv, LongestFits
<1>4. ASSUME NEW j \in Nodes
      PROVE  /\ Len(committed[j]) \in Nat
             /\ DOMAIN committed[j] = 1 .. Len(committed[j])
             /\ Delivered[j] \in Seq(Payload)
             /\ Len(Delivered[j]) = Len(committed[j])
             /\ DOMAIN Delivered[j] = 1 .. Len(committed[j])
             /\ \A k \in 1 .. Len(committed[j]) :
                  Delivered[j][k] = committed[j][k].payload
  BY DEF OneLogInv, DeliveredFits
<1>5. ASSUME NEW j \in Nodes
      PROVE  /\ Len(committed'[j]) \in Nat
             /\ DOMAIN committed'[j] = 1 .. Len(committed'[j])
             /\ Delivered'[j] \in Seq(Payload)
             /\ Len(Delivered'[j]) = Len(committed'[j])
             /\ DOMAIN Delivered'[j] = 1 .. Len(committed'[j])
             /\ \A k \in 1 .. Len(committed'[j]) :
                  Delivered'[j][k] = committed'[j][k].payload
  BY DEF OneLogInv, DeliveredFits
<1>6. Proposed' = Proposed
  BY DEF Proposed
\* What a node has handed out is the beginning of the longest log.
<1>7. ASSUME NEW j \in Nodes, NEW k \in 1 .. Len(committed'[j])
      PROVE  k \in 1 .. Len(committed'[r])
             /\ Delivered'[j][k] = Delivered'[r][k]
  <2>1. Len(committed'[j]) <= Len(committed'[r])
        /\ Len(committed'[j]) \in Nat /\ Len(committed'[r]) \in Nat
    BY <1>3, <1>5
  <2>2. k \in 1 .. Len(committed'[r])
    BY <1>7, <2>1
  <2>3. k \in DOMAIN committed'[j] /\ k \in DOMAIN committed'[r]
    BY <1>5, <1>7, <2>2
  <2>4. committed'[j][k].payload = committed'[r][k].payload
    BY <1>1, <2>3 DEF AgreedOn
  <2> QED
    BY <1>5, <1>7, <2>2, <2>4
<1>8. ASSUME NEW j \in Nodes
      PROVE  /\ Len(committed[j]) <= Len(committed'[j])
             /\ \A k \in 1 .. Len(committed[j]) :
                  Delivered'[j][k] = Delivered[j][k]
  <2>1. /\ Len(committed[j]) <= Len(committed'[j])
        /\ \A k \in DOMAIN committed[j] : committed'[j][k] = committed[j][k]
    <3>1. CASE j = i
      BY <1>4, <1>5, <3>1
    <3>2. CASE j # i
      BY <1>4, <3>2
    <3> QED
      BY <3>1, <3>2
  <2>2. ASSUME NEW k \in 1 .. Len(committed[j])
        PROVE  Delivered'[j][k] = Delivered[j][k]
    <3>1. k \in 1 .. Len(committed'[j])
      BY <1>4, <1>5, <2>1, <2>2
    <3>2. k \in DOMAIN committed[j]
      BY <1>4, <2>2
    <3>3. committed'[j][k] = committed[j][k]
      BY <2>1, <3>2
    <3>4. Delivered'[j][k] = committed'[j][k].payload
      BY <1>5, <3>1
    <3>5. Delivered[j][k] = committed[j][k].payload
      BY <1>4, <2>2
    <3> QED
      BY <3>3, <3>4, <3>5
  <2> QED
    BY <2>1, <2>2
<1>9. PICK L : L = Longest'
  OBVIOUS
<1>10. /\ L \in Seq(Payload)
       /\ Len(L) = Len(committed'[r])
       /\ Len(L) \in Nat
       /\ DOMAIN L = 1 .. Len(L)
       /\ \A k \in 1 .. Len(L) : L[k] = committed'[r][k].payload
       /\ \A j \in Nodes : Len(committed'[j]) <= Len(L)
       /\ \A j \in Nodes : \A k \in 1 .. Len(committed'[j]) :
            Delivered'[j][k] = L[k]
  BY <1>3, <1>5, <1>7, <1>9
\* The first entries of the longest log, as a sequence.
<1>11. ASSUME NEW s \in Seq(Payload), Len(s) <= Len(L),
              \A k \in 1 .. Len(s) : s[k] = L[k]
       PROVE  s = SubSeq(L, 1, Len(s))
  <2>1. Len(s) \in Nat
    BY LenProperties
  <2>2. \A k \in 1 .. Len(s) : L[k] \in Payload
    BY <1>10, <1>11, <2>1, ElementOfSeq
  <2>3. /\ SubSeq(L, 1, Len(s)) \in Seq(Payload)
        /\ Len(SubSeq(L, 1, Len(s))) = Len(s)
        /\ \A k \in 1 .. Len(s) : SubSeq(L, 1, Len(s))[k] = L[k]
    <3>1. /\ SubSeq(L, 1, Len(s)) \in Seq(Payload)
          /\ Len(SubSeq(L, 1, Len(s)))
               = IF 1 <= Len(s) THEN Len(s) - 1 + 1 ELSE 0
          /\ \A k \in 1 .. Len(s) - 1 + 1 :
               SubSeq(L, 1, Len(s))[k] = L[1 + k - 1]
      BY <2>1, <2>2, SubSeqProperties
    <3> QED
      BY <2>1, <3>1
  <2> QED
    BY <1>11, <2>3, SeqEqual
<1>12. Abstract!Agree
  <2>1. Abstract!IsPrefix(Longest, L)
    <3>1. Len(Longest) = Len(committed[n]) /\ Longest \in Seq(Payload)
      BY <1>2, <1>4
    <3>2. Len(Longest) <= Len(L)
      BY <1>4, <1>5, <1>8, <1>10, <3>1
    <3>3. \A k \in 1 .. Len(Longest) : Longest[k] = L[k]
      <4>1. \A k \in 1 .. Len(committed[n]) : k \in 1 .. Len(committed'[n])
        BY <1>4, <1>5, <1>8
      <4> QED
        BY <1>2, <1>8, <1>10, <3>1, <4>1
    <3>4. Longest = SubSeq(L, 1, Len(Longest))
      BY <1>11, <3>1, <3>2, <3>3
    <3>5. SubSeq(Longest, 1, Len(Longest)) = Longest
      BY <3>1, SubSeqFull
    <3> QED
      BY <3>2, <3>4, <3>5 DEF Abstract!IsPrefix
  <2>2. \A k \in DOMAIN L : L[k] \in Proposed
    <3>1. \A k \in 1 .. Len(L) : committed'[r][k].payload \in Proposed'
      BY <1>1, <1>5, <1>10 DEF AllProposed
    <3> QED
      BY <1>6, <1>10, <3>1
  <2>3. Abstract!IsInjective(L)
    <3>1. \A k, m \in 1 .. Len(L) :
            committed'[r][k].payload = committed'[r][m].payload => k = m
      BY <1>1, <1>5, <1>10 DEF NoneTwice
    <3> QED
      BY <1>10, <3>1 DEF Abstract!IsInjective
  <2> QED
    BY <1>9, <2>1, <2>2, <2>3 DEF Abstract!Agree
<1>13. PICK c : c = Len(committed'[i])
  OBVIOUS
<1>14. c \in Len(Delivered[i]) + 1 .. Len(L)
  BY <1>4, <1>5, <1>10, <1>13
<1>15. Delivered'[i] = SubSeq(L, 1, c)
  <2>1. Delivered'[i] \in Seq(Payload) /\ Len(Delivered'[i]) = c
    BY <1>5, <1>13
  <2>2. \A k \in 1 .. c : Delivered'[i][k] = L[k]
    BY <1>10, <1>13
  <2>3. c <= Len(L)
    BY <1>10, <1>13
  <2> QED
    BY <1>11, <2>1, <2>2, <2>3
<1>16. Delivered' = [Delivered EXCEPT ![i] = SubSeq(L, 1, c)]
  <2>1. \A j \in Nodes \ {i} : Delivered'[j] = Delivered[j]
    BY DEF Delivered
  <2>2. /\ Delivered = [m \in Nodes |-> Delivered[m]]
        /\ Delivered' = [m \in Nodes |-> Delivered'[m]]
    BY DEF Delivered
  <2> QED
    BY <1>15, <2>1, <2>2
<1> QED
  BY <1>6, <1>9, <1>12, <1>14, <1>16 DEF Abstract!Deliver

\* Every step of Raft is one of the agreed log, or adds to the proposals.
LEMMA AbstractStep ==
  ASSUME NeverEquivocates = Nodes
  PROVE  OneLogInv /\ OneLogInv' /\ [Next]_vars
           => [Abstract!Next]_(Abstract!vars)
<1> SUFFICES ASSUME OneLogInv, OneLogInv', [Next]_vars
             PROVE  Abstract!Next
  OBVIOUS
<1>1. TypeInv /\ TypeOK /\ NetTypeOK /\ CommitsDense
  BY TypeParts DEF OneLogInv, TypeInv
<1>2. TypeOK'
  BY DEF OneLogInv, TypeInv
<1>3. CASE committed' = committed
  <2>1. UNCHANGED <<Longest, Delivered>>
    BY <1>3 DEF Longest, Delivered
  <2>2. Proposed \subseteq Proposed'
    BY <1>1, OutcomesKept DEF Proposed
  <2> QED
    BY <2>1, <2>2 DEF Abstract!Next, Abstract!Propose
<1>4. CASE committed' # committed
  <2>1. UNCHANGED outcome
    BY <1>1, <1>2, <1>4, DeliveredStep
  <2>2. PICK i \in Nodes :
          /\ Len(committed[i]) < Len(committed'[i])
          /\ \A k \in DOMAIN committed[i] : committed'[i][k] = committed[i][k]
          /\ \A j \in Nodes \ {i} : committed'[j] = committed[j]
    BY <1>1, <1>2, <1>4, DeliveredStep
  <2>3. Abstract!Deliver(i)
    BY <2>1, <2>2, AbstractDeliver
  <2> QED
    BY <2>3 DEF Abstract!Next
<1> QED
  BY <1>3, <1>4

LEMMA AbstractInit == OneLogInv /\ Init => Abstract!Init
<1> SUFFICES ASSUME OneLogInv, Init PROVE Abstract!Init
  OBVIOUS
<1>1. Proposed = {}
  BY DEF Init, Proposed
<1>2. \A n \in Nodes : committed[n] = <<>>
  BY DEF Init
<1>3. Delivered = [n \in Nodes |-> <<>>]
  BY <1>2 DEF Delivered
<1>4. Longest = <<>>
  BY <1>3 DEF OneLogInv, LongestFits
<1> QED
  BY <1>1, <1>3, <1>4 DEF Abstract!Init

\* Raft implements ReplicatedLog, in clusters of at most three nodes that send
\* what they mean: however leaders change and messages are lost or late, nodes
\* hand out prefixes of one growing log, in which each entry was proposed by a
\* client and occurs once.
THEOREM RaftImplementsLog ==
  ASSUME N <= 3, ~Forced, MaxPending = 0, NeverEquivocates = Nodes
  PROVE  Spec => ImplementsLog
<1>1. OneLogInv /\ OneLogInv' /\ [Next]_vars => [Abstract!Next]_(Abstract!vars)
  BY AbstractStep
<1> QED
  BY <1>1, AbstractInit, OneLogShape, CommitsAreExplained, PTL
     DEF Spec, ImplementsLog, Abstract!Spec

\* check_agreement passes whenever it is called, under the same assumptions:
\* two nodes commit one payload for a number.  In five nodes it need not (run
\* raft_minority_commits).
THEOREM SmallClustersAgree ==
  ASSUME N <= 3, ~Forced, MaxPending = 0, NeverEquivocates = Nodes
  PROVE  Spec => []Agreement
<1>1. OneLogInv => Agreement
  <2> SUFFICES ASSUME OneLogInv, NEW i \in HonestNodes, NEW j \in HonestNodes,
                      NEW k \in DOMAIN committed[i],
                      NEW l \in DOMAIN committed[j],
                      committed[j][l].sequence = committed[i][k].sequence
               PROVE  committed[j][l].payload = committed[i][k].payload
    BY DEF Agreement, CheckAgreement, EntriesOf
  <2>1. i \in Nodes /\ j \in Nodes
    BY DEF HonestNodes
  <2>2. k = l
    BY <2>1 DEF OneLogInv, CommitsDense
  <2> QED
    BY <2>1, <2>2 DEF OneLogInv, AgreedOn
<1> QED
  BY <1>1, OneLogShape, CommitsAreExplained, PTL
=============================================================================
