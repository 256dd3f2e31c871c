-------------------------- MODULE CommitLogProofs --------------------------
(***************************************************************************)
(* What the checks of invariant.rs accept, for logs of any length of any   *)
(* finite number of nodes.                                                 *)
(***************************************************************************)
EXTENDS MCCommitLog, SequenceTheorems, FiniteSetTheorems, TLAPS

Entry == [sequence : 1 .. MaxSeq, payload : Payloads]

LogsTyped == commits \in [Recorded -> Seq(Entry)]

LEMMA LogsAreTyped == Spec => []LogsTyped
<1>1. Init => LogsTyped
  BY EmptySeq DEF Init, LogsTyped
<1>2. LogsTyped /\ [Next]_commits => LogsTyped'
  <2> SUFFICES ASSUME LogsTyped, NEW n \in Recorded, NEW s \in 1 .. MaxSeq,
                      NEW p \in Payloads, RecordCommit(n, s, p)
               PROVE  LogsTyped'
    BY DEF Next, LogsTyped
  <2> DEFINE e == [sequence |-> s, payload |-> p]
  <2>1. e \in Entry
    BY DEF Entry
  <2>2. commits' = [commits EXCEPT ![n] = Append(commits[n], e)]
    BY DEF RecordCommit
  <2> HIDE DEF e
  <2>3. Append(commits[n], e) \in Seq(Entry)
    BY <2>1, AppendProperties DEF LogsTyped
  <2> QED
    BY <2>2, <2>3 DEF LogsTyped
<1> QED
  BY <1>1, <1>2, PTL DEF Spec

\* A node the checks look at holds a sequence of entries.
LEMMA HonestLog ==
  ASSUME LogsTyped, NEW n \in Honest
  PROVE  /\ commits[n] \in Seq(Entry)
         /\ Len(commits[n]) \in Nat
         /\ DOMAIN commits[n] = 1 .. Len(commits[n])
         /\ \A k \in 1 .. Len(commits[n]) : commits[n][k] \in Entry
         /\ commits[n] = <<>> <=> Len(commits[n]) = 0
<1>1. commits[n] \in Seq(Entry)
  BY DEF LogsTyped, Recorded
<1> QED
  BY <1>1, LenProperties, ElementOfSeq, EmptySeq

\* Two nodes that committed make the check of the total order compare.
LEMMA TwoReferences ==
  ASSUME NEW m \in Honest, NEW n \in Honest, m # n,
         commits[m] # <<>>, commits[n] # <<>>
  PROVE  ~(Cardinality(PossibleReferences(commits, Honest)) < 2)
<1> DEFINE refs == PossibleReferences(commits, Honest)
<1>1. refs \subseteq Honest /\ {m, n} \subseteq refs
  BY DEF PossibleReferences
<1>2. IsFiniteSet(refs)
  BY <1>1, FiniteAssumption, FS_Subset
<1>3. Cardinality({m} \cup {n}) = 2
  <2>1. IsFiniteSet({m}) /\ Cardinality({m}) = 1 /\ n \notin {m}
    BY FS_Singleton
  <2> QED
    BY <2>1, FS_AddElement
<1>4. {m} \cup {n} \in SUBSET refs
  BY <1>1
<1> HIDE DEF refs
<1>5. Cardinality(refs) \in Nat
  BY <1>2, FS_CardinalityType
<1>6. Cardinality({m} \cup {n}) <= Cardinality(refs)
  BY <1>2, <1>4, FS_Subset
<1> QED
  BY <1>3, <1>5, <1>6 DEF refs

\* When every check passes, the honest nodes hold the same log, whatever
\* reference the check of the total order took.
THEOREM ChecksMeanSameLog == Spec => []AllChecksMeanSameLog
<1>1. ASSUME LogsTyped PROVE AllChecksMeanSameLog
  <2> SUFFICES ASSUME CheckAgreement(commits, Honest),
                      CheckTermination(commits, Honest, MaxLen),
                      TRUE \in CheckTotalOrder(commits, Honest),
                      NEW m \in Honest, NEW n \in Honest, m # n
               PROVE  commits[m] = commits[n]
    BY DEF AllChecksMeanSameLog
  <2>1. Len(commits[m]) = Len(commits[n])
    BY DEF CheckTermination
  <2>2. CASE commits[m] = <<>> \/ commits[n] = <<>>
    BY <1>1, <2>1, <2>2, HonestLog
  <2>3. CASE commits[m] # <<>> /\ commits[n] # <<>>
    <3>1. ~(Cardinality(PossibleReferences(commits, Honest)) < 2)
      BY <2>3, TwoReferences
    <3>2. PICK ref \in PossibleReferences(commits, Honest) :
            TotalOrderAgainst(commits, Honest, ref)
      BY <3>1, Zenon DEF CheckTotalOrder
    <3>3. ref \in Honest /\ Len(commits[ref]) = Len(commits[m])
      BY DEF PossibleReferences, CheckTermination
    <3>4. ASSUME NEW k \in 1 .. Len(commits[m])
          PROVE  commits[m][k] = commits[n][k]
      <4>1. /\ k \in DOMAIN commits[ref] /\ k \in DOMAIN commits[m]
            /\ k \in DOMAIN commits[n]
        BY <1>1, <2>1, <3>3, HonestLog
      <4>2. commits[m][k].sequence = commits[n][k].sequence
        BY <3>2, <4>1 DEF TotalOrderAgainst
      <4>3. /\ commits[m][k] \in EntriesOf(commits[m])
            /\ commits[n][k] \in EntriesOf(commits[n])
        BY <4>1 DEF EntriesOf
      <4>4. commits[m][k].payload = commits[n][k].payload
        BY <4>2, <4>3 DEF CheckAgreement
      <4>5. commits[m][k] \in Entry /\ commits[n][k] \in Entry
        BY <1>1, <2>1, HonestLog
      <4> QED
        BY <4>2, <4>4, <4>5 DEF Entry
    <3>5. commits[m] \in Seq(Entry) /\ commits[n] \in Seq(Entry)
      BY <1>1, HonestLog
    <3> QED
      BY <2>1, <3>4, <3>5, SeqEqual
  <2> QED
    BY <2>2, <2>3
<1> QED
  BY <1>1, LogsAreTyped, PTL

\* One log is a prefix of another when it is no longer and they agree on the
\* positions they share.
LEMMA PrefixPositions ==
  ASSUME LogsTyped, NEW m \in Honest, NEW n \in Honest
  PROVE  IsPrefix(Sequences(m), Sequences(n)) <=>
           /\ Len(commits[m]) <= Len(commits[n])
           /\ \A k \in 1 .. Len(commits[m]) :
                commits[m][k].sequence = commits[n][k].sequence
<1> DEFINE s == Sequences(m)
           t == Sequences(n)
           a == Len(commits[m])
           b == Len(commits[n])
<1>1. /\ a \in Nat /\ b \in Nat
      /\ s = [k \in 1 .. a |-> commits[m][k].sequence]
      /\ t = [k \in 1 .. b |-> commits[n][k].sequence]
  BY HonestLog DEF Sequences
<1>2. /\ \A k \in 1 .. a : commits[m][k].sequence \in 1 .. MaxSeq
      /\ \A k \in 1 .. b : commits[n][k].sequence \in 1 .. MaxSeq
  BY HonestLog DEF Entry
<1>3. s \in Seq(1 .. MaxSeq) /\ t \in Seq(1 .. MaxSeq)
  BY <1>1, <1>2, SeqDef
<1> HIDE DEF s, t, a, b
<1>4. Len(s) = a /\ Len(t) = b
  BY <1>1, <1>3, LenProperties
<1>5. ASSUME a <= b
      PROVE  SubSeq(s, 1, a) = SubSeq(t, 1, a) <=> \A k \in 1 .. a : s[k] = t[k]
  <2>1. /\ SubSeq(s, 1, a) = [k \in 1 .. a |-> s[k]]
        /\ SubSeq(t, 1, a) = [k \in 1 .. a |-> t[k]]
    BY <1>1, <1>3, <1>4, <1>5
  <2> QED
    BY <2>1
<1>6. a <= b => \A k \in 1 .. a : /\ s[k] = commits[m][k].sequence
                                  /\ t[k] = commits[n][k].sequence
  BY <1>1
<1> QED
  BY <1>4, <1>5, <1>6 DEF IsPrefix, s, t, a, b

\* The check of the total order accepts exactly the logs that are prefixes of
\* one order of the numbers, over all references it may take.
THEOREM PrefixesAccepted == Spec => []TotalOrderMeansPrefixes
<1> DEFINE refs == PossibleReferences(commits, Honest)
           results == CheckTotalOrder(commits, Honest)
<1>1. ASSUME LogsTyped, results = {TRUE}, NEW m \in Honest, NEW n \in Honest
      PROVE  Comparable(m, n)
  <2>1. Len(commits[m]) \in Nat /\ Len(commits[n]) \in Nat
    BY <1>1, HonestLog
  <2>2. CASE commits[m] = <<>> \/ commits[n] = <<>>
    BY <1>1, <2>1, <2>2, HonestLog, PrefixPositions DEF Comparable
  <2>3. CASE m = n
    BY <1>1, <2>1, <2>3, PrefixPositions DEF Comparable
  <2>4. CASE commits[m] # <<>> /\ commits[n] # <<>> /\ m # n
    <3>1. ~(Cardinality(refs) < 2)
      BY <2>4, TwoReferences
    <3>2. m \in refs
      BY <2>4 DEF PossibleReferences
    <3>3. TotalOrderAgainst(commits, Honest, m) \in results
      BY <3>1, <3>2 DEF CheckTotalOrder
    <3>4. TotalOrderAgainst(commits, Honest, m)
      BY <1>1, <3>3
    <3>5. \A k \in DOMAIN commits[m] \cap DOMAIN commits[n] :
            commits[m][k].sequence = commits[n][k].sequence
      BY <3>4 DEF TotalOrderAgainst
    <3>6. \A k \in 1 .. Len(commits[m]) : k <= Len(commits[n]) =>
            commits[m][k].sequence = commits[n][k].sequence
      BY <1>1, <2>1, <3>5, HonestLog
    <3> QED
      BY <1>1, <2>1, <3>6, PrefixPositions DEF Comparable
  <2> QED
    BY <2>2, <2>3, <2>4
<1>2. ASSUME LogsTyped, \A m, n \in Honest : Comparable(m, n)
      PROVE  results = {TRUE}
  <2>1. ASSUME NEW ref \in refs
        PROVE  TotalOrderAgainst(commits, Honest, ref)
    <3> SUFFICES ASSUME NEW n \in Honest,
                        NEW k \in DOMAIN commits[ref] \cap DOMAIN commits[n]
                 PROVE  commits[ref][k].sequence = commits[n][k].sequence
      BY DEF TotalOrderAgainst
    <3>1. ref \in Honest
      BY DEF PossibleReferences
    <3>2. Comparable(ref, n)
      BY <1>2, <3>1
    <3>3. k \in 1 .. Len(commits[ref]) /\ k \in 1 .. Len(commits[n])
      BY <1>2, <3>1, HonestLog
    <3> QED
      BY <1>2, <3>1, <3>2, <3>3, PrefixPositions DEF Comparable
  <2>2. CASE Cardinality(refs) < 2
    BY <2>2 DEF CheckTotalOrder
  <2>3. CASE ~(Cardinality(refs) < 2)
    <3>1. refs # {}
      BY <2>3, FS_EmptySet
    <3>2. results = {TotalOrderAgainst(commits, Honest, ref) : ref \in refs}
      BY <2>3 DEF CheckTotalOrder
    <3>3. \A ref \in refs : TotalOrderAgainst(commits, Honest, ref) = TRUE
      BY <2>1 DEF TotalOrderAgainst
    <3> HIDE DEF refs, results
    <3> QED
      BY <3>1, <3>2, <3>3
  <2> QED
    BY <2>2, <2>3
<1>3. LogsTyped => TotalOrderMeansPrefixes
  BY <1>1, <1>2 DEF TotalOrderMeansPrefixes
<1> QED
  BY <1>3, LogsAreTyped, PTL
=============================================================================
