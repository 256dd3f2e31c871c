---------------------------- MODULE MCCommitLog ----------------------------
(***************************************************************************)
(* The checks of CommitLog run on every log the cluster can have recorded, *)
(* within small bounds, and compared with what their documentation says.   *)
(* The entries the protocols produce are arbitrary here: numbers may be    *)
(* skipped, repeated or out of order.                                      *)
(***************************************************************************)
EXTENDS CommitLog, SequencesExt

CONSTANTS Honest, Faulty, Payloads, MaxSeq, MaxLen

ASSUME FiniteAssumption == IsFiniteSet(Honest)

Recorded == Honest \cup Faulty

VARIABLE commits     \* CommitLog::commits

Init == commits = [n \in Recorded |-> <<>>]

\* The driver records commits as it polls them, node by node; a list of
\* several entries is recorded one entry at a time.
RecordCommit(n, s, p) ==
    /\ Len(commits[n]) < MaxLen
    /\ commits' = [commits EXCEPT
                     ![n] = Append(@, [sequence |-> s, payload |-> p])]

Next ==
    \E n \in Recorded, s \in 1 .. MaxSeq, p \in Payloads : RecordCommit(n, s, p)

Spec == Init /\ [][Next]_commits

Symmetry == Permutations(Honest) \cup Permutations(Payloads)

-----------------------------------------------------------------------------
Sequences(n) == [k \in DOMAIN commits[n] |-> commits[n][k].sequence]

Comparable(m, n) ==
    \/ IsPrefix(Sequences(m), Sequences(n))
    \/ IsPrefix(Sequences(n), Sequences(m))

\* Whichever node the check takes as its reference, it accepts logs that are
\* all prefixes of one order; logs that are not, some reference shows up.
TotalOrderMeansPrefixes ==
    CheckTotalOrder(commits, Honest) = {TRUE} <=>
        \A m, n \in Honest : Comparable(m, n)

\* What a test that sees every check pass may conclude, whatever reference
\* was taken: the honest nodes hold the same log, entry by entry.
AllChecksMeanSameLog ==
    /\ CheckAgreement(commits, Honest)
    /\ CheckIntegrity(commits, Honest)
    /\ CheckTermination(commits, Honest, MaxLen)
    /\ TRUE \in CheckTotalOrder(commits, Honest)
    => \A m, n \in Honest : commits[m] = commits[n]
=============================================================================
