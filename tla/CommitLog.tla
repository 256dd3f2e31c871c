----------------------------- MODULE CommitLog -----------------------------
(***************************************************************************)
(* The safety checks of src/src/cluster/invariant.rs, as operators on what *)
(* the nodes committed: commits[n] is the sequence of entries, each with   *)
(* its sequence number and payload, recorded for node n.  A node nothing   *)
(* was recorded for (no key in the code's map) has the empty sequence: the *)
(* cluster never records an empty list.                                    *)
(***************************************************************************)
EXTENDS Naturals, Sequences, FiniteSets

EntriesOf(log) == {log[k] : k \in DOMAIN log}

\* check_agreement gathers every payload seen at a sequence number and
\* compares all of them with one of them, whichever the map yields first.
CheckAgreement(commits, honest) ==
    LET all == UNION {EntriesOf(commits[n]) : n \in honest} IN
    \A first \in all : \A other \in all :
        other.sequence = first.sequence => other.payload = first.payload

CheckValidity(commits, honest, proposed) ==
    \A n \in honest : \A e \in EntriesOf(commits[n]) : e.payload \in proposed

\* check_integrity fails at the first entry whose number was seen before.
CheckIntegrity(commits, honest) ==
    \A n \in honest : \A l \in DOMAIN commits[n] :
        ~ \E k \in 1 .. l - 1 : commits[n][k].sequence = commits[n][l].sequence

\* Mutant: a node that committed less than expected passes.
TerminationAtMost(commits, honest, expectedCount) ==
    \A n \in honest : Len(commits[n]) <= expectedCount

CheckTermination(commits, honest, expectedCount) ==
    \A n \in honest : Len(commits[n]) = expectedCount

\* Mutant: the comparison starts at the second position.
TotalOrderSkipsFirst(commits, honest, ref) ==
    \A n \in honest : \A k \in DOMAIN commits[ref] \cap DOMAIN commits[n] :
        k = 1 \/ commits[ref][k].sequence = commits[n][k].sequence

\* check_total_order compares position by position, up to the shorter of the
\* two, the log of one node with every other.  That node is the first the
\* iteration of a HashSet yields, an arbitrary honest node that committed.
TotalOrderAgainst(commits, honest, ref) ==
    \A n \in honest : \A k \in DOMAIN commits[ref] \cap DOMAIN commits[n] :
        commits[ref][k].sequence = commits[n][k].sequence

PossibleReferences(commits, honest) == {n \in honest : commits[n] # <<>>}

\* The results the check may return: TRUE is Pass.
CheckTotalOrder(commits, honest) ==
    LET refs == PossibleReferences(commits, honest) IN
    IF Cardinality(refs) < 2 THEN {TRUE}
    ELSE {TotalOrderAgainst(commits, honest, ref) : ref \in refs}

\* What InvariantResult::total_order documents: numbers that two honest nodes
\* both committed are in the same relative order on both.
SameRelativeOrder(commits, honest) ==
    \A m, n \in honest :
        \A a, b \in DOMAIN commits[m], c, d \in DOMAIN commits[n] :
            /\ commits[m][a].sequence = commits[n][c].sequence
            /\ commits[m][b].sequence = commits[n][d].sequence
            /\ a < b
            => c <= d
=============================================================================
