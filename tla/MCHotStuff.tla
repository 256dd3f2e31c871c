----------------------------- MODULE MCHotStuff -----------------------------
(***************************************************************************)
(* Instances of HotStuff for TLC: the fault configurations of the runs.    *)
(***************************************************************************)
EXTENDS HotStuff

Isolate(S) == [NoFaults EXCEPT !.isolated = S]
Lossy == [NoFaults EXCEPT !.lossy = TRUE]
Byzantine(S, b) ==
    [NoFaults EXCEPT !.byzantine = [n \in Nodes |-> IF n \in S THEN b ELSE Honest]]

Equivocate == [Honest EXCEPT !.equivocate = TRUE]
CorruptDigest == [Honest EXCEPT !.corrupt = TRUE]
SelectiveDrop(phases) == [Honest EXCEPT !.drops = phases]

BackupIsolatedConfigs == {Isolate({n}) : n \in Nodes \ {0}}
IsolatedLossyConfigs == {[Isolate({0}) EXCEPT !.lossy = TRUE]}

\* Each behaviour once: the first leader corrupts digests, the next one
\* withholds its votes, a node that never leads equivocates.
ByzantineConfigs ==
    {Byzantine({0}, CorruptDigest), Byzantine({1}, SelectiveDrop({"Vote"})),
     Byzantine({N - 1}, Equivocate)}

\* Every fault of the framework.  Either leader or a replica is isolated, two
\* replicas are, which is one node more than the cluster is meant to survive,
\* or nobody is left for a client to reach.
FaultyConfigs ==
    {Lossy} \cup {Isolate(S) : S \in {{0}, {1}, {3}, {2, 3}, Nodes}}
    \cup ByzantineConfigs

\* The tests of the fault scenarios install the fault first.
FaultFirst == faults = NoFaults => faults' # NoFaults

FaultFirstSpec == Init /\ [][Next /\ FaultFirst]_vars /\ Fairness
=============================================================================
