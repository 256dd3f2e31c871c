------------------------------- MODULE MCRaft -------------------------------
(***************************************************************************)
(* Instances of Raft for TLC: the fault configurations of the runs.        *)
(***************************************************************************)
EXTENDS Raft, TLC

Isolate(S) == [NoFaults EXCEPT !.isolated = S]
Lossy == [NoFaults EXCEPT !.lossy = TRUE]
Byzantine(S, b) ==
    [NoFaults EXCEPT !.byzantine = [n \in Nodes |-> IF n \in S THEN b ELSE Honest]]

Equivocate == [Honest EXCEPT !.equivocate = TRUE]
SelectiveDrop(phases) == [Honest EXCEPT !.drops = phases]

\* Messages lost, a node out of reach, or a link cut one way.
CrashConfigs ==
    {Lossy, Isolate({0}), Isolate({N - 1}),
     [NoFaults EXCEPT !.partitions = {<<0, 1>>}]}

\* Any fault, an equivocating leader and nobody in reach included.
AnyConfigs ==
    {Lossy, Isolate({0}), Isolate({2}), Isolate(Nodes),
     Byzantine({0}, Equivocate), Byzantine({1}, SelectiveDrop({"AppendEntries"}))}

\* Five nodes: node 0 leads term 1, is out of reach while node 1 is elected
\* for term 2, comes back, and then nodes 1 and 2 are cut off from the rest.
\* Which proposals are made, and everything else, is left open.
Minority == {1, 2}
Split ==
    [NoFaults EXCEPT !.partitions =
       (Minority \X (Nodes \ Minority)) \cup ((Nodes \ Minority) \X Minority)]
SplitConfigs == {Isolate({0}), Split}

FaultsInTurn ==
    faults' = CASE faultChanges' \in {0, 2} -> NoFaults
                [] faultChanges' = 1 -> Isolate({0})
                [] OTHER -> Split

CandidatesInTurn ==
    \A n \in Nodes :
        role'[n] = "Candidate" => n = IF currentTerm'[n] = 2 THEN 1 ELSE 0

\* What a proposal carries is only compared with other payloads.
Symmetry == Permutations(Payloads)

SplitSpec == Init /\ [][Next /\ FaultsInTurn /\ CandidatesInTurn]_vars
=============================================================================
