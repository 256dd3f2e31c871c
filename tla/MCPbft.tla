------------------------------- MODULE MCPbft -------------------------------
(***************************************************************************)
(* Instances of Pbft for TLC: the fault configurations of the runs.        *)
(***************************************************************************)
EXTENDS Pbft

Isolate(S) == [NoFaults EXCEPT !.isolated = S]
Lossy == [NoFaults EXCEPT !.lossy = TRUE]
Byzantine(S, b) ==
    [NoFaults EXCEPT !.byzantine = [n \in Nodes |-> IF n \in S THEN b ELSE Honest]]

Equivocate == [Honest EXCEPT !.equivocate = TRUE]
CorruptDigest == [Honest EXCEPT !.corrupt = TRUE]
SelectiveDrop(phases) == [Honest EXCEPT !.drops = phases]

Behaviours ==
    {Equivocate, CorruptDigest, SelectiveDrop({"Commit"}),
     SelectiveDrop({"PrePrepare", "Prepare"})}

LossyConfigs == {Lossy}
IsolationConfigs == {Isolate({n}) : n \in Nodes}
BackupIsolatedConfigs == {Isolate({n}) : n \in Nodes \ {0}}
EquivocatingPrimaryConfigs == {Byzantine({0}, Equivocate)}

\* Each behaviour once: the first primary corrupts digests, the next one
\* withholds its commit votes, a node that is never primary equivocates.
ByzantineConfigs ==
    {Byzantine({0}, CorruptDigest), Byzantine({1}, SelectiveDrop({"Commit"})),
     Byzantine({N - 1}, Equivocate)}

\* The Byzantine scenarios of the README: F nodes that are backups in every
\* view of the run misbehave in one way.
ByzantineBackupConfigs ==
    {Byzantine(S, b) : S \in {T \in SUBSET ((MaxView + 1) .. N - 1) :
                                Cardinality(T) = F},
                       b \in Behaviours}

\* Every fault of the framework, one after another.
FaultyConfigs == LossyConfigs \cup IsolationConfigs \cup ByzantineConfigs

\* One fault the README says PBFT survives: any node out of reach or a backup
\* misbehaving.
OneFaultConfigs == IsolationConfigs \cup ByzantineBackupConfigs

\* A fault that leaves the first primary in place, or nobody for a client to
\* reach.
PrimaryKeptConfigs ==
    BackupIsolatedConfigs \cup ByzantineBackupConfigs \cup {Isolate(Nodes)}

\* The drive of wait_for_leader and of the tests' loops: the queue is run to
\* completion before the cluster is ticked.
TickWhenQuiet == ticking = 0 /\ ticking' # 0 => pending = <<>>

DrivenSpec == Init /\ [][Next /\ TickWhenQuiet]_vars
=============================================================================
