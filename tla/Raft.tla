-------------------------------- MODULE Raft --------------------------------
(***************************************************************************)
(* A cluster of RaftNode (src/src/consensus/raft) driven by the simulated  *)
(* network of module Cluster: elections, log replication and force_leader. *)
(* One variable per field of RaftState, indexed by node.                   *)
(*                                                                         *)
(* Left out: leader_id_atomic, which no handler reads.  The seeded draw of *)
(* an election timeout is a choice from ElectionTimeouts.  committed is    *)
(* never drained, as in module Pbft.                                       *)
(***************************************************************************)
EXTENDS Cluster, CommitLog

LOCAL INSTANCE FiniteSetsExt

CONSTANTS
    None,                \* Option::None of voted_for and leader_id
    HEARTBEAT_INTERVAL,  \* ticks between two heartbeats
    ElectionTimeouts,    \* ELECTION_TIMEOUT_MIN ..= ELECTION_TIMEOUT_MAX
    Forced,              \* force_leader was called on node 0
    MaxTerm,             \* bound: terms an election is started in
    MaxPending           \* bound: messages queued when a call other than
                         \* step is made; 0 is a driver that completes them

ASSUME RaftAssumption ==
    /\ None \notin Nodes
    /\ HEARTBEAT_INTERVAL \in Nat
    /\ ElectionTimeouts \subseteq Nat /\ ElectionTimeouts # {}
    /\ Forced \in BOOLEAN
    /\ MaxTerm \in Nat \ {0}
    /\ MaxPending \in Nat

VARIABLES
    currentTerm,             \* current_term
    votedFor,                \* voted_for
    log,                     \* log[n], a sequence of LogEntry
    commitIndex,             \* commit_index
    role,
    leaderId,                \* leader_id: whom a client is sent to
    nextIndex,               \* next_index[n][peer]
    matchIndex,              \* match_index[n][peer]
    votesReceived,           \* votes_received
    electionTicksRemaining,
    heartbeatTicksRemaining,
    committed,               \* committed[n], in commit order
    outcome                  \* what the client was last told about a payload

termVars == <<currentTerm, votedFor, role, leaderId>>
logVars == <<log, commitIndex, committed>>
leaderVars == <<nextIndex, matchIndex>>
timerVars == <<electionTicksRemaining, heartbeatTicksRemaining>>
nodeVars == <<termVars, logVars, leaderVars, votesReceived, timerVars>>
vars == <<clusterVars, nodeVars, outcome>>

Terms == 0 .. MaxTerm

LogEntry == [term : Terms, index : Nat \ {0}, payload : Payload]

CommittedEntry == [sequence : Nat \ {0}, payload : Payload]

Majority == N \div 2 + 1

LastTerm(l) == IF l = <<>> THEN 0 ELSE l[Len(l)].term

-----------------------------------------------------------------------------
(* Messages *)

RequestVoteMsg(t, i, l) ==
    [type |-> "RequestVote", term |-> t, candidateId |-> i,
     lastLogIndex |-> Len(l), lastLogTerm |-> LastTerm(l)]

RequestVoteResponseMsg(t, granted) ==
    [type |-> "RequestVoteResponse", term |-> t, voteGranted |-> granted]

AppendEntriesMsg(t, i, prev, prevTerm, entries, commit) ==
    [type |-> "AppendEntries", term |-> t, leaderId |-> i,
     prevLogIndex |-> prev, prevLogTerm |-> prevTerm, entries |-> entries,
     leaderCommit |-> commit]

AppendEntriesResponseMsg(t, success, match) ==
    [type |-> "AppendEntriesResponse", term |-> t, success |-> success,
     matchIndex |-> match]

Message ==
    [type : {"RequestVote"}, term : Terms, candidateId : Nodes,
     lastLogIndex : Nat, lastLogTerm : Terms]
    \cup [type : {"RequestVoteResponse"}, term : Terms,
          voteGranted : BOOLEAN]
    \cup [type : {"AppendEntries"}, term : Terms, leaderId : Nodes,
          prevLogIndex : Nat, prevLogTerm : Terms, entries : Seq(LogEntry),
          leaderCommit : Nat]
    \cup [type : {"AppendEntriesResponse"}, term : Terms,
          success : BOOLEAN, matchIndex : Nat]

\* build_append_entries: everything from next on.  prev may lie beyond the
\* leader's log; its term is then sent as 0.
BuildAppendEntries(i, l, next, commit) ==
    LET prev == next - 1 IN
    AppendEntriesMsg(currentTerm[i], i, prev,
                     IF prev \in DOMAIN l THEN l[prev].term ELSE 0,
                     SubSeq(l, next, Len(l)), commit)

\* One AppendEntries for every peer, given the leader's log and next_index.
AppendEntriesToAll(i, l, next) ==
    [k \in 1 .. N - 1 |->
        Envelope(i, Peer(i, k),
                 BuildAppendEntries(i, l, next[Peer(i, k)], commitIndex[i]))]

Reply(e, m) == Consume(<<Envelope(e.to, e.from, m)>>)

\* RaftNode::new, then force_leader on node 0 in new_raft_with_leader.  A
\* missing key of next_index is read as 1.
Init ==
    /\ ClusterInit
    /\ currentTerm = [n \in Nodes |-> IF Forced /\ n = 0 THEN 1 ELSE 0]
    /\ votedFor = [n \in Nodes |-> None]
    /\ log = [n \in Nodes |-> <<>>]
    /\ commitIndex = [n \in Nodes |-> 0]
    /\ role = [n \in Nodes |-> IF Forced /\ n = 0 THEN "Leader" ELSE "Follower"]
    /\ leaderId = [n \in Nodes |-> IF Forced /\ n = 0 THEN 0 ELSE None]
    /\ nextIndex = [n \in Nodes |-> [p \in Nodes |-> 1]]
    /\ matchIndex = [n \in Nodes |-> [p \in Nodes |-> 0]]
    /\ votesReceived = [n \in Nodes |-> 0]
    /\ electionTicksRemaining \in [Nodes -> ElectionTimeouts]
    /\ heartbeatTicksRemaining = [n \in Nodes |-> 0]
    /\ committed = [n \in Nodes |-> <<>>]
    /\ outcome = [p \in Payloads |-> "unsent"]

-----------------------------------------------------------------------------
(* Client proposals *)

\* Bound: the queue a call other than step may find.
Quiet == Len(pending) <= MaxPending

\* Cluster::propose stops at the first reachable node that accepts or names
\* a leader; it then asks that one, reachable or not, and no other node.
Answers(i) == role[i] = "Leader" \/ leaderId[i] # None

Asked ==
    {i \in Nodes :
        /\ ~Isolated(i)
        /\ Answers(i)
        /\ \A j \in Nodes : j < i => Isolated(j) \/ ~Answers(j)}

ProposalTarget(i) == IF role[i] = "Leader" THEN i ELSE leaderId[i]

AppendProposal(i, p) ==
    LET l == Append(log[i], [term |-> currentTerm[i],
                             index |-> Len(log[i]) + 1, payload |-> p])
    IN  /\ log' = [log EXCEPT ![i] = l]
        /\ Enqueue(AppendEntriesToAll(i, l, nextIndex[i]))

ProposeAccepted(p) ==
    /\ Idle /\ Quiet
    /\ outcome[p] # "accepted"
    /\ \E i \in Asked :
         /\ role[ProposalTarget(i)] = "Leader"
         /\ AppendProposal(ProposalTarget(i), <<p, 0>>)
    /\ outcome' = [outcome EXCEPT ![p] = "accepted"]
    /\ UNCHANGED <<inflight, ticking, faults, drops, faultChanges, termVars,
                   commitIndex, committed, leaderVars, votesReceived,
                   timerVars>>

\* Nobody was reached, or the node named is no leader (any more).
ProposeRejected(p) ==
    /\ Idle /\ Quiet
    /\ outcome[p] # "accepted"
    /\ \A i \in Asked : role[ProposalTarget(i)] # "Leader"
    /\ outcome' = [outcome EXCEPT ![p] = "rejected"]
    /\ UNCHANGED <<clusterVars, nodeVars>>

-----------------------------------------------------------------------------
(* Elections *)

IsNewer(i, m) == m.term > currentTerm[i]

\* Mutant: only the terms of the last entries are compared.
UpToDateByTerm(i, m) == m.lastLogTerm >= LastTerm(log[i])

UpToDate(i, m) ==
    \/ m.lastLogTerm > LastTerm(log[i])
    \/ m.lastLogTerm = LastTerm(log[i]) /\ m.lastLogIndex >= Len(log[i])

\* Mutant: the vote already given is not looked at.
GrantsAgain(i, m) == m.term >= currentTerm[i] /\ UpToDate(i, m)

\* A newer term clears the vote; the role of the voter is not looked at.
Grants(i, m) ==
    /\ m.term >= currentTerm[i]
    /\ IsNewer(i, m) \/ votedFor[i] \in {None, m.candidateId}
    /\ UpToDate(i, m)

HandleRequestVote(e) ==
    LET i == e.to
        m == e.msg
        term == IF IsNewer(i, m) THEN m.term ELSE currentTerm[i]
    IN  /\ m.type = "RequestVote"
        /\ currentTerm' = [currentTerm EXCEPT ![i] = term]
        /\ role' = [role EXCEPT ![i] = IF IsNewer(i, m) THEN "Follower" ELSE @]
        /\ leaderId' = [leaderId EXCEPT ![i] = IF IsNewer(i, m) THEN None ELSE @]
        /\ votedFor' =
             [votedFor EXCEPT ![i] = CASE Grants(i, m) -> m.candidateId
                                       [] IsNewer(i, m) /\ ~Grants(i, m) -> None
                                       [] OTHER -> @]
        /\ \E ticks \in ElectionTimeouts :
             electionTicksRemaining' =
               [electionTicksRemaining EXCEPT ![i] =
                  IF Grants(i, m) THEN ticks ELSE @]
        /\ Reply(e, RequestVoteResponseMsg(term, Grants(i, m)))
        /\ UNCHANGED <<logVars, leaderVars, votesReceived,
                       heartbeatTicksRemaining, outcome>>

\* A response of a newer term ends a leadership or a candidacy.  Neither the
\* vote nor leader_id is cleared.
StepDown(e) ==
    LET i == e.to
        m == e.msg
    IN  /\ m.type \in {"RequestVoteResponse", "AppendEntriesResponse"}
        /\ IsNewer(i, m)
        /\ currentTerm' = [currentTerm EXCEPT ![i] = m.term]
        /\ role' = [role EXCEPT ![i] = "Follower"]
        /\ Consume(<<>>)
        /\ UNCHANGED <<votedFor, leaderId, logVars, leaderVars,
                       votesReceived, timerVars, outcome>>

\* The term of the response is not compared with that of the election.
CountsVote(i, m) ==
    /\ m.type = "RequestVoteResponse"
    /\ ~IsNewer(i, m)
    /\ m.voteGranted
    /\ role[i] = "Candidate"

CountVote(e) ==
    LET i == e.to IN
    /\ CountsVote(i, e.msg)
    /\ votesReceived[i] + 1 < Majority
    /\ votesReceived' = [votesReceived EXCEPT ![i] = @ + 1]
    /\ Consume(<<>>)
    /\ UNCHANGED <<termVars, logVars, leaderVars, timerVars, outcome>>

\* The new leader asserts itself with a first AppendEntries to every peer.
WinElection(e) ==
    LET i == e.to
        next == [p \in Nodes |-> IF p = i THEN nextIndex[i][p]
                                          ELSE Len(log[i]) + 1]
    IN  /\ CountsVote(i, e.msg)
        /\ votesReceived[i] + 1 >= Majority
        /\ votesReceived' = [votesReceived EXCEPT ![i] = @ + 1]
        /\ role' = [role EXCEPT ![i] = "Leader"]
        /\ leaderId' = [leaderId EXCEPT ![i] = i]
        /\ nextIndex' = [nextIndex EXCEPT ![i] = next]
        /\ matchIndex' = [matchIndex EXCEPT ![i] = [p \in Nodes |-> 0]]
        /\ Consume(AppendEntriesToAll(i, log[i], next))
        /\ UNCHANGED <<currentTerm, votedFor, logVars, timerVars, outcome>>

-----------------------------------------------------------------------------
(* Log replication *)

\* Mutant: everything up to the commit index is handed out again.
NewlyFromStart(l, a, b) ==
    [k \in 1 .. b |-> [sequence |-> l[k].index, payload |-> l[k].payload]]

\* What poll_committed is given when the commit index moves from a to b.
Newly(l, a, b) ==
    [k \in 1 .. b - a |-> [sequence |-> l[a + k].index,
                           payload |-> l[a + k].payload]]

\* Mutant: an entry of another term is kept.
AppendOnly(l, entry) ==
    IF entry.index > Len(l) THEN Append(l, entry) ELSE l

AppendOrReplace(l, entry) ==
    IF entry.index > Len(l) THEN Append(l, entry)
    ELSE IF l[entry.index].term # entry.term
      THEN Append(SubSeq(l, 1, entry.index - 1), entry)
    ELSE l

\* The loop over the entries of a message: an entry the log has in another
\* term cuts off what follows, one it has in the same term changes nothing,
\* and one beyond the end is pushed, whatever its index.
Merged(l, entries) ==
    LET merged[k \in 0 .. Len(entries)] ==
          IF k = 0 THEN l ELSE AppendOrReplace(merged[k - 1], entries[k])
    IN  merged[Len(entries)]

RejectOldLeader(e) ==
    /\ e.msg.type = "AppendEntries"
    /\ e.msg.term < currentTerm[e.to]
    /\ Reply(e, AppendEntriesResponseMsg(currentTerm[e.to], FALSE, 0))
    /\ UNCHANGED <<nodeVars, outcome>>

\* Mutant: a leader goes on leading.
FollowLeaderKeepsRole(i, m) ==
    /\ m.type = "AppendEntries"
    /\ m.term >= currentTerm[i]
    /\ currentTerm' = [currentTerm EXCEPT ![i] = m.term]
    /\ leaderId' = [leaderId EXCEPT ![i] = m.leaderId]
    /\ \E ticks \in ElectionTimeouts :
         electionTicksRemaining' = [electionTicksRemaining EXCEPT ![i] = ticks]
    /\ UNCHANGED <<role, votedFor, leaderVars, votesReceived,
                   heartbeatTicksRemaining, outcome>>

\* The sender is taken as the leader of its term.  The vote is kept even if
\* the term is new.
FollowLeader(i, m) ==
    /\ m.type = "AppendEntries"
    /\ m.term >= currentTerm[i]
    /\ currentTerm' = [currentTerm EXCEPT ![i] = m.term]
    /\ role' = [role EXCEPT ![i] = "Follower"]
    /\ leaderId' = [leaderId EXCEPT ![i] = m.leaderId]
    /\ \E ticks \in ElectionTimeouts :
         electionTicksRemaining' = [electionTicksRemaining EXCEPT ![i] = ticks]
    /\ UNCHANGED <<votedFor, leaderVars, votesReceived,
                   heartbeatTicksRemaining, outcome>>

\* Mutant: a gap before the new entries goes unnoticed.
NeverMisses(i, m) == FALSE

Misses(i, m) == m.prevLogIndex > Len(log[i])

Conflicts(i, m) ==
    /\ m.prevLogIndex \in DOMAIN log[i]
    /\ log[i][m.prevLogIndex].term # m.prevLogTerm

RefuseGap(e) ==
    LET i == e.to IN
    /\ FollowLeader(i, e.msg)
    /\ Misses(i, e.msg)
    /\ Reply(e, AppendEntriesResponseMsg(e.msg.term, FALSE, Len(log[i])))
    /\ UNCHANGED logVars

RefuseConflict(e) ==
    LET i == e.to
        kept == e.msg.prevLogIndex - 1
    IN  /\ FollowLeader(i, e.msg)
        /\ Conflicts(i, e.msg)
        /\ log' = [log EXCEPT ![i] = SubSeq(@, 1, kept)]
        /\ Reply(e, AppendEntriesResponseMsg(e.msg.term, FALSE, kept))
        /\ UNCHANGED <<commitIndex, committed>>

\* The commit index a follower moves to.
FollowedCommit(i, m, l) ==
    IF m.leaderCommit <= commitIndex[i] THEN commitIndex[i]
    ELSE IF m.leaderCommit <= Len(l) THEN m.leaderCommit
    ELSE Len(l)

\* The length of the whole log is reported, entries of an older term beyond
\* those of the message included.  A commit index beyond the merged log is a
\* slice out of range, which ends the program: there is no such step.
Replicate(e) ==
    LET i == e.to
        m == e.msg
        l == Merged(log[i], m.entries)
        commit == FollowedCommit(i, m, l)
    IN  /\ FollowLeader(i, m)
        /\ ~Misses(i, m)
        /\ ~Conflicts(i, m)
        /\ commit >= commitIndex[i]
        /\ log' = [log EXCEPT ![i] = l]
        /\ commitIndex' = [commitIndex EXCEPT ![i] = commit]
        /\ committed' = [committed EXCEPT ![i] =
                           @ \o Newly(l, commitIndex[i], commit)]
        /\ Reply(e, AppendEntriesResponseMsg(m.term, TRUE, Len(l)))

AcceptsResponse(i, m) ==
    /\ m.type = "AppendEntriesResponse"
    /\ ~IsNewer(i, m)
    /\ role[i] = "Leader"

\* The highest entry of the leader's term that a majority reports to hold.
LeaderCommit(i, match) ==
    LET Committable(n) ==
          /\ log[i][n].term = currentTerm[i]
          /\ Cardinality({p \in Nodes \ {i} : match[p] >= n}) + 1 >= Majority
        candidates == {n \in commitIndex[i] + 1 .. Len(log[i]) : Committable(n)}
    IN  IF candidates = {} THEN commitIndex[i] ELSE Max(candidates)

NoteReplicated(e) ==
    LET i == e.to
        match == [matchIndex[i] EXCEPT ![e.from] = e.msg.matchIndex]
        commit == LeaderCommit(i, match)
    IN  /\ AcceptsResponse(i, e.msg)
        /\ e.msg.success
        /\ matchIndex' = [matchIndex EXCEPT ![i] = match]
        /\ nextIndex' = [nextIndex EXCEPT ![i][e.from] = e.msg.matchIndex + 1]
        /\ commitIndex' = [commitIndex EXCEPT ![i] = commit]
        /\ committed' = [committed EXCEPT ![i] =
                           @ \o Newly(log[i], commitIndex[i], commit)]
        /\ Consume(<<>>)
        /\ UNCHANGED <<termVars, log, votesReceived, timerVars, outcome>>

BackUp(e) ==
    LET i == e.to
        next == IF nextIndex[i][e.from] > 1 THEN nextIndex[i][e.from] - 1 ELSE 1
    IN  /\ AcceptsResponse(i, e.msg)
        /\ ~e.msg.success
        /\ nextIndex' = [nextIndex EXCEPT ![i][e.from] = next]
        /\ Reply(e, BuildAppendEntries(i, log[i], next, commitIndex[i]))
        /\ UNCHANGED <<termVars, logVars, matchIndex, votesReceived,
                       timerVars, outcome>>

\* Every other response hits an early return or is no vote.
Discard(e) ==
    /\ e.msg.type \in {"RequestVoteResponse", "AppendEntriesResponse"}
    /\ ~IsNewer(e.to, e.msg)
    /\ ~CountsVote(e.to, e.msg)
    /\ ~AcceptsResponse(e.to, e.msg)
    /\ Consume(<<>>)
    /\ UNCHANGED <<nodeVars, outcome>>

HandleMessage(e) ==
    \/ HandleRequestVote(e)
    \/ StepDown(e)
    \/ CountVote(e)
    \/ WinElection(e)
    \/ RejectOldLeader(e)
    \/ RefuseGap(e)
    \/ RefuseConflict(e)
    \/ Replicate(e)
    \/ NoteReplicated(e)
    \/ BackUp(e)
    \/ Discard(e)

-----------------------------------------------------------------------------
(* Timers *)

\* Bounds: see Quiet; a tick that would start an election beyond MaxTerm is
\* not made.
TickAllowed ==
    /\ Quiet
    /\ \A i \in Nodes :
         role[i] # "Leader" /\ electionTicksRemaining[i] = 0
           => currentTerm[i] < MaxTerm

Heartbeat(i) ==
    /\ role[i] = "Leader"
    /\ heartbeatTicksRemaining[i] = 0
    /\ heartbeatTicksRemaining' =
         [heartbeatTicksRemaining EXCEPT ![i] = HEARTBEAT_INTERVAL]
    /\ TickTurn(i, AppendEntriesToAll(i, log[i], nextIndex[i]))
    /\ UNCHANGED <<termVars, logVars, leaderVars, votesReceived,
                   electionTicksRemaining, outcome>>

TickLeader(i) ==
    /\ role[i] = "Leader"
    /\ heartbeatTicksRemaining[i] > 0
    /\ heartbeatTicksRemaining' = [heartbeatTicksRemaining EXCEPT ![i] = @ - 1]
    /\ TickTurn(i, <<>>)
    /\ UNCHANGED <<termVars, logVars, leaderVars, votesReceived,
                   electionTicksRemaining, outcome>>

\* Mutant: the countdown runs on at zero.
TickUnderflow(i) ==
    /\ role[i] # "Leader"
    /\ electionTicksRemaining' = [electionTicksRemaining EXCEPT ![i] = @ - 1]
    /\ TickTurn(i, <<>>)
    /\ UNCHANGED <<termVars, logVars, leaderVars, votesReceived,
                   heartbeatTicksRemaining, outcome>>

TickFollower(i) ==
    /\ role[i] # "Leader"
    /\ electionTicksRemaining[i] > 0
    /\ electionTicksRemaining' = [electionTicksRemaining EXCEPT ![i] = @ - 1]
    /\ TickTurn(i, <<>>)
    /\ UNCHANGED <<termVars, logVars, leaderVars, votesReceived,
                   heartbeatTicksRemaining, outcome>>

StartElection(i) ==
    LET term == currentTerm[i] + 1 IN
    /\ role[i] # "Leader"
    /\ electionTicksRemaining[i] = 0
    /\ currentTerm' = [currentTerm EXCEPT ![i] = term]
    /\ role' = [role EXCEPT ![i] = "Candidate"]
    /\ votedFor' = [votedFor EXCEPT ![i] = i]
    /\ votesReceived' = [votesReceived EXCEPT ![i] = 1]
    /\ leaderId' = [leaderId EXCEPT ![i] = None]
    /\ \E ticks \in ElectionTimeouts :
         electionTicksRemaining' = [electionTicksRemaining EXCEPT ![i] = ticks]
    /\ TickTurn(i, Broadcast(i, RequestVoteMsg(term, i, log[i])))
    /\ UNCHANGED <<logVars, leaderVars, heartbeatTicksRemaining, outcome>>

Tick ==
    /\ ticking = 0 => TickAllowed
    /\ \E i \in Nodes :
         Heartbeat(i) \/ TickLeader(i) \/ TickFollower(i) \/ StartElection(i)

-----------------------------------------------------------------------------
BeginStep == StartStep /\ UNCHANGED <<nodeVars, outcome>>

LoseMessage == Lose /\ UNCHANGED <<nodeVars, outcome>>

DeliverMessage ==
    /\ Deliverable
    /\ HandleMessage([Head(inflight) EXCEPT !.msg = Tampered(Head(inflight))])

ChangeFaults ==
    /\ Quiet
    /\ \E c \in FaultConfigs \cup {NoFaults} : SetFaults(c)
    /\ UNCHANGED <<nodeVars, outcome>>

Next ==
    \/ \E p \in Payloads : ProposeAccepted(p) \/ ProposeRejected(p)
    \/ BeginStep
    \/ LoseMessage
    \/ DeliverMessage
    \/ Tick
    \/ ChangeFaults

Spec == Init /\ [][Next]_vars

-----------------------------------------------------------------------------
(* Type invariant *)

EnvelopeType == [from : Nodes, to : Nodes, msg : Message]

\* Every variable keeps its type, the two countdowns included.
TypeOK ==
    /\ pending \in Seq(EnvelopeType)
    /\ inflight \in Seq(EnvelopeType)
    /\ ticking \in Nodes
    /\ faults \in FaultConfigs \cup {NoFaults}
    /\ drops \in 0 .. MaxDrops
    /\ faultChanges \in 0 .. MaxFaultChanges
    /\ currentTerm \in [Nodes -> Terms]
    /\ votedFor \in [Nodes -> Nodes \cup {None}]
    /\ log \in [Nodes -> Seq(LogEntry)]
    /\ commitIndex \in [Nodes -> Nat]
    /\ role \in [Nodes -> {"Follower", "Candidate", "Leader"}]
    /\ leaderId \in [Nodes -> Nodes \cup {None}]
    /\ nextIndex \in [Nodes -> [Nodes -> Nat \ {0}]]
    /\ matchIndex \in [Nodes -> [Nodes -> Nat]]
    /\ votesReceived \in [Nodes -> Nat]
    /\ electionTicksRemaining \in
         [Nodes -> UNION {0 .. t : t \in ElectionTimeouts}]
    /\ heartbeatTicksRemaining \in [Nodes -> 0 .. HEARTBEAT_INTERVAL]
    /\ committed \in [Nodes -> Seq(CommittedEntry)]
    /\ outcome \in [Payloads -> {"unsent", "accepted", "rejected"}]

-----------------------------------------------------------------------------
(* Safety *)

\* Entries sit at the position their index names and terms do not go back
\* along a log, although an entry beyond the end is pushed whatever its index
\* and logs are cut off and overwritten by several leaders.
LogsInOrder ==
    \A n \in Nodes : \A k \in DOMAIN log[n] :
        /\ log[n][k].index = k
        /\ k > 1 => log[n][k - 1].term <= log[n][k].term

\* What a node hands out are the numbers 1, 2, 3, ... up to its commit index,
\* each once: stronger than Integrity and TotalOrder of invariant.rs.
CommitsDense ==
    \A n \in Nodes :
        /\ Len(committed[n]) = commitIndex[n]
        /\ \A k \in DOMAIN committed[n] : committed[n][k].sequence = k

\* A committed entry stays in the log of the node that committed it: nothing
\* cuts a log off below the commit index, which the slice of newly committed
\* entries would answer with a panic.
CommittedStaysInLog ==
    \A n \in Nodes :
        /\ commitIndex[n] <= Len(log[n])
        /\ \A k \in 1 .. commitIndex[n] :
             committed[n][k].payload = log[n][k].payload

\* There is one leader in a term.
ElectionSafety ==
    \A i, j \in Nodes :
        /\ role[i] = "Leader"
        /\ role[j] = "Leader"
        /\ currentTerm[i] = currentTerm[j]
        => i = j

\* Logs that hold an entry of one term at one index are equal up to it.
LogMatching ==
    \A i, j \in Nodes : \A k \in DOMAIN log[i] \cap DOMAIN log[j] :
        log[i][k].term = log[j][k].term
            => SubSeq(log[i], 1, k) = SubSeq(log[j], 1, k)

\* A leader holds what any node committed up to its term: the comparison of
\* logs in RequestVote and the rule about entries of the current term see to
\* it.
LeaderCompleteness ==
    \A i, j \in Nodes :
        /\ role[i] = "Leader"
        /\ currentTerm[j] <= currentTerm[i]
        => /\ commitIndex[j] <= Len(log[i])
           /\ \A k \in 1 .. commitIndex[j] :
                committed[j][k].payload = log[i][k].payload

\* A majority holds every committed entry, although match_index is what a
\* follower reports of a log the leader may not have written.
CommitsOnMajority ==
    \A i \in Nodes : \A k \in 1 .. commitIndex[i] :
        Cardinality({j \in Nodes : k \in DOMAIN log[j]
                        /\ log[j][k].payload = committed[i][k].payload})
            >= Majority

\* check_agreement of invariant.rs over the nodes that are honest and
\* reachable when it is called.
Agreement == CheckAgreement(committed, HonestNodes)

\* Terms never go back, and a node gives its vote away once per term: a stale
\* vote kept over a change of term may only withhold it.
OneVotePerTerm ==
    [][\A n \in Nodes :
          /\ currentTerm'[n] >= currentTerm[n]
          /\ currentTerm'[n] = currentTerm[n] /\ votedFor[n] # None
               => votedFor'[n] = votedFor[n]]_vars

\* A leader never overwrites or drops an entry of its own log while it leads.
LeaderAppendsOnly ==
    [][\A n \in Nodes :
          role[n] = "Leader" /\ role'[n] = "Leader"
              => /\ Len(log'[n]) >= Len(log[n])
                 /\ SubSeq(log'[n], 1, Len(log[n])) = log[n]]_vars

-----------------------------------------------------------------------------
(* The promise of module ReplicatedLog *)

Proposed == {<<p, 0>> : p \in {q \in Payloads : outcome[q] # "unsent"}}

Delivered ==
    [n \in Nodes |-> [k \in DOMAIN committed[n] |-> committed[n][k].payload]]

\* The log of a node that has handed out most.
Longest ==
    LET n == CHOOSE n \in Nodes :
               \A m \in Nodes : Len(committed[m]) <= Len(committed[n])
    IN  Delivered[n]

Abstract == INSTANCE ReplicatedLog WITH
    proposed <- Proposed,
    agreed <- Longest,
    delivered <- Delivered

\* However leaders change, all nodes hand out prefixes of one growing log, in
\* which each proposal occurs once at most.
ImplementsLog == Abstract!Spec
=============================================================================
