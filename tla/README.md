# A verification of bft-consensus-bench

TLA+ modules for the three consensus protocols of this repository (PBFT,
HotStuff, Raft), the simulated network they run on and the invariant checker
that judges them; TLC runs over small clusters; TLAPS proofs for clusters of
any size. Paths below are relative to the repository, `pbft/state.rs` stands
for `src/consensus/pbft/state.rs` and so on.

## 1. The system

| Component | State it keeps | Operations |
|-----------|----------------|------------|
| `Cluster` (`cluster/mod.rs`) | the nodes, the FIFO queue `pending`, the `FaultConfig`, statistics, the `CommitLog` | `propose`, `step`, `tick`, `run_to_completion`, `wait_for_leader`, `set_faults`, `clear_faults`, `collect_and_record_commits`, `check_invariants` |
| `FaultConfig` (`cluster/fault.rs`) | drop rate and its RNG, partitions, isolated nodes, Byzantine behaviours per node | `should_deliver`, `tamper` |
| `CommitLog` (`cluster/invariant.rs`) | the proposals, the commits per node | `record_*`, `check` with its five checks |
| `PbftNode` | view, next sequence, slots with voters, payloads, timer, view-change votes | `propose`, `handle_message` (5 messages), `tick`, `poll_committed` |
| `HotStuffNode` | view, next sequence, slots with votes, payloads, highest QC, timer, new-view votes | `propose`, `handle_message` (4 messages), `tick`, `poll_committed` |
| `RaftNode` | term, vote, log, commit index, role, next/match index, timers | `force_leader`, `propose`, `handle_message` (4 messages), `tick`, `poll_committed` |
| Benchmarks, report, `main.rs` | timings | drive `Cluster`; not modelled |

**Interaction.** A node never calls another: every handler returns messages,
which the cluster appends to its queue. `step` takes the whole queue, asks the
fault configuration about each message, and delivers the survivors in order;
what their handlers send waits for the next step. `tick` calls every node's
`tick` in id order. The cluster is `&mut self` throughout, so proposals,
steps, ticks and fault changes do not overlap, but a caller may put any of
them between any two others, with messages in the queue.

**What is hard.** Ticks, proposals and fault changes between two steps, so
that timers expire while the answers that would stop them are queued; lost
messages which nothing retransmits (PBFT, HotStuff); nodes isolated and
reconnected with an old view or term; view changes that drop, keep or
overwrite slots; votes counted without being compared; sequence numbers handed
out again; Byzantine senders that show receivers different payloads; a checker
whose verdict depends on the iteration order of a `HashSet`. `PROJECT.json`
lists these at their lines, with the properties that guard them or why none
does.

**What correct means.** Network: in order, nothing is made up. PBFT and
HotStuff: within a view one payload per number, commits backed by quorums,
views entered by quorums, payloads never missing at commit; over views, the
checks of `invariant.rs` under the drive the tests use; accepted proposals
commit while the leader stays; a dead leader is replaced. Raft: one leader per
term, matching logs, committed entries survive. Checker: it accepts exactly
what it says.

## 2. Modules

| Module | Models | Extends |
|--------|--------|---------|
| `Cluster` | queue, step, tick, faults: everything that does not depend on the protocol | |
| `CommitLog` | the five checks, as operators on what was committed | |
| `Pbft`, `HotStuff`, `Raft` | a cluster of such nodes, with `Cluster::propose` | `Cluster`, `CommitLog` |
| `Consensus` | abstract: what PBFT and HotStuff promise per slot, a slot being a number of a view | |
| `ReplicatedLog` | abstract: one agreed log that grows, every node hands out a prefix | |
| `MCPbft`, `MCHotStuff`, `MCRaft` | fault configurations and drives of the runs | the protocol |
| `MCCommitLog` | the checker on all small logs | `CommitLog` |
| `ConsensusProofs` | `Consensus` gives agreement | `Consensus` |
| `PbftProofs`, `PbftConsensusProofs` | types, claims, payloads and views; quorums, the refinement and the order of commits | `Pbft`, the one before |
| `HotStuffProofs`, `HotStuffConsensusProofs` | types, views and payloads; slots, quorums, the refinement and the order of commits | `HotStuff`, the one before |
| `RaftProofs`, `RaftLogProofs` | types, the order of logs and commits, votes and elections; matching logs, what is committed, the refinement | `Raft`, the one before |
| `CommitLogProofs` | what the checker accepts | `MCCommitLog` |

**How state and actions correspond.** A variable of a protocol module is a
field of its `...State` struct, as a function of the node. `committed[n]` is
never drained: it is what `poll_committed` has returned so far and would
return now, that is, node n's entry in the `CommitLog`. `outcome[p]` is what
the client was last told about payload p; it also is the set of recorded
proposals. In `Pbft` and `HotStuff` entries carry the view they were committed
in, a history field the properties need.

One call of `Cluster::step` is `StartStep` (move the queue to `inflight`)
followed by one `DeliverMessage` or `LoseMessage` for each message; one call
of `Cluster::tick` is one `Tick` for each node. They are split this way so
that the choice of which message is lost is made message by message; nothing
else can happen in between (`Idle`). A delivery applies `Tampered` to the
message and takes one action of the receiver; the actions of one message type
partition the branches of the match arm (`RecordPrepare` and `BecomePrepared`,
`CountVote` and `WinElection`, ...) and `Discard` stands for all early
returns. `ProposeAccepted` and `ProposeRejected` are `Cluster::propose` as a
whole: skip isolated nodes, stop at the first that accepts or names a leader,
ask that leader even if it is isolated.

**Refinement.** `Pbft` and `HotStuff` instantiate `Consensus` with a slot for
each number of a view, trusted when the leader of that view never equivocates
in any fault configuration; `delivered` is `committed`, `chosen` everything
committed, `proposed` what clients asked for (`outcome`). `Raft` instantiates
`ReplicatedLog` with the longest log handed out by a node as the agreed one.
`ImplementsConsensus` and `ImplementsLog` are properties of the safety runs.
`Consensus` says nothing about two views, since the code numbers again
(section 5).

**Abstractions.**
- Payloads are model values; `<<p, k>>` is p followed by k bytes `0xFF`, what
  `equivocate` appends. A digest is the payload it was taken of and whether its
  bits are flipped: SHA-256 is taken as injective.
- The drop rate is positive or zero; which messages are lost is a choice,
  bounded by `MaxDrops`. Several behaviours of one node apply in one fixed
  order; every configuration in the repository has a single one.
- An unsigned counter at zero is a natural number: the decrement is guarded in
  the code, and `TypeOK` is violated without the guard.
- Fields written and never read are left out: `primary_active`,
  `leader_active`, the `justify_*` and `highest_qc_*` fields of HotStuff
  messages, `leader_id_atomic`, and the statistics.
- A random election timeout is any element of `ElectionTimeouts`.
- In `Raft`, a slice out of range (a panic, which ends the program) is a step
  the model does not take; `CommittedStaysInLog` says that it cannot come up.

**Bounds.** `MaxDrops` and `MaxFaultChanges` (losses and calls of `set_faults`
in a behaviour), `MaxView` and `MaxTerm` (a tick that would go beyond is not
made), `MaxSeq` (numbers a leader assigns), and `MaxPending` (`HotStuff`:
messages queued when a tick starts; `Raft`: when any call but `step` is made).
Timeouts of 40 or 15..30 ticks become 0, 1 or 2: only their order relative to
deliveries matters, and ticks may come between any two steps.

## 3. Runs

| Run | Instance | What it shows |
|-----|----------|---------------|
| `pbft_safety` | n=4, 2 proposals, 1 view change, 1 loss, 2 fault changes, ticks anywhere | slots, payloads, votes and logs stay consistent; per view, commits agree, are in order and rest on a quorum that was Prepared; a view is entered by a quorum; no quorum of votes is left uncommitted; `Pbft` implements `Consensus` |
| `pbft_checks` | n=4, 3 proposals, 2 view changes, 1 fault, completed before each tick | `Agreement`, `Integrity` and the documented total order |
| `pbft_commits` | n=4, no timer expires, one backup isolated or Byzantine | accepted proposals are committed everywhere reachable |
| `pbft_primary_isolated` | n=4, 3 views | once the primary is isolated the others leave its view |
| `commit_log_checks` | 3 honest nodes and a faulty one, logs of up to 2 of 3 numbers | the total-order check accepts whatever its reference exactly logs that are prefixes of one another; passing all checks means equal logs |
| `hotstuff_safety` | n=4, 2 proposals, 1 view change, 1 loss, 2 fault changes, ticks with up to 2 queued messages | slots, payloads and logs stay consistent; no replica is ahead of its leader; commits rest on a quorum that was given the proposal; a decided slot is not reopened in its view; `HotStuff` implements `Consensus` |
| `hotstuff_commits` | n=4, one replica isolated from the start, timers expire | accepted proposals are committed everywhere reachable |
| `hotstuff_takeover` | n=4, leader isolated, 2 losses | the next leader takes over: NewView is repeated |
| `raft_safety` | n=3, elected leader, 2 proposals, 2 terms, 1 loss, 2 fault changes, each call completed | election safety, log matching, leader completeness, commits on a majority; the panic is unreachable; `Raft` implements `ReplicatedLog` |
| `raft_ticks` | n=3, forced leader, calls with up to 2 queued messages, any fault | logs keep positions, commits are 1, 2, 3, ..., one vote per term, leaders only append |
| `pbft_equivocating_primary` | n=4, the primary equivocates | violates `Agreement` (section 5) |
| `raft_minority_commits` | n=5, elected leaders, a split of two to three, each call completed | violates `Agreement` (section 5) |

`PerViewAgreement`, `PerViewOrder`, `Consensus` and their like speak of one view
because the code does not keep more: numbers are handed out again after a view change
(section 5). `pbft_checks` shows what does hold over views: with the queue
completed before each tick, as `wait_for_leader` and the loops of
`cluster_test.rs` and `hotstuff_test.rs` do, and one fault.

**Why the bounds are enough to say something.** Four nodes are the smallest
cluster with f = 1; three the smallest Raft majority. Two proposals let
sequence numbers, votes and certificates of two slots mix; one view change is
where slots are dropped, kept and overwritten, and the second and third proposal
come after it; two fault changes let a node be cut off and return, or one fault
follow another. The mutants listed in `PROJECT.json` are plausible slips (a
dropped guard, a quorum off by one, a counter not reset, a check of the wrong
party's behaviour), one at least per property, and every one is caught within
these bounds. What they do not reach: Raft histories of four terms, which losing
a committed entry without the current-term rule of `raft/state.rs:427` would
take (`LeadersComplete` of section 4 does); late votes and refusals in
`raft_safety`, whose calls are completed (`raft_ticks` has late refusals, for the
order of logs only); an equivocating primary in `pbft_safety`, where `Validity` is
about a backup's tampered votes; two view changes together with losses; n = 3
and n = 5 for PBFT.

**Deadlock** is not checked: when everything is proposed, the queue is empty
and a bound stops the clock, the driver really has nothing left to do.

**Fairness.** `WF(LoseMessage \/ DeliverMessage)`: a started `step` runs to its
end, it is one call. `SF(BeginStep)` and `SF(Tick)`: the drivers
(`wait_for_leader`, the loops of the tests) alternate `tick` with
`run_to_completion`, or with a single `step` (`byzantine_test.rs:127`), so both
calls come again and again whatever happens in
between. Nothing is assumed of clients, of fault changes, or of losses, which
are bounded. `SF(Tick)` makes no claim where the bound on views stops ticks.

Liveness is stated where the code provides it. `pbft_commits` fixes the first
view, because an expired timer may stop PBFT for good (section 5), and
`pbft_primary_isolated` cuts off one node and loses nothing; `hotstuff_commits`
lets timers expire but installs the fault first, as the tests do. None of them
meets the stalls of section 5: a view change that cannot finish
(`pbft/state.rs:373`), a proposal redirected to a leader out of reach
(`cluster/mod.rs:225`), an old HotStuff leader that goes on alone
(`hotstuff/state.rs:420`). `PROJECT.json` lists the first two without a property.

## 4. Proofs

Everything below holds for every set of payloads, every fault configuration and
every bound, and so for schedules far beyond the runs: ticks, proposals and
fault changes between any two messages, any number of losses, views and terms.
It holds for every number of nodes but for what Raft commits, where the code
loses agreement in larger clusters and the theorems say up to three. Where a
theorem needs more (F > 0, a driver that completes its calls) it says so in its
ASSUME. The other assumptions are the types of the constants and nothing else:
`SizeAssumption` (there is a node), `FaultAssumption` (fault configurations
have their type), `PbftAssumption`, `HotStuffAssumption`, `RaftAssumption`
(bounds are numbers, `None` is neither a payload nor a node, there is an
election timeout) and, for the checker, `FiniteAssumption` (finitely many
honest nodes). TLC evaluates them in every run.

All theorems have the same shape: an inductive invariant, a lemma for each
handler, and a last step by `PTL`. What the invariants add, and why:

**Types.** `TypeCorrect` of `PbftProofs`, `HotStuffProofs` and `RaftProofs`.
The bound on views or terms is tested when a tick starts, and the later nodes
of the same tick must still be within it (`TickBounded`). In Raft the loop over
the entries of a message is a recursive function on 0 .. length; its type is
proved by induction over a *set* of numbers, which needs no operator as a
parameter.

**What a slot is claimed for** (`ClaimInv`, `PbftProofs` and
`HotStuffConsensusProofs`). A payload is *claimed* for a view and number when a
proposal on the network carries it, a node holds it pending in that view, or a
node has committed it. Proposals come from the leader of their view; claimed
numbers lie below that leader's counter, or its view is behind it; a number of
a view is claimed for one payload, one a client proposed, unless its leader may
equivocate. Quorums are not needed for it, which says as much about the code as
about the theorem: agreement within a view rests on the leader alone, and
corrupted digests do not matter because no handler compares them. From it
`ViewAgreement` and, with the next invariant, `CommitsValid`.

**A proposal reaches a node once** (`SlotInv`, `OfferInv`). Nothing in the
handlers stops a second proposal from reopening a decided slot, so that no node
commits a number of a view twice is a fact about the network and the counter:
an offer is on the queue once per receiver and number, and numbers on offer are
not held by the receiver yet. This gives `DecisionsStay`, `NumbersFresh`, and
the refinements `PbftImplementsConsensus` and `HotStuffImplementsConsensus`
(every step of the cluster delivers at most one decision that `Consensus` may
take). `SlotsAgree` says that `Consensus` then gives agreement.

**Views** (`VotesInv`, `PbftProofs` and `HotStuffProofs`). View-change votes
carry no signature and are counted in several places and sent again and again;
that a node enters a view only after 2f + 1 nodes asked for it themselves
(`ViewsNeedQuorum`) ties every vote held and every vote on the network, tampered
or not, to its sender, and every proposal of a view to a quorum behind it.
`PayloadKept` and `PrimariesNotSuspicious` need no more than the slots.

**Quorums behind slots** (`BackingInv`, `PbftConsensusProofs` and
`HotStuffConsensusProofs`). In PBFT, prepares and commits carry no evidence.
`PreparedBackedByQuorum` and `CommitsBackedByQuorum` tie each vote to what its
sender had done when it sent it: a voter has the slot, or had it and has gone on to a later view. They hold for every n, with
n = 3f + 1 or without.
In HotStuff a certificate names no voters, and replicas vote in the later rounds
for slots they do not have, so votes say nothing there. What can be kept is that
the voters of the first round took the proposal, that every certificate, slot
beyond the first round and commit has a quorum of them behind it, and that the
leader is as far as any certificate it sent. From it `CommitsBackedByProposal`
and `ReplicasBehindLeader`.

**The order of commits** (`OrderInv`, `PbftConsensusProofs` and
`HotStuffConsensusProofs`). That the numbers of a view are committed in
ascending order (`CommitsInOrder`) is a fact about the queue: nothing in a
handler compares a slot with the slots below it. A number goes through three
stages (seven in HotStuff), and each message is sent in answer to one of the
stage before. The invariant says that what is queued about one view stands in
the order of these rounds (`Ordered`): a later message is of a higher number and
no further stage, or of a lower number and a further one. So when a node
commits a number nothing about the lower ones is under way any more
(`EntriesPassed`); in PBFT, where a slot may hold votes of the next phase
already, they are tied to the stages that must be over (`VotesPassed`).
In PBFT this needs F > 0.
With F = 0 (n = 1, 2, 3) a quorum is one vote, the node's own, thresholds are
tested before it is added, and TLC finds slots left behind for n = 3, in
`PerViewOrder` and in `NoStuckQuorum` both. So the two theorems state F > 0: a
cluster that tolerates a fault.
From the order of commits, the claims and the slots follow the checks of
`invariant.rs` as they stand, over the nodes that are honest and reachable, for
what is committed in one view: `AgreementInOneView` (the primary never
equivocates), `IntegrityInOneView`, `TotalOrderInOneView`. Over two views
they fail without a fault (section 5), so "in one view" is the hypothesis the
code needs.

**Raft** (`RaftProofs`, for forced and elected leaders alike). `VotesGivenOnce`
and `LeadersAppend` follow from the types; the second needs that taking an
AppendEntries ends a leadership. `LogsKeepOrder` needs `LogInv`: not only do
logs keep positions and terms in order (`LogsOrdered`), the messages do
(`MessagesOrdered`): their entries follow the previous entry they name without
a gap and are of terms between that entry's and the sender's. Then the test
of the previous entry is what makes the loop, which pushes an entry beyond the
end whatever its index, keep the order. `CommitsAreDense` follows: what a node
hands out is the numbers 1, 2, 3, ...

**Raft elections** (`RaftProofs`). `OneLeaderPerTerm` assumes what
section 5 shows to be needed: no forced leader, and a driver that completes the
queue before every other call (`MaxPending = 0`: what `wait_for_leader` and the
loops of `cluster_test.rs` do; `byzantine_test.rs:127`, with a forced leader,
ticks after each step). The state does not say who voted for whom: `votedFor`
outlives its term and is overwritten, votes are counted as a number, and an answer does not
name the election it belongs to. So the invariant (`Explained`) says that a
history *exists* that explains the state: whom each node voted for in each term,
whose votes a candidate has counted, who won each term. Two winners share a
voter, who voted once. The stale answers that break this under other drivers are
kept out by what the queue holds: while a tick runs, messages of that tick only
(`TickQueue`), so that between a candidate and a voter there is one request or
answer at most (`OneBallotPaper`), and a vote on the queue was not counted yet
and was given in the candidate's term (`Uncounted`).

**Raft logs** (`RaftLogProofs`). `LogsMatch` adds that no node equivocates
(an equivocating leader sends different payloads under one term and index; that
Raft does not survive it is what the tests expect). The history also keeps, for
each term, the log of its leader as it last was. Every log is, up to each entry,
a copy of the log of the leader of that entry's term, and each message is a
part of one (`LogsMatched`); a step wins a term, lengthens one leader's log, or
makes a follower cut off or copy (`CutMatched`, `MergedMatched`). That the test
of the previous entry suffices, although entries beyond the end are pushed
whatever their index, is in `FollowerMatched`. Both invariants were checked by
TLC with the history as variables before they were proved.

**What Raft commits** (`RaftLogProofs`), in clusters of up to three nodes, none
of which equivocates, with elected leaders and completed calls.
`CommitsStayInLog`, `LeadersComplete`, `MajoritiesHoldCommits`,
`RaftImplementsLog` and, from its invariant, `SmallClustersAgree`.
The textbook argument does not apply: it needs `match_index` to be a lower bound
for what a follower shares with its leader, and here a follower reports the
length of its whole log, entries of others included. What holds instead:
- The leader's log is sent to the end, so a follower that accepts a message
  holds the leader's log as it was then, whatever else (`Whole`,
  `FollowerKeeps`); and with completed calls the leader has not grown when the
  answer comes (`AnswerFits`). With at most three nodes the answer being
  processed and the leader make a majority, so a commit never rests on a
  `match_index` from an earlier message (`NoteReplicatedChosen`). This is the
  one place where N <= 3 is used.
- The history gains `a[j][t]`: how much of the log of the leader of term t node
  j had when it last followed it. A place of that log with an entry of term t is
  *chosen* when a majority has acknowledged it; it is *ruled out* when a
  majority has gone on to later terms without (`Chosen`, `RuledOut`; both are
  stable and exclude one another). The rule of `raft/state.rs:427`, that
  only an entry of its own term lets a leader commit, is why only such places
  count.
- The invariant (`Before`, `CommitsExplained`): whatever is not ruled out is in
  the log of each node that acknowledged it (`AcksKept`), in that of each winner
  of a later term (`WinnersKeep`), and, as far as its voters acknowledged it, in
  that of a candidate (`CandidatesKeep`), because a vote compares last terms and
  lengths (`UpToDateKeeps`). Commit indices, and those that messages carry, lie
  within what was chosen (`CommitsChosen`, `EntriesFit`).
- Two chosen logs are prefixes of one another (`ChosenAgree`), all that is in a
  leader's log was accepted from a client and stands at one place
  (`FromClients`, `Unrepeated`). So each step that hands out entries is a
  `Deliver` of `ReplicatedLog`, every other one adds to the proposals or stutters
  (`AbstractStep`).

The bound on terms is any number here, so the histories of four terms that the
current-term rule is about, out of reach of the runs, are covered.

**The checker** (`CommitLogProofs`). `PrefixesAccepted` and `ChecksMeanSameLog`,
for logs of any length, over all references the iteration of a `HashSet` may
yield.

**Only model-checked.**
- Liveness: the prover does not treat fairness, and `ENABLED` is beyond it.
- `Agreement`, `Integrity` and `TotalOrder` of PBFT over views: a new primary
  numbers on from its own log, so they are false in general (section 5) and hold
  under the drive of `pbft_checks`, which an invariant would have to describe.
- Raft's `LeaderCompleteness`, `CommittedStaysInLog`, `CommitsOnMajority`,
  `ImplementsLog` and `Agreement` for four nodes or more: for five they are
  false (`raft_minority_commits`), so no theorem for every n can state them.

## 5. Where the code and its documentation part

Two disagreements have a run of their own; its counterexample is the scenario.

- `pbft_equivocating_primary`: README.md:69 says PBFT stays safe with f < n/3
  Byzantine nodes. One equivocating *primary* of four splits the honest nodes:
  votes are counted without looking at their digest (`pbft/state.rs:211-225`,
  `246-260`). The tests let a backup equivocate.
- `raft_minority_commits`: README.md:51 and the tolerance f < n/2 of
  README.md:165. A follower reports the length of its whole log as `match_index`
  (`raft/state.rs:373`), entries of an older term included, and the leader
  counts that number for entries it appends afterwards (line 432). With five
  nodes, an old leader with an entry of its own answers a heartbeat of the new
  one; after a split that leaves the new leader a single follower, its next
  proposal counts as held by three. It is committed by two nodes of five, and
  the other three elect the old leader and commit its entry under the same
  number. No message is lost but by the partition, no leader is forced, and
  each call is completed. With three nodes the one answer that decides a
  commit is to a message with the whole log, and nothing goes wrong.

Others were met while modelling, each with a counterexample of TLC or by
reading; the properties above are stated so as not to claim them away.

- *PBFT, numbers after a view change* (`pbft/state.rs:315`, `331`): the new
  primary counts from its own highest commit, whatever the votes report. With
  ticks between steps and no fault, or with one link cut and a completed queue, a
  number is committed twice (README.md:51, README.md:53).
- *PBFT, stuck view change* (`pbft/state.rs:373`): a node that timed out is deaf
  to proposals and never times out again in its view; with one backup
  isolated that is the next primary, nothing commits any more
  (`tests/cluster_test.rs:97` proposes before any tick).
- *Digests* (`pbft/state.rs:203`): no handler compares a digest with anything,
  and honest nodes pass corrupted ones on, though README.md:41 and
  `types/message.rs:32` speak of integrity checks.
- *HotStuff, numbers after a view change* (`hotstuff/state.rs:425`): the new
  leader keeps its own counter, so in the scenario of
  `tests/hotstuff_test.rs:107` number 1 is committed twice by each replica.
- *HotStuff, silent leader* (`hotstuff/state.rs:420`): the new leader tells
  nobody. In a cluster that timed out while idle, `Cluster::propose` still
  finds the old leader first and what it accepts is not committed by the new
  one. When the next leader is unreachable too, votes never move past it
  (line 444).
- *HotStuff, equivocating leader* (`hotstuff/state.rs:209`): as in PBFT.
- *Raft, forced leader* (`raft/state.rs:97`): `force_leader` creates a leader of
  term 1 nobody voted for. If it is isolated before it is heard of, the first
  election is one of term 1 as well; once it is back its entries pass for its
  successor's and node 0 commits another payload under a number already
  committed. A committed entry can then also be cut off a log, after which the
  slice at `raft/state.rs:381` would panic. TLC finds it with n = 3 and completed
  calls.
- *Raft, stale votes* (`raft/state.rs:271`): a response is counted whatever its
  term. With ticks between steps TLC finds two leaders of one term.
- *Raft, `match_index`, three nodes* (`raft/state.rs:373`): with a proposal
  between two steps TLC finds a commit that only the leader holds.
- *Isolated leader* (`cluster/mod.rs:221-227`): a proposal is redirected to the
  leader a node names without asking whether it is isolated, though line 209
  says a client cannot reach it.
- *Total order* (`invariant.rs:175`, `181`): the check compares by position and
  only with one reference, where lines 158 and 177 speak of every pair and of
  relative order. `TotalOrder` in `Pbft` is the documented one.

## 6. Not modelled

Benchmarks, the report and `main.rs` (no protocol state); statistics;
serialization (derived, used by nothing that runs); the seeds and the draws of
random generators (choices here); the real asynchrony of tokio (every node has
one mutex, and the cluster awaits each call before the next).

## 7. Plan

Done: network and faults, the checker, PBFT, HotStuff and Raft with their runs;
the abstract specifications `Consensus` and `ReplicatedLog` and the three
refinements; the proofs of section 4.

Left:
1. Raft liveness: accepted proposals commit with repeated heartbeats, and a
   follower catches up after it is reconnected
   (`raft_follower_catches_up_after_partition_heals`).
2. The stall of HotStuff with two unreachable leaders
   (`hotstuff/state.rs:444`), as a run that shows it.
3. Proofs: the checks of `invariant.rs` for PBFT over views, under a driver that
   completes its calls, from an invariant that says what a view change leaves
   behind.
