------------------------------ MODULE Cluster ------------------------------
(***************************************************************************)
(* The simulated network of src/src/cluster: the message queue that        *)
(* Cluster::step drains, the per-node loop of Cluster::tick and the fault  *)
(* injection of fault.rs.  Nothing here depends on the protocol: a         *)
(* protocol module EXTENDS this one, adds the state of the nodes and says  *)
(* what each message does.                                                 *)
(*                                                                         *)
(* A call of Cluster::step is the action StartStep, which moves the whole  *)
(* queue to inflight, followed by one delivery or drop per message, in     *)
(* queue order; what the handlers send is appended to pending and is not   *)
(* delivered before the next step.  A call of Cluster::tick is one step    *)
(* per node, in id order.  The cluster is `&mut self` in both, so a        *)
(* proposal, a fault change, a step and a tick never overlap: all of them  *)
(* start in an Idle state.                                                 *)
(***************************************************************************)
EXTENDS Naturals, Sequences, FiniteSets

CONSTANTS
    N,               \* number of nodes
    Payloads,        \* what clients propose
    FaultConfigs,    \* the fault configurations set_faults may install
    MaxDrops,        \* bound: messages lost to drop_rate in a behaviour
    MaxFaultChanges  \* bound: calls of set_faults in a behaviour

ASSUME SizeAssumption == N \in Nat \ {0}

Nodes == 0 .. N - 1

(***************************************************************************)
(* Payloads and digests.  <<p, k>> is the proposed payload p followed by k *)
(* bytes 0xFF: what Equivocate appends.  SHA-256 is taken as injective.    *)
(***************************************************************************)
Payload == Payloads \X Nat
Extended(payload) == <<payload[1], payload[2] + 1>>

Digest == [of : Payload, flipped : BOOLEAN]
DigestOf(payload) == [of |-> payload, flipped |-> FALSE]
FlipBits(digest) == [digest EXCEPT !.flipped = ~@]

(***************************************************************************)
(* Fault configurations.  drop_rate is abstracted to whether it is         *)
(* positive.  A Byzantine node's list of behaviours is the record of which *)
(* it holds, with Equivocate applied before CorruptDigest; every           *)
(* configuration the tests and benchmarks build has a single one.          *)
(***************************************************************************)
MessagePhase == {"PrePrepare", "Prepare", "Commit", "AppendEntries",
                 "RequestVote", "Propose", "Vote", "QuorumCertificate"}

Behaviour == [equivocate : BOOLEAN, corrupt : BOOLEAN,
              drops : SUBSET MessagePhase]
Honest == [equivocate |-> FALSE, corrupt |-> FALSE, drops |-> {}]

FaultConfig == [lossy : BOOLEAN, partitions : SUBSET (Nodes \X Nodes),
                isolated : SUBSET Nodes, byzantine : [Nodes -> Behaviour]]
NoFaults == [lossy |-> FALSE, partitions |-> {}, isolated |-> {},
             byzantine |-> [n \in Nodes |-> Honest]]

ASSUME FaultAssumption ==
    /\ FaultConfigs \subseteq FaultConfig
    /\ MaxDrops \in Nat
    /\ MaxFaultChanges \in Nat

\* The nodes that no configuration ever makes equivocate.
NeverEquivocates ==
    {n \in Nodes : \A c \in FaultConfigs : ~c.byzantine[n].equivocate}

VARIABLES
    pending,       \* the queue Cluster::pending
    inflight,      \* what is left of to_deliver in the running step
    ticking,       \* the node the running tick reaches next, 0 when none runs
    faults,        \* the installed FaultConfig
    drops,         \* messages lost to drop_rate so far
    faultChanges   \* calls of set_faults so far

netVars == <<pending, inflight>>
faultVars == <<faults, faultChanges>>
clusterVars == <<pending, inflight, ticking, faults, drops, faultChanges>>

ClusterInit ==
    /\ pending = <<>>
    /\ inflight = <<>>
    /\ ticking = 0
    /\ faults = NoFaults
    /\ drops = 0
    /\ faultChanges = 0

Idle == inflight = <<>> /\ ticking = 0

-----------------------------------------------------------------------------
(* Sending *)

\* The k-th peer of node i: peer_ids holds every other id, in id order.
Peer(i, k) == IF k - 1 < i THEN k - 1 ELSE k

Envelope(i, j, m) == [from |-> i, to |-> j, msg |-> m]

Broadcast(i, m) == [k \in 1 .. N - 1 |-> Envelope(i, Peer(i, k), m)]

Enqueue(out) == pending' = pending \o out

-----------------------------------------------------------------------------
(* Delivering *)

Isolated(n) == n \in faults.isolated

\* The nodes check_invariants looks at.
HonestNodes ==
    {n \in Nodes : faults.byzantine[n] = Honest /\ ~Isolated(n)}

\* should_deliver says no whatever the random roll.
Cut(e) ==
    \/ Isolated(e.from)
    \/ Isolated(e.to)
    \/ <<e.from, e.to>> \in faults.partitions

\* SelectiveDrop leaves nothing of the message.
Withheld(e) == e.msg.type \in faults.byzantine[e.from].drops

Equivocated(m, to) ==
    IF to % 2 = 1 /\ m.type \in {"PrePrepare", "Propose"}
      THEN [m EXCEPT !.payload = Extended(@),
                     !.digest = DigestOf(Extended(m.payload))]
    ELSE IF to % 2 = 1 /\ m.type = "AppendEntries"
      THEN [m EXCEPT !.entries =
              [k \in DOMAIN m.entries |->
                 [m.entries[k] EXCEPT !.payload = Extended(@)]]]
    ELSE m

Corrupted(m) ==
    IF m.type \in {"PrePrepare", "Prepare", "Commit",
                   "Propose", "Vote", "QuorumCertificate"}
      THEN [m EXCEPT !.digest = FlipBits(@)]
      ELSE m

\* Mutant: the behaviour looked up is the receiver's.
TamperedByReceiver(e) ==
    LET b == faults.byzantine[e.to]
        m == IF b.equivocate THEN Equivocated(e.msg, e.to) ELSE e.msg
    IN  IF b.corrupt THEN Corrupted(m) ELSE m

\* What the receiver sees of a message that tamper does not withhold.
Tampered(e) ==
    LET b == faults.byzantine[e.from]
        m == IF b.equivocate THEN Equivocated(e.msg, e.to) ELSE e.msg
    IN  IF b.corrupt THEN Corrupted(m) ELSE m

StartStep ==
    /\ Idle
    /\ pending # <<>>
    /\ inflight' = pending
    /\ pending' = <<>>
    /\ UNCHANGED <<ticking, faults, drops, faultChanges>>

\* The next message of the step is lost: cut off, withheld by its sender or,
\* within the bound MaxDrops, dropped at random.
Lose ==
    /\ inflight # <<>>
    /\ LET e == Head(inflight) IN
         \/ /\ Cut(e) \/ Withheld(e)
            /\ UNCHANGED drops
         \/ /\ faults.lossy
            /\ drops < MaxDrops
            /\ drops' = drops + 1
    /\ inflight' = Tail(inflight)
    /\ UNCHANGED <<pending, ticking, faults, faultChanges>>

Deliverable ==
    /\ inflight # <<>>
    /\ ~Cut(Head(inflight))
    /\ ~Withheld(Head(inflight))

\* The next message of the step is delivered and its handler sends out.
Consume(out) ==
    /\ inflight' = Tail(inflight)
    /\ Enqueue(out)
    /\ UNCHANGED <<ticking, faults, drops, faultChanges>>

-----------------------------------------------------------------------------
(* Ticks and fault changes *)

\* Cluster::tick reaches node i, whose tick sends out.
TickTurn(i, out) ==
    /\ inflight = <<>>
    /\ i = ticking
    /\ ticking' = (ticking + 1) % N
    /\ Enqueue(out)
    /\ UNCHANGED <<inflight, faults, drops, faultChanges>>

\* set_faults, or clear_faults when c is NoFaults.
SetFaults(c) ==
    /\ Idle
    /\ faultChanges < MaxFaultChanges
    /\ faultChanges' = faultChanges + 1
    /\ faults' = c
    /\ UNCHANGED <<pending, inflight, ticking, drops>>
=============================================================================
