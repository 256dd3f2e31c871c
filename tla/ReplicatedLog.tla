--------------------------- MODULE ReplicatedLog ---------------------------
(***************************************************************************)
(* What Raft promises: one log is agreed on, every node hands out a prefix *)
(* of it, and both only grow.  Only what clients proposed enters the log,  *)
(* and no proposal enters it twice.                                        *)
(***************************************************************************)
EXTENDS Naturals, SequencesExt

CONSTANT Nodes

VARIABLES
    proposed,   \* payloads clients have proposed
    agreed,     \* the log agreed on so far
    delivered   \* delivered[n], what node n has handed out of it

vars == <<proposed, agreed, delivered>>

Init ==
    /\ proposed = {}
    /\ agreed = <<>>
    /\ delivered = [n \in Nodes |-> <<>>]

Propose ==
    /\ proposed \subseteq proposed'
    /\ UNCHANGED <<agreed, delivered>>

\* Payloads are added to the end of the agreed log.
Agree ==
    /\ IsPrefix(agreed, agreed')
    /\ \A k \in DOMAIN agreed' : agreed'[k] \in proposed
    /\ IsInjective(agreed')

\* Node n hands out some more of the agreed log, which its step may extend.
Deliver(n) ==
    /\ Agree
    /\ \E k \in Len(delivered[n]) + 1 .. Len(agreed') :
         delivered' = [delivered EXCEPT ![n] = SubSeq(agreed', 1, k)]
    /\ UNCHANGED proposed

Next == Propose \/ \E n \in Nodes : Deliver(n)

Spec == Init /\ [][Next]_vars
=============================================================================
