----------------------------- MODULE Consensus -----------------------------
(***************************************************************************)
(* What PBFT and HotStuff promise whatever is lost, delayed or tampered    *)
(* with.  Nodes hand out decisions, one payload for each slot; a slot is a *)
(* sequence number of a view.  In a trusted slot, one whose leader never   *)
(* equivocates, all nodes hand out the same payload and a client proposed  *)
(* it.  No node hands out a slot twice.                                    *)
(*                                                                         *)
(* Nothing is said about two views: the implementations number again.      *)
(***************************************************************************)
EXTENDS Naturals, Sequences

CONSTANTS
    Nodes,
    Trusted     \* the trusted slots

VARIABLES
    proposed,   \* payloads clients have proposed
    chosen,     \* decisions, records of a slot and a payload
    delivered   \* delivered[n], the decisions node n has handed out

vars == <<proposed, chosen, delivered>>

Init ==
    /\ proposed = {}
    /\ chosen = {}
    /\ delivered = [n \in Nodes |-> <<>>]

Propose ==
    /\ proposed \subseteq proposed'
    /\ UNCHANGED <<chosen, delivered>>

\* Decision d may be taken: it agrees with what was taken before.
Choosable(d) ==
    d.slot \in Trusted =>
        /\ d.payload \in proposed
        /\ \A c \in chosen : c.slot = d.slot => c.payload = d.payload

NotYetDelivered(n, d) ==
    \A k \in DOMAIN delivered[n] : delivered[n][k].slot # d.slot

Deliver(n, d) ==
    /\ Choosable(d)
    /\ NotYetDelivered(n, d)
    /\ chosen' = chosen \cup {d}
    /\ delivered' = [delivered EXCEPT ![n] = Append(@, d)]
    /\ UNCHANGED proposed

Next ==
    \/ Propose
    \/ \E n \in Nodes : \E d \in chosen' : Deliver(n, d)

Spec == Init /\ [][Next]_vars

-----------------------------------------------------------------------------
\* No two nodes hand out different payloads for one trusted slot.
SlotAgreement ==
    \A m, n \in Nodes :
        \A k \in DOMAIN delivered[m], l \in DOMAIN delivered[n] :
            /\ delivered[m][k].slot = delivered[n][l].slot
            /\ delivered[m][k].slot \in Trusted
            => delivered[m][k].payload = delivered[n][l].payload
=============================================================================
