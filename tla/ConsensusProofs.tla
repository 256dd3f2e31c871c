-------------------------- MODULE ConsensusProofs --------------------------
(***************************************************************************)
(* What the abstract specification is worth: agreement on trusted slots    *)
(* follows from it alone, so that every implementation of it (module       *)
(* PbftConsensusProofs) has it.                                            *)
(***************************************************************************)
EXTENDS Consensus, TLAPS

\* The decisions taken agree on trusted slots.
ChosenAgree ==
    \A c, d \in chosen :
        c.slot = d.slot /\ c.slot \in Trusted => c.payload = d.payload

DeliveredChosen == delivered \in [Nodes -> Seq(chosen)]

AgreementInv == DeliveredChosen /\ ChosenAgree

LEMMA AgreementInit == Init => AgreementInv
  BY DEF Init, AgreementInv, DeliveredChosen, ChosenAgree

LEMMA AgreementNext == AgreementInv /\ [Next]_vars => AgreementInv'
<1> SUFFICES ASSUME AgreementInv, [Next]_vars
             PROVE  AgreementInv'
  OBVIOUS
<1>1. CASE Propose \/ UNCHANGED vars
  <2>1. UNCHANGED <<chosen, delivered>>
    BY <1>1 DEF Propose, vars
  <2> QED BY <2>1 DEF AgreementInv, DeliveredChosen, ChosenAgree
<1>2. ASSUME NEW n \in Nodes, NEW d, Deliver(n, d)
      PROVE  AgreementInv'
  <2>1. ChosenAgree'
    BY <1>2 DEF Deliver, Choosable, AgreementInv, ChosenAgree
  <2>2. DeliveredChosen'
    <3>1. \A m \in Nodes : delivered[m] \in Seq(chosen')
      BY <1>2 DEF Deliver, AgreementInv, DeliveredChosen
    <3>2. Append(delivered[n], d) \in Seq(chosen')
      BY <1>2, <3>1 DEF Deliver
    <3> QED BY <1>2, <3>1, <3>2
            DEF Deliver, AgreementInv, DeliveredChosen
  <2> QED BY <2>1, <2>2 DEF AgreementInv
<1> QED BY <1>1, <1>2 DEF Next

\* Agreement on trusted slots, however many nodes and slots: what two nodes
\* hand out was chosen, and a choice in a trusted slot is never contradicted
\* by a later one.  The agreement check of the cluster tests
\* (check_agreement) read per slot.
THEOREM SlotsAgree == Spec => []SlotAgreement
<1>1. AgreementInv => SlotAgreement
  <2> SUFFICES ASSUME AgreementInv,
                      NEW m \in Nodes, NEW n \in Nodes,
                      NEW k \in DOMAIN delivered[m],
                      NEW l \in DOMAIN delivered[n],
                      delivered[m][k].slot = delivered[n][l].slot,
                      delivered[m][k].slot \in Trusted
               PROVE  delivered[m][k].payload = delivered[n][l].payload
    BY DEF SlotAgreement
  <2>1. delivered[m] \in Seq(chosen) /\ delivered[n] \in Seq(chosen)
    BY DEF AgreementInv, DeliveredChosen
  <2>2. delivered[m][k] \in chosen /\ delivered[n][l] \in chosen
    BY <2>1
  <2> QED BY <2>2 DEF AgreementInv, ChosenAgree
<1> QED BY <1>1, AgreementInit, AgreementNext, PTL DEF Spec
=============================================================================
