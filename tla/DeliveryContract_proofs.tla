----------------------- MODULE DeliveryContract_proofs -----------------------
(***************************************************************************)
(* What the contract alone gives to every component that implements it.    *)
(***************************************************************************)
EXTENDS DeliveryContract, TLAPS

IInv == TypeOK /\ AckedIsSettled

LEMMA ContractInitial == Init => IInv
  BY DEF Init, IInv, TypeOK, AckedIsSettled

LEMMA ContractKept == IInv /\ [Next]_vars => IInv'
<1> SUFFICES ASSUME IInv, [Next]_vars PROVE IInv'
  OBVIOUS
<1> USE DEF IInv, TypeOK, AckedIsSettled
<1>1. CASE Settle
  BY <1>1 DEF Settle, Messages
<1>2. ASSUME NEW p \in Partitions, Ack(p) PROVE IInv'
  <2>1. /\ acked' = [acked EXCEPT ![p] = @ + 1]
        /\ <<p, acked[p] + 1>> \in settled
        /\ settled' = settled
    BY <1>2 DEF Ack
  <2>2. TypeOK'
    BY <2>1 DEF Messages
  <2>3. ASSUME NEW q \in Partitions, NEW n \in 1..acked'[q] PROVE <<q, n>> \in settled'
    <3>1. CASE q # p
      BY <2>1, <2>3, <3>1
    <3>2. CASE q = p
      <4>1. n \in 1..acked[p] \/ n = acked[p] + 1
        BY <2>1, <2>3, <3>2
      <4> QED BY <2>1, <3>2, <4>1
    <3> QED BY <3>1, <3>2
  <2> QED BY <2>2, <2>3
<1>3. CASE UNCHANGED vars
  BY <1>3 DEF vars, Messages
<1> QED BY <1>1, <1>2, <1>3 DEF Next

\* Whatever implements the contract never has an unsettled message below a
\* committed offset: a restarted group, which reads on from there, skips
\* nothing that still needs work.
THEOREM ContractSettlesAcked == Spec => []AckedIsSettled
<1>1. Spec => []IInv
  BY ContractInitial, ContractKept, PTL DEF Spec
<1> QED BY <1>1, PTL DEF IInv
=============================================================================
