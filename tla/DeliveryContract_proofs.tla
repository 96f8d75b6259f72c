----------------------- MODULE DeliveryContract_proofs -----------------------
(* What a reader of the outbox file may conclude from the contract.        *)
EXTENDS DeliveryContract, TLAPS

TypeInv ==
    /\ entry \in [Deliveries -> Entry]
    /\ wire \subseteq Deliveries /\ answers \subseteq Deliveries

(* Every reachable state of the contract is conclusive: an entry that says *)
(* not sent, or is gone, tells the truth about the wire.                   *)
THEOREM ContractConclusive == Spec => []Conclusive
<1>1. Init => TypeInv /\ Conclusive
  BY DEF Init, TypeInv, Entry, Conclusive
<1>2. TypeInv /\ Conclusive /\ [Next]_vars => (TypeInv /\ Conclusive)'
  <2> SUFFICES ASSUME TypeInv, Conclusive, [Next]_vars
               PROVE  TypeInv' /\ Conclusive'
    OBVIOUS
  <2> USE DEF TypeInv, Conclusive, Entry
  <2>1. CASE UNCHANGED vars
    BY <2>1 DEF vars
  <2>2. CASE \E d \in Deliveries : Admit(d) \/ Mark(d) \/ Quarantine(d)
    BY <2>2 DEF Admit, Mark, Quarantine, Becomes
  <2>3. CASE \E d \in Deliveries : Complete(d)
    BY <2>3 DEF Complete, Becomes
  <2>4. CASE \E S \in SUBSET Deliveries : Expire(S)
    BY <2>4 DEF Expire
  <2>5. CASE \E d \in Deliveries : Transmit(d)
    BY <2>5 DEF Transmit
  <2>6. CASE \E d \in Deliveries : Answer(d)
    BY <2>6 DEF Answer
  <2> QED BY <2>1, <2>2, <2>3, <2>4, <2>5, <2>6 DEF Next
<1>3. TypeInv /\ Conclusive => Conclusive
  OBVIOUS
<1> QED BY <1>1, <1>2, <1>3, PTL DEF Spec
=============================================================================
