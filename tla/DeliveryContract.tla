-------------------------- MODULE DeliveryContract --------------------------
(***************************************************************************)
(* What is promised of each recoverable delivery to whoever reads the      *)
(* outbox file or, without one, the handle, whatever the network and the   *)
(* broker do (and, for the file, the process): one admission, evidence of  *)
(* a possible write before any byte, and no end of that evidence but the   *)
(* broker's answer.  An entry that was quarantined stays so.               *)
(***************************************************************************)
CONSTANT Deliveries

VARIABLES
    entry,     \* what is said of each delivery
    wire,      \* deliveries handed to a socket at least once
    answers    \* deliveries the broker has answered

vars == <<entry, wire, answers>>

Entry == {"none", "unsent", "possible", "quarantined", "erased"}

Init ==
    /\ entry = [d \in Deliveries |-> "none"]
    /\ wire = {} /\ answers = {}

Becomes(d, from, to) ==
    /\ entry[d] = from
    /\ entry' = [entry EXCEPT ![d] = to]
    /\ UNCHANGED <<wire, answers>>

Admit(d) == Becomes(d, "none", "unsent")

Mark(d) == Becomes(d, "unsent", "possible")

Quarantine(d) ==
    \E from \in {"unsent", "possible"} : Becomes(d, from, "quarantined")

Complete(d) == d \in answers /\ Becomes(d, "possible", "erased")

(* A deadline erases what was certainly not sent and keeps the rest; one   *)
(* transaction may do so for many.                                         *)
Expire(S) ==
    /\ \A d \in S : entry[d] \in {"unsent", "possible"}
    /\ entry' = [d \in Deliveries |->
                    IF d \notin S THEN entry[d]
                    ELSE IF entry[d] = "unsent" THEN "erased"
                                                ELSE "quarantined"]
    /\ UNCHANGED <<wire, answers>>

Transmit(d) ==
    /\ entry[d] = "possible"
    /\ wire' = wire \cup {d}
    /\ UNCHANGED <<entry, answers>>

(* The broker may answer what it received at any later time.               *)
Answer(d) ==
    /\ d \in wire
    /\ answers' = answers \cup {d}
    /\ UNCHANGED <<entry, wire>>

Next ==
    \/ \E d \in Deliveries :
           \/ Admit(d) \/ Mark(d) \/ Quarantine(d) \/ Complete(d)
           \/ Transmit(d) \/ Answer(d)
    \/ \E S \in SUBSET Deliveries : Expire(S)

Spec == Init /\ [][Next]_vars

(* Nothing on the wire is ever forgotten unanswered: what a reader may     *)
(* conclude from each entry.                                               *)
Conclusive ==
    \A d \in Deliveries :
        /\ entry[d] \in {"none", "unsent"} => d \notin wire
        /\ entry[d] = "erased" => d \notin wire \/ d \in answers
=============================================================================
