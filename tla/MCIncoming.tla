----------------------------- MODULE MCIncoming -----------------------------
(* A queue of two events, room for one PUBACK, three messages; enough      *)
(* broken connections to lose an early message and go on, or to exhaust    *)
(* the attempts.                                                           *)
EXTENDS Incoming
=============================================================================
