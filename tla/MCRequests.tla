----------------------------- MODULE MCRequests -----------------------------
(* Instances of Requests for TLC.  Publishes of the same QoS are           *)
(* interchangeable; Symmetric is used by the runs without liveness.        *)
EXTENDS Requests, TLC

Symmetric == Permutations(Publish1 \ Expiring)
=============================================================================
