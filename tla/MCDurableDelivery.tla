------------------------- MODULE MCDurableDelivery -------------------------
(* Instances of DurableDelivery for TLC.                                   *)
EXTENDS DurableDelivery, TLC

CONSTANTS d1, d2

One    == {d1}
Two    == {d1, d2}
Nobody == {}
=============================================================================
