---------------------------- MODULE MCResolution ----------------------------
(* Instances of Resolution for TLC.  Its constants are numbers and         *)
(* Booleans, given in the configurations: Resolution_safe.cfg lets the     *)
(* new application run before there is a target, Resolution_live.cfg keeps *)
(* it away, as the operator is told to.                                    *)
EXTENDS Resolution
=============================================================================
