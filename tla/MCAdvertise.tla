----------------------------- MODULE MCAdvertise ----------------------------
(* Instances of Advertise for TLC.                                         *)
EXTENDS Advertise, TLC
=============================================================================
