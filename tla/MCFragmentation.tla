-------------------------- MODULE MCFragmentation ---------------------------
(* Instances of Fragmentation for TLC.                                     *)
EXTENDS Fragmentation, TLC
=============================================================================
