------------------------- MODULE MCClientOperation --------------------------
(* Instances of ClientOperation for TLC.                                   *)
EXTENDS ClientOperation
=============================================================================
