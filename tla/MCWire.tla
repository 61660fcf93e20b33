-------------------------------- MODULE MCWire --------------------------------
(* Small instance of Wire: minors on both sides of each one asked for. *)
EXTENDS Wire
==============================================================================
