-------------------------------- MODULE MCLoops --------------------------------
(* Small instance of Loops: two processes, one record or one message. *)
EXTENDS Loops

CONSTANTS ann, bob, r1
==============================================================================
