-------------------------------- MODULE MCHttp --------------------------------
(* Small instance of Http: a handle, and a clone of it or another's. *)
EXTENDS Http, TLC

CONSTANTS ann, bob, old, new

Alike == Permutations(Handles) \cup Permutations(Passwords)
==============================================================================
