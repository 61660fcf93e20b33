------------------------------- MODULE MCQueue -------------------------------
(* Small instance of Queue: two workers on two records. *)
EXTENDS Queue, TLC

CONSTANTS ann, bob, r1, r2

Alike == Permutations(Workers) \cup Permutations(Records)
==============================================================================
