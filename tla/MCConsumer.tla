------------------------------ MODULE MCConsumer ------------------------------
(* Small instance of Consumer: two members on a topic of two messages. *)
EXTENDS Consumer, TLC

CONSTANTS ann, bob

Alike == Permutations(Members)
==============================================================================
