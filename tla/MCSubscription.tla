---------------------------- MODULE MCSubscription ----------------------------
(* Small instance of Subscription: two records, so that a commit may have two *)
(* changes and the connection end between them.                               *)
EXTENDS Subscription
==============================================================================
