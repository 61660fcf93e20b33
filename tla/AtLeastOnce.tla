----------------------------- MODULE AtLeastOnce -----------------------------
(***************************************************************************)
(* What a queue or a consumer group promises the work given to it: an item *)
(* is settled, never to be handed out again, only after a handler said it  *)
(* is done with it.  An item nobody finishes may be given up instead.      *)
(***************************************************************************)
CONSTANT Items

VARIABLES
    finished,    \* the items some handler said it is done with
    settled,     \* the items never handed out again because of that
    abandoned    \* the items given up

vars == <<finished, settled, abandoned>>

Init == finished = {} /\ settled = {} /\ abandoned = {}

Finish(i) ==
    /\ finished' = finished \cup {i}
    /\ UNCHANGED <<settled, abandoned>>

Settle(i) ==
    /\ i \in finished
    /\ settled' = settled \cup {i}
    /\ UNCHANGED <<finished, abandoned>>

Abandon(i) ==
    /\ i \notin settled
    /\ abandoned' = abandoned \cup {i}
    /\ UNCHANGED <<finished, settled>>

Next == \E i \in Items : Finish(i) \/ Settle(i) \/ Abandon(i)

Safety == Init /\ [][Next]_vars
==============================================================================
