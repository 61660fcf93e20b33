------------------------------ MODULE OneAnswer ------------------------------
(***************************************************************************)
(* What `Client::send` promises its caller, whatever the cluster does: a   *)
(* request in hand is run at most once; answers mean it ran; an error that *)
(* says nothing ran means it did not; every other error leaves it open.    *)
(* And every send ends.                                                    *)
(***************************************************************************)
EXTENDS Naturals

VARIABLES
    open,      \* is a request in hand
    runs,      \* how often a node ran it
    verdict    \* what the caller was told of the last one

vars == <<open, runs, verdict>>

Verdicts == {"answers", "nothing_ran", "unsure"}

Init == open = FALSE /\ runs = 0 /\ verdict = "unsure"

Ask ==
    /\ ~open
    /\ open' = TRUE /\ runs' = 0 /\ verdict' = "unsure"

Return ==
    /\ open
    /\ runs = 0
    /\ open' = FALSE
    /\ \/ verdict' = "answers"     /\ runs' = 1
       \/ verdict' = "nothing_ran" /\ runs' = 0
       \/ verdict' = "unsure"      /\ runs' \in {0, 1}

Next == Ask \/ Return

Safety == Init /\ [][Next]_vars

Spec == Safety /\ WF_vars(Return)
==============================================================================
