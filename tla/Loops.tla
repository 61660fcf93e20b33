--------------------------------- MODULE Loops ---------------------------------
(***************************************************************************)
(* What the run loops of a queue's workers and of a group's consumers must *)
(* do in the end (queue.rs, consumer.rs): one of the two, Queue or         *)
(* Consumer, runs over the same processes.  What both keep is shared; the  *)
(* variables of the other loop stay as they were.                          *)
(***************************************************************************)
EXTENDS Naturals

CONSTANTS
    Processes,     \* workers of the queue, members of the group
    Records,       \* record identities of the queue
    Last,          \* the topic's last position
    Batch,         \* records or messages asked for at once
    Attempts,      \* the queue's ATTEMPTS
    Deliveries,    \* the count of deliveries beyond which all are alike
    QueueFaults,   \* how often calls fail and processes are stopped or die,
    GroupFaults,   \* of a queue and of a group
    None

VARIABLES
    loop,          \* which loop runs
    late, faults, pc, decision, stopped, result, finished, settled, afterStop,
    store, jobs, job, abandoned, calls, unseen,
    topic, group, batch, message, newest

Q == INSTANCE Queue WITH Workers <- Processes, Births <- 1, Faults <- QueueFaults
C == INSTANCE Consumer WITH Members <- Processes, Faults <- GroupFaults

shared    == <<late, faults, pc, decision, stopped, result, finished, settled, afterStop>>
ofQueue   == <<store, jobs, job, abandoned, calls, unseen>>
ofGroup   == <<topic, group, batch, message, newest>>
vars      == <<loop, shared, ofQueue, ofGroup>>

Loop == {"queue", "group"}

InQueue(A) == loop = "queue" /\ A /\ UNCHANGED <<loop, ofGroup>>
InGroup(A) == loop = "group" /\ A /\ UNCHANGED <<loop, ofQueue>>

Init == loop \in Loop /\ Q!Init /\ C!Init

Next == InQueue(Q!Next) \/ InGroup(C!Next)

\* A handler returns, an exchange ends and a timer fires, so a run loop goes on by
\* itself; one that returned is started again, by an application that wants its work
\* done.
LoopsGoOn ==
    \A p \in Processes :
        /\ WF_vars(InQueue(Q!Step(p)))  /\ WF_vars(InGroup(C!Step(p)))
        /\ WF_vars(InQueue(Q!Begin(p))) /\ WF_vars(InGroup(C!Begin(p)))
        /\ SF_vars(InQueue(Q!New(p)))   /\ SF_vars(InGroup(C!New(p)))

\* The store ends a hold and buries what is spent; the group ends what is in flight,
\* and hands out again and again what is ready.
StoreGoesOn ==
    /\ \A r \in Records : WF_vars(InQueue(Q!Lapse(r))) /\ WF_vars(InQueue(Q!Bury(r)))
    /\ \A p \in C!Positions :
          /\ WF_vars(InGroup(C!Lapse(p)))
          /\ SF_vars(InGroup(\E m \in Processes, S \in SUBSET C!Positions :
                                p \in S /\ C!Read(m, S)))

Spec == Init /\ [][Next]_vars /\ LoopsGoOn /\ StoreGoesOn

-------------------------------------------------------------------------------
(* Properties.                                                             *)

\* StopEnds: a worker or a member that is stopped returns, wherever in its loop the
\* stop found it (the looks at the signal in Worker's and Consumer's runs).
StopEnds == \A p \in Processes : (stopped[p] /\ pc[p] # "out") ~> (pc[p] = "out")

\* EveryRecordEnds: a record written into the queue is dealt with, deleted as done or
\* given up, whatever worker died, stopped or lost a reply with it (the run loop, its
\* wait and its hand-back, against the queue's TIMEOUT and ATTEMPTS).
EveryRecordEnds == \A r \in Records : Q!There(r) ~> ~Q!There(r)

\* EveryMessageIsHandled: until it is acknowledged a message keeps coming, whatever
\* member died, stopped or lost a reply with it: it is in some handler's hands again
\* and again (the run loop and its reads, against the group's deadline).
EveryMessageIsHandled ==
    \A p \in C!Positions :
        (loop = "group" /\ topic >= p) ~>
            /\ loop = "group"
            /\ \/ p \in settled
               \/ \E m \in Processes : pc[m] = "handler" /\ message[m].position = p
==============================================================================
