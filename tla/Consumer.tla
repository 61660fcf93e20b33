------------------------------- MODULE Consumer -------------------------------
(***************************************************************************)
(* The members of one consumer group on one topic (consumer.rs,            *)
(* consumer/statements.rs).                                                *)
(*                                                                         *)
(* A member reads a batch of messages, calls its handler on each in turn,  *)
(* settles each as the handler said - ACK, or NACK to have it handed out   *)
(* again - and reads again; a stop from another task ends the loop, and    *)
(* what the batch still had is left to the group's deadline.  The group is *)
(* in the store: the last position handed out, what is in flight, and what *)
(* is to be handed out again.  Unlike a queue's RELEASE, a settlement      *)
(* names the group and the position only, never the member.                *)
(*                                                                         *)
(* A statement and its reply are one step, as in Queue; the calls of the   *)
(* handler are steps of their own.  A statement whose reply is lost ends   *)
(* the run, and the store may execute it then, later, or never.            *)
(***************************************************************************)
EXTENDS Naturals, FiniteSets

CONSTANTS
    Members,     \* members of the group, one process each
    Last,        \* the topic's last position
    Batch,       \* messages asked for per read
    Deliveries,  \* the count of deliveries beyond which all are alike
    Faults,      \* how often calls fail and members are stopped or die
    None

ASSUME ConstantsAssumption ==
    /\ Last \in Nat
    /\ Batch \in Nat \ {0}
    /\ Deliveries \in Nat \ {0, 1}
    /\ Faults \in Nat
    /\ None \notin [position : 1 .. Last, deliveries : 1 .. Deliveries]

Positions == 1 .. Last

VARIABLES
    topic,       \* how many messages the topic has
    group,       \* what the group keeps of each position
    late,        \* statements whose sender has given up on the reply
    faults,      \* how many of Faults have happened
    pc,          \* where the member's run loop is
    batch,       \* the rest of the batch: messages the handler has not seen
    message,     \* the message the handler was given
    decision,    \* what becomes of it
    stopped,     \* the member's stop signal
    result,      \* what the last run returned
    \* History, read by the properties only.
    finished,    \* positions a handler said it is done with
    settled,     \* positions acknowledged
    newest,      \* the newest message a member's handler got on its first delivery
    afterStop    \* handler calls begun since the stop

run     == <<pc, batch, message, decision, result>>
history == <<finished, settled, newest, afterStop>>
vars    == <<topic, group, late, faults, run, stopped, history>>

Stages    == {"out", "read", "wait", "next", "handler", "settle"}
States    == {"ready", "delayed", "in_flight", "done"}
Decisions == {"ack", "nack", "delay", "leave"}

\* A message as the group handed it out.
Message == [position : Positions, deliveries : 1 .. Deliveries]

\* What the group keeps of a position.
Entries == [state : States, deliveries : 0 .. Deliveries]

Statements == [kind : {"read"}, positions : {{}}]
              \cup [kind : {"ack", "nack", "delay"}, positions : SUBSET Positions]

-------------------------------------------------------------------------------
(* The group in the store.                                                 *)

Ready == {p \in 1 .. topic : group[p].state = "ready"}
Unread(p) == group[p].deliveries = 0

\* A read takes what is ready, up to its count; of what was never handed out it
\* takes the earliest.
Reads == {S \in SUBSET Ready :
             /\ Cardinality(S) <= Batch
             /\ S = {} => Ready = {}
             /\ \A p \in S, q \in Ready : Unread(p) /\ Unread(q) /\ q < p => q \in S}

More(count) == IF count < Deliveries THEN count + 1 ELSE count

HandedOut(S) ==
    [p \in Positions |->
        IF p \in S THEN [state |-> "in_flight", deliveries |-> More(group[p].deliveries)]
                   ELSE group[p]]

InFlight(S) == {p \in S : group[p].state = "in_flight"}

To(S, state) ==
    [p \in Positions |->
        IF p \in InFlight(S) THEN [group[p] EXCEPT !.state = state] ELSE group[p]]

\* ACK and NACK: positions that are not in flight count nothing.
Executes(s) ==
    /\ group' = To(s.positions, CASE s.kind = "ack"   -> "done"
                                  [] s.kind = "nack"  -> "ready"
                                  [] s.kind = "delay" -> "delayed")
    /\ settled' = IF s.kind = "ack" THEN settled \cup InFlight(s.positions) ELSE settled

Publish ==
    /\ topic < Last
    /\ topic' = topic + 1
    /\ UNCHANGED <<group, late, faults, run, stopped, history>>

\* The group's deadline passes, or the delay a NACK asked for.
Lapse(p) ==
    /\ group[p].state \in {"in_flight", "delayed"}
    /\ group' = [group EXCEPT ![p].state = "ready"]
    /\ UNCHANGED <<topic, late, faults, run, stopped, history>>

\* The store gets round to a statement nobody waits for any more.
ExecuteLate(s) ==
    /\ s \in late
    /\ late' = late \ {s}
    /\ \/ /\ s.kind = "read"
          /\ \E S \in Reads : group' = HandedOut(S)
          /\ UNCHANGED settled
       \/ /\ s.kind # "read"
          /\ Executes(s)
    /\ UNCHANGED <<topic, faults, run, stopped, finished, newest, afterStop>>

Forget(s) ==
    /\ s \in late
    /\ late' = late \ {s}
    /\ UNCHANGED <<topic, group, faults, run, stopped, history>>

-------------------------------------------------------------------------------
(* A member.                                                               *)

Init ==
    /\ topic = 0
    /\ group = [p \in Positions |-> [state |-> "ready", deliveries |-> 0]]
    /\ late = {} /\ faults = 0
    /\ pc = [m \in Members |-> "out"]
    /\ batch = [m \in Members |-> {}]
    /\ message = [m \in Members |-> None]
    /\ decision = [m \in Members |-> "leave"]
    /\ result = [m \in Members |-> "none"]
    /\ stopped = [m \in Members |-> FALSE]
    /\ finished = {} /\ settled = {}
    /\ newest = [m \in Members |-> 0]
    /\ afterStop = [m \in Members |-> 0]

Fault == faults < Faults /\ faults' = faults + 1

\* The run loop goes to `stage` with `rest` of its batch still to do.
GoOn(m, stage, rest) ==
    /\ pc' = [pc EXCEPT ![m] = stage]
    /\ batch' = [batch EXCEPT ![m] = rest]
    /\ message' = [message EXCEPT ![m] = None]
    /\ decision' = [decision EXCEPT ![m] = "leave"]
    /\ UNCHANGED result

\* Faulty: what the batch still had is kept.
ReturnKept(m, what) ==
    /\ pc' = [pc EXCEPT ![m] = "out"]
    /\ message' = [message EXCEPT ![m] = None]
    /\ decision' = [decision EXCEPT ![m] = "leave"]
    /\ result' = [result EXCEPT ![m] = what]
    /\ UNCHANGED batch

\* The run returns, and what it held of its batch is dropped.
Return(m, what) ==
    /\ pc' = [pc EXCEPT ![m] = "out"]
    /\ batch' = [batch EXCEPT ![m] = {}]
    /\ message' = [message EXCEPT ![m] = None]
    /\ decision' = [decision EXCEPT ![m] = "leave"]
    /\ result' = [result EXCEPT ![m] = what]

\* The node refuses the statement, or the reply is lost or does not decode, and
\* the statement may be executed yet.  Any of them ends the run.
Fails(m, s) ==
    /\ Fault
    /\ late' \in {late, late \cup {s}}
    /\ Return(m, "error")
    /\ UNCHANGED <<topic, group, stopped, history>>

\* A caller starts a run loop: run_auto or run_manual.
Begin(m) ==
    /\ pc[m] = "out"
    /\ GoOn(m, "read", {})
    /\ UNCHANGED <<topic, group, late, faults, stopped, history>>

\* Stopper::stop, from another task.
Stop(m) ==
    /\ ~stopped[m] /\ Fault
    /\ stopped' = [stopped EXCEPT ![m] = TRUE]
    /\ afterStop' = [afterStop EXCEPT ![m] = 0]
    /\ UNCHANGED <<topic, group, late, run, finished, settled, newest>>

\* A stopped member stays stopped; another Consumer is made for the group.
New(m) ==
    /\ pc[m] = "out" /\ stopped[m] /\ result[m] # "none"
    /\ stopped' = [stopped EXCEPT ![m] = FALSE]
    /\ result' = [result EXCEPT ![m] = "none"]
    /\ UNCHANGED <<topic, group, late, faults, pc, batch, message, decision, history>>

\* The member's process dies, and another carries on in its place.
Die(m) ==
    /\ pc[m] # "out" /\ Fault
    /\ Return(m, "error")
    /\ stopped' = [stopped EXCEPT ![m] = FALSE]
    /\ UNCHANGED <<topic, group, late, history>>

IsStopped(m) == stopped[m]

\* `next_batch` finds the member stopped.
Leave(m) ==
    /\ pc[m] = "read" /\ IsStopped(m)
    /\ Return(m, "stopped")
    /\ UNCHANGED <<topic, group, late, faults, stopped, history>>

Read(m, S) ==
    /\ pc[m] = "read" /\ ~IsStopped(m)
    /\ S \in Reads
    /\ group' = HandedOut(S)
    /\ GoOn(m, IF S = {} THEN "wait" ELSE "next",
            {[position |-> p, deliveries |-> HandedOut(S)[p].deliveries] : p \in S})
    /\ UNCHANGED <<topic, late, faults, stopped, history>>

\* Unlike a queue's claim, a read the node asks to retry ends the run too.
ReadFails(m) ==
    /\ pc[m] = "read" /\ ~IsStopped(m)
    /\ Fails(m, [kind |-> "read", positions |-> {}])

\* Faulty: the wait has no timer.
WokenByStop(m) == stopped[m]

\* The wait ends when its time passed or the member was stopped: at any time.
Woken(m) == TRUE

Wait(m) ==
    /\ pc[m] = "wait" /\ Woken(m)
    /\ GoOn(m, "read", {})
    /\ UNCHANGED <<topic, group, late, faults, stopped, history>>

\* Faulty: the batch is taken from its end.
NextIsLast(m, g) == \A other \in batch[m] : other.position <= g.position

\* The messages of a batch come in the order of the topic.
IsNext(m, g) == \A other \in batch[m] : g.position <= other.position

Call(m, g) ==
    /\ pc[m] = "next" /\ g \in batch[m] /\ IsNext(m, g)
    /\ pc' = [pc EXCEPT ![m] = "handler"]
    /\ batch' = [batch EXCEPT ![m] = @ \ {g}]
    /\ message' = [message EXCEPT ![m] = g]
    /\ newest' = IF g.deliveries = 1 THEN [newest EXCEPT ![m] = g.position] ELSE newest
    /\ afterStop' = IF stopped[m] THEN [afterStop EXCEPT ![m] = @ + 1] ELSE afterStop
    /\ UNCHANGED <<topic, group, late, faults, decision, result, stopped, finished, settled>>

\* What the loops make of a handler that did the work (`ok`) or did not: of Ok
\* and Err in auto mode, and of what the handler decided in manual mode.
Becomes(ok, d) == IF ok THEN d = "ack" ELSE d \in {"nack", "delay", "leave"}

HandlerReturns(m, ok, d) ==
    /\ pc[m] = "handler"
    /\ Becomes(ok, d)
    /\ pc' = [pc EXCEPT ![m] = "settle"]
    /\ decision' = [decision EXCEPT ![m] = d]
    /\ finished' = IF ok THEN finished \cup {message[m].position} ELSE finished
    /\ UNCHANGED <<topic, group, late, faults, batch, message, result, stopped, settled,
                   newest, afterStop>>

\* Faulty: the batch is settled with its first message.
WholeBatch(m) ==
    [kind      |-> decision[m],
     positions |-> {g.position : g \in batch[m] \cup {message[m]}}]

Statement(m) == [kind |-> decision[m], positions |-> {message[m].position}]

\* Faulty: the stop is looked at between batches only.
AfterWhole(m) == IF batch[m] = {} THEN "read" ELSE "next"

\* What comes after a message: the run's end, the next message, the next batch.
After(m) == IF IsStopped(m) THEN "out" ELSE IF batch[m] = {} THEN "read" ELSE "next"

Proceed(m) ==
    IF After(m) = "out" THEN Return(m, "stopped") ELSE GoOn(m, After(m), batch[m])

\* `ack` and `nack`; a manual handler may leave the message as it is.
Settle(m) ==
    /\ pc[m] = "settle"
    /\ IF decision[m] = "leave" THEN UNCHANGED <<group, settled>>
                                ELSE Executes(Statement(m))
    /\ Proceed(m)
    /\ UNCHANGED <<topic, late, faults, stopped, finished, newest, afterStop>>

SettleFails(m) ==
    /\ pc[m] = "settle" /\ decision[m] # "leave"
    /\ Fails(m, Statement(m))

-------------------------------------------------------------------------------
\* What a run loop does by itself.
Step(m) ==
    \/ Leave(m) \/ ReadFails(m) \/ Wait(m)
    \/ \E S \in SUBSET Positions : Read(m, S)
    \/ \E g \in batch[m] : Call(m, g)
    \/ \E ok \in BOOLEAN, d \in Decisions : HandlerReturns(m, ok, d)
    \/ Settle(m) \/ SettleFails(m)

\* What others do to it.
Application(m) == Begin(m) \/ Stop(m) \/ New(m) \/ Die(m)

Store ==
    \/ Publish
    \/ \E p \in Positions : Lapse(p)
    \/ \E s \in late : ExecuteLate(s) \/ Forget(s)

Next == Store \/ \E m \in Members : Step(m) \/ Application(m)

Safety == Init /\ [][Next]_vars

-------------------------------------------------------------------------------
(* Properties.                                                             *)

\* The values of every variable, and where a run holds messages: those of one
\* batch, while it has one.
TypeOK ==
    /\ topic \in 0 .. Last
    /\ group \in [Positions -> Entries]
    /\ late \subseteq Statements
    /\ faults \in 0 .. Faults
    /\ pc \in [Members -> Stages]
    /\ batch \in [Members -> SUBSET Message]
    /\ message \in [Members -> Message \cup {None}]
    /\ decision \in [Members -> Decisions]
    /\ stopped \in [Members -> BOOLEAN]
    /\ result \in [Members -> {"none", "stopped", "error"}]
    /\ finished \subseteq Positions /\ settled \subseteq Positions
    /\ newest \in [Members -> 0 .. Last]
    /\ afterStop \in [Members -> Nat]
    /\ \A m \in Members :
          /\ batch[m] # {} => pc[m] \in {"next", "handler", "settle"}
          /\ message[m] # None <=> pc[m] \in {"handler", "settle"}

\* Both modes are at least once: a message is forgotten only after a handler
\* said it is done with it, whichever member acknowledged it and however late.
Promise == INSTANCE AtLeastOnce WITH Items <- Positions, abandoned <- {}
WorkIsAtLeastOnce == Promise!Safety

\* A member's handler gets the messages in the order the group hands them out:
\* what it is given for the first time is newer than all it was so given before,
\* through stops, deaths and failed reads.
InOrder ==
    [][\A m \in Members : \A g \in batch[m] :
          g.deliveries = 1 /\ g \notin batch'[m] /\ message'[m] = g =>
              g.position > newest[m]]_vars

\* Once stopped, a member begins at most one more message: the first of a batch
\* whose read was under way.
StopIsPrompt == \A m \in Members : afterStop[m] <= 1
==============================================================================
