-------------------------------- MODULE Queue --------------------------------
(***************************************************************************)
(* The workers of one queue (queue.rs, queue/statements.rs).               *)
(*                                                                         *)
(* A worker claims a batch of records, calls its handler on each, settles  *)
(* each as the handler said - DELETE when done, RELEASE to hand it back -  *)
(* and claims again; a stop from another task ends the loop.  The queue is *)
(* in the store: a claim holds its records for the worker and counts an    *)
(* attempt, and a hold lapses after the queue's TIMEOUT.                   *)
(*                                                                         *)
(* A statement and its reply are one step, with the worker's next decision *)
(* (nothing a worker does between them is seen by anyone else); the calls  *)
(* of the handler are steps of their own, so holds lapse and stops arrive  *)
(* while it runs.  A statement whose reply is lost ends the run, and the   *)
(* store may still execute it then or at any later time, or never.         *)
(***************************************************************************)
EXTENDS Naturals, FiniteSets

CONSTANTS
    Workers,     \* worker names, one process each
    Records,     \* record identities
    Batch,       \* records asked for per claim
    Attempts,    \* the queue's ATTEMPTS
    Births,      \* how often a producer writes a record under one identity
    Faults,      \* how often calls fail and workers are stopped or die
    None

ASSUME ConstantsAssumption ==
    /\ Batch \in 1 .. 500
    /\ Attempts \in Nat \ {0}
    /\ Births \in Nat \ {0}
    /\ Faults \in Nat
    /\ IsFiniteSet(Records)
    /\ None \notin Workers \cup Records

Items == Records \X (1 .. Births)

VARIABLES
    store,       \* the queue's records, as the store keeps them
    late,        \* statements whose sender has given up on the reply
    faults,      \* how many of Faults have happened
    pc,          \* where the worker's run loop is
    jobs,        \* the rest of the batch: jobs the handler has not seen
    job,         \* the job the handler was given
    decision,    \* what becomes of it
    stopped,     \* the worker's stop signal
    result,      \* what the last run returned
    \* History, read by the properties only.
    finished,    \* items a handler said it is done with
    settled,     \* items deleted
    abandoned,   \* items that went to the dead letters
    calls,       \* handler calls on the record as it is now
    unseen,      \* records a run claimed and has not called the handler on
    afterStop    \* handler calls begun since the stop

run     == <<pc, jobs, job, decision, result>>
history == <<finished, settled, abandoned, calls, unseen, afterStop>>
vars    == <<store, late, faults, run, stopped, history>>

Stages    == {"out", "claim", "wait", "next", "handler", "settle", "hand_back"}
States    == {"absent", "waiting", "delayed", "held", "dead"}
Decisions == {"done", "release", "delay", "leave"}

\* A record as the store keeps it: how often one was written here, and the hold.
Entries == [birth : 0 .. Births, state : States, by : Workers \cup {None},
            attempts : 0 .. Attempts]

\* What a statement says: which one, from whom, about which record.
Statements == [kind : {"claim"}, by : Workers, record : {None}]
              \cup [kind : {"done", "release", "delay"}, by : Workers, record : Records]

-------------------------------------------------------------------------------
(* The queue in the store.                                                 *)

\* Faulty: a record is handed out however often it was.
ClaimableForever(r) == store[r].state = "waiting"

Claimable(r) == store[r].state = "waiting" /\ store[r].attempts < Attempts

\* A claim takes what is there, up to its count.
Claims == {S \in SUBSET {r \in Records : Claimable(r)} :
              /\ Cardinality(S) <= Batch
              /\ S = {} => \A r \in Records : ~Claimable(r)}

Taken(w, S) ==
    [r \in Records |->
        IF r \in S THEN [store[r] EXCEPT !.state = "held", !.by = w,
                                         !.attempts = @ + 1]
                   ELSE store[r]]

There(r) == store[r].state \in {"waiting", "delayed", "held"}
HeldBy(r, w) == store[r].state = "held" /\ store[r].by = w
Current(r) == <<r, store[r].birth>>

\* Faulty: a release that does not say for which worker.
ReleasedAnyway(w, r, state) ==
    [store EXCEPT ![r].state = IF @ = "held" THEN state ELSE @, ![r].by = None]

\* RELEASE names its worker, so only that worker's hold ends.
Released(w, r, state) ==
    IF HeldBy(r, w) THEN [store EXCEPT ![r].state = state, ![r].by = None]
                    ELSE store

\* What the store does for `done` and `release`.  DELETE names only the record.
Executes(s) ==
    CASE s.kind = "done" ->
            /\ store' = IF There(s.record)
                        THEN [store EXCEPT ![s.record].state = "absent",
                                           ![s.record].by = None]
                        ELSE store
            /\ settled' = IF There(s.record) THEN settled \cup {Current(s.record)}
                                             ELSE settled
      [] s.kind = "release" ->
            /\ store' = Released(s.by, s.record, "waiting")
            /\ UNCHANGED settled
      [] s.kind = "delay" ->
            /\ store' = Released(s.by, s.record, "delayed")
            /\ UNCHANGED settled

\* A producer writes a record.
Produce(r) ==
    /\ store[r].state \in {"absent", "dead"} /\ store[r].birth < Births
    /\ store' = [store EXCEPT ![r] = [birth |-> @.birth + 1, state |-> "waiting",
                                      by |-> None, attempts |-> 0]]
    /\ calls' = [calls EXCEPT ![r] = 0]
    /\ UNCHANGED <<late, faults, run, stopped, finished, settled, abandoned,
                   unseen, afterStop>>

\* The queue's TIMEOUT passes, or the instant a delayed release named.
Lapse(r) ==
    /\ store[r].state \in {"held", "delayed"}
    /\ store' = [store EXCEPT ![r].state = "waiting", ![r].by = None]
    /\ UNCHANGED <<late, faults, run, stopped, history>>

\* A record whose attempts are spent goes to the dead letters.
Bury(r) ==
    /\ store[r].state = "waiting" /\ store[r].attempts = Attempts
    /\ store' = [store EXCEPT ![r].state = "dead"]
    /\ abandoned' = abandoned \cup {Current(r)}
    /\ UNCHANGED <<late, faults, run, stopped, finished, settled, calls, unseen,
                   afterStop>>

\* The store gets round to a statement nobody waits for any more.
ExecuteLate(s) ==
    /\ s \in late
    /\ late' = late \ {s}
    /\ \/ /\ s.kind = "claim"
          /\ \E S \in Claims :
                /\ store' = Taken(s.by, S)
                /\ unseen' = [unseen EXCEPT ![s.by] = @ \ S]
          /\ UNCHANGED settled
       \/ /\ s.kind # "claim"
          /\ Executes(s)
          /\ UNCHANGED unseen
    /\ UNCHANGED <<faults, run, stopped, finished, abandoned, calls, afterStop>>

Forget(s) ==
    /\ s \in late
    /\ late' = late \ {s}
    /\ UNCHANGED <<store, faults, run, stopped, history>>

-------------------------------------------------------------------------------
(* A worker.                                                               *)

Init ==
    /\ store = [r \in Records |-> [birth |-> 0, state |-> "absent", by |-> None,
                                   attempts |-> 0]]
    /\ late = {} /\ faults = 0
    /\ pc = [w \in Workers |-> "out"]
    /\ jobs = [w \in Workers |-> {}]
    /\ job = [w \in Workers |-> None]
    /\ decision = [w \in Workers |-> "leave"]
    /\ result = [w \in Workers |-> "none"]
    /\ stopped = [w \in Workers |-> FALSE]
    /\ finished = {} /\ settled = {} /\ abandoned = {}
    /\ calls = [r \in Records |-> 0]
    /\ unseen = [w \in Workers |-> {}]
    /\ afterStop = [w \in Workers |-> 0]

\* Faulty: the signal is never looked at.
NeverStopped(w) == FALSE
IsStopped(w) == stopped[w]

\* Faulty: the next job is read and left in the batch.
RestWithIt(w, j) == jobs[w]
Rest(w, j) == jobs[w] \ {j}

Fault == faults < Faults /\ faults' = faults + 1

\* The run loop goes to `stage` with `batch` still to do.
GoOn(w, stage, batch) ==
    /\ pc' = [pc EXCEPT ![w] = stage]
    /\ jobs' = [jobs EXCEPT ![w] = batch]
    /\ job' = [job EXCEPT ![w] = None]
    /\ decision' = [decision EXCEPT ![w] = "leave"]
    /\ UNCHANGED result

\* The run returns, and what it held of its batch is dropped.
Return(w, what) ==
    /\ pc' = [pc EXCEPT ![w] = "out"]
    /\ result' = [result EXCEPT ![w] = what]
    /\ jobs' = [jobs EXCEPT ![w] = {}]
    /\ job' = [job EXCEPT ![w] = None]
    /\ decision' = [decision EXCEPT ![w] = "leave"]

\* An exchange fails: the node refuses the statement, or the reply is lost and
\* the statement may be executed yet.  Either error ends the run.
Fails(w, s) ==
    /\ Fault
    /\ late' \in {late, late \cup {s}}
    /\ Return(w, "error")
    /\ UNCHANGED <<store, stopped, history>>

\* A caller starts a run loop: run_auto or run_manual, which differ only in what
\* a handler returns.
Begin(w) ==
    /\ pc[w] = "out"
    /\ pc' = [pc EXCEPT ![w] = "claim"]
    /\ result' = [result EXCEPT ![w] = "none"]
    /\ unseen' = [unseen EXCEPT ![w] = {}]
    /\ UNCHANGED <<store, late, faults, jobs, job, decision, stopped, finished,
                   settled, abandoned, calls, afterStop>>

\* QueueStopper::stop, from another task.
Stop(w) ==
    /\ ~stopped[w] /\ Fault
    /\ stopped' = [stopped EXCEPT ![w] = TRUE]
    /\ afterStop' = [afterStop EXCEPT ![w] = 0]
    /\ UNCHANGED <<store, late, run, finished, settled, abandoned, calls, unseen>>

\* A stopped worker stays stopped; a new Queue is made under its name.
New(w) ==
    /\ pc[w] = "out" /\ stopped[w] /\ result[w] # "none"
    /\ stopped' = [stopped EXCEPT ![w] = FALSE]
    /\ result' = [result EXCEPT ![w] = "none"]
    /\ unseen' = [unseen EXCEPT ![w] = {}]
    /\ UNCHANGED <<store, late, faults, pc, jobs, job, decision, finished, settled,
                   abandoned, calls, afterStop>>

\* The worker's process dies and says nothing; another may run under its name.
Die(w) ==
    /\ pc[w] # "out" /\ Fault
    /\ Return(w, "error")
    /\ stopped' = [stopped EXCEPT ![w] = FALSE]
    /\ UNCHANGED <<store, late, history>>

\* `next_batch` finds the worker stopped.
Leave(w) ==
    /\ pc[w] = "claim" /\ IsStopped(w)
    /\ Return(w, "stopped")
    /\ UNCHANGED <<store, late, faults, stopped, history>>

Claim(w) ==
    /\ pc[w] = "claim" /\ ~IsStopped(w)
    /\ \E S \in Claims :
          /\ store' = Taken(w, S)
          /\ unseen' = [unseen EXCEPT ![w] = @ \cup S]
          /\ GoOn(w, IF S = {} THEN "wait" ELSE "next", {Current(r) : r \in S})
    /\ UNCHANGED <<late, faults, stopped, finished, settled, abandoned, calls,
                   afterStop>>

\* A claim refused with class `retry` is waited on like an empty one.
ClaimRetries(w) ==
    /\ pc[w] = "claim" /\ ~IsStopped(w) /\ Fault
    /\ GoOn(w, "wait", {})
    /\ UNCHANGED <<store, late, stopped, history>>

ClaimFails(w) ==
    /\ pc[w] = "claim" /\ ~IsStopped(w)
    /\ Fails(w, [kind |-> "claim", by |-> w, record |-> None])

\* Faulty: the wait has no timer.
WokenByStop(w) == stopped[w]

\* The wait ends when its time passed or the worker was stopped: at any time.
Woken(w) == TRUE

Wait(w) ==
    /\ pc[w] = "wait" /\ Woken(w)
    /\ GoOn(w, "claim", {})
    /\ UNCHANGED <<store, late, faults, stopped, history>>

\* The handler is called on the next job of the batch.
Call(w, j) ==
    /\ pc[w] = "next" /\ j \in jobs[w]
    /\ pc' = [pc EXCEPT ![w] = "handler"]
    /\ jobs' = [jobs EXCEPT ![w] = Rest(w, j)]
    /\ job' = [job EXCEPT ![w] = j]
    /\ calls' = IF j = Current(j[1]) THEN [calls EXCEPT ![j[1]] = @ + 1] ELSE calls
    /\ unseen' = [unseen EXCEPT ![w] = @ \ {j[1]}]
    /\ afterStop' = IF stopped[w] THEN [afterStop EXCEPT ![w] = @ + 1] ELSE afterStop
    /\ UNCHANGED <<store, late, faults, decision, result, stopped, finished, settled,
                   abandoned>>

\* Faulty: Err settles the job as Ok does.
AnyIsDone(ok, d) == d = "done"

\* What the loops make of a handler that did the work (`ok`) or did not: of Ok
\* and Err in auto mode, and of what the handler decided in manual mode.
Becomes(ok, d) == IF ok THEN d = "done" ELSE d \in {"release", "delay", "leave"}

HandlerReturns(w, ok, d) ==
    /\ pc[w] = "handler"
    /\ Becomes(ok, d)
    /\ pc' = [pc EXCEPT ![w] = "settle"]
    /\ decision' = [decision EXCEPT ![w] = d]
    /\ finished' = IF ok THEN finished \cup {job[w]} ELSE finished
    /\ UNCHANGED <<store, late, faults, jobs, job, result, stopped, settled,
                   abandoned, calls, unseen, afterStop>>

\* Faulty: the stop is looked at between batches only.
NextWhole(w) ==
    IF jobs[w] # {} THEN "next" ELSE IF stopped[w] THEN "hand_back" ELSE "claim"

\* Faulty: a stopped worker drops the rest of its batch.
NextDropped(w) ==
    IF stopped[w] \/ jobs[w] = {} THEN "claim" ELSE "next"

\* What comes after a job: handing back the rest if stopped, the next job, the
\* next batch.
After(w) ==
    IF IsStopped(w) THEN "hand_back" ELSE IF jobs[w] = {} THEN "claim" ELSE "next"

Statement(w) == [kind |-> decision[w], by |-> w, record |-> job[w][1]]

\* `done` and `release`; a manual handler may leave the job as it is.
Settle(w) ==
    /\ pc[w] = "settle"
    /\ IF decision[w] = "leave" THEN UNCHANGED <<store, settled>>
                                ELSE Executes(Statement(w))
    /\ GoOn(w, After(w), jobs[w])
    /\ UNCHANGED <<late, faults, stopped, finished, abandoned, calls, unseen, afterStop>>

SettleFails(w) ==
    /\ pc[w] = "settle" /\ decision[w] # "leave"
    /\ Fails(w, Statement(w))

\* `hand_back`: a release for each job the handler never saw.
HandBack(w, j) ==
    /\ pc[w] = "hand_back" /\ j \in jobs[w]
    /\ Executes([kind |-> "release", by |-> w, record |-> j[1]])
    /\ GoOn(w, "hand_back", Rest(w, j))
    /\ UNCHANGED <<late, faults, stopped, finished, abandoned, calls, unseen, afterStop>>

HandBackFails(w, j) ==
    /\ pc[w] = "hand_back" /\ j \in jobs[w]
    /\ Fails(w, [kind |-> "release", by |-> w, record |-> j[1]])

HandedBack(w) ==
    /\ pc[w] = "hand_back" /\ jobs[w] = {}
    /\ Return(w, "stopped")
    /\ UNCHANGED <<store, late, faults, stopped, history>>

-------------------------------------------------------------------------------
\* What a run loop does by itself.
Step(w) ==
    \/ Leave(w) \/ Claim(w) \/ ClaimRetries(w) \/ ClaimFails(w) \/ Wait(w)
    \/ \E j \in jobs[w] : Call(w, j) \/ HandBack(w, j) \/ HandBackFails(w, j)
    \/ \E ok \in BOOLEAN, d \in Decisions : HandlerReturns(w, ok, d)
    \/ Settle(w) \/ SettleFails(w) \/ HandedBack(w)

\* What others do to it.
Application(w) ==
    Begin(w) \/ Stop(w) \/ New(w) \/ Die(w)

Store ==
    \/ \E r \in Records : Produce(r) \/ Lapse(r) \/ Bury(r)
    \/ \E s \in late : ExecuteLate(s) \/ Forget(s)

Next == Store \/ \E w \in Workers : Step(w) \/ Application(w)

Safety == Init /\ [][Next]_vars

-------------------------------------------------------------------------------
(* Properties.                                                             *)

\* The values of every variable.
TypeOK ==
    /\ store \in [Records -> Entries]
    /\ late \subseteq Statements
    /\ faults \in 0 .. Faults
    /\ pc \in [Workers -> Stages]
    /\ jobs \in [Workers -> SUBSET Items]
    /\ job \in [Workers -> Items \cup {None}]
    /\ decision \in [Workers -> Decisions]
    /\ stopped \in [Workers -> BOOLEAN]
    /\ result \in [Workers -> {"none", "stopped", "error"}]
    /\ finished \subseteq Items /\ settled \subseteq Items /\ abandoned \subseteq Items
    /\ calls \in [Records -> Nat]
    /\ unseen \in [Workers -> SUBSET Records]
    /\ afterStop \in [Workers -> Nat]

\* The work is at least once: a record is deleted only after a handler said it
\* is done with it, whatever fails and whoever else is working on it.
Promise == INSTANCE AtLeastOnce
WorkIsAtLeastOnce == Promise!Safety

\* A hold ends by its own worker's statement, by lapsing, or with the record: a
\* release that comes late, or from a worker whose hold lapsed, does not hand
\* another worker's record out a second time.
ReleaseEndsItsOwnHold ==
    [][\A r \in Records, w \in Workers :
          HeldBy(r, w) /\ ~HeldBy(r, w)' /\ There(r)' =>
              /\ \A v \in Workers \ {w} : pc'[v] = pc[v] /\ jobs'[v] = jobs[v]
              /\ \A s \in late \ late' : s.by = w]_vars

\* The handler is called at most once for every attempt the store counted, so a
\* record that keeps failing reaches its ATTEMPTS.
OneCallPerAttempt == \A r \in Records : calls[r] <= store[r].attempts

\* A worker that stopped without an error holds nothing its handler never saw:
\* the rest of the batch was handed back.
StopHandsBack ==
    \A w \in Workers : result[w] = "stopped" =>
        \A r \in unseen[w] : ~HeldBy(r, w)

\* Once stopped, a worker begins at most one more job: the first of a batch
\* whose claim was under way.
StopIsPrompt == \A w \in Workers : afterStop[w] <= 1
==============================================================================
