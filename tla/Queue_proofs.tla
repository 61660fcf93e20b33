----------------------------- MODULE Queue_proofs -----------------------------
(* Proofs about Queue. *)
EXTENDS Queue, FiniteSetTheorems, TLAPS

\* A record that is somewhere was written.
Born == \A r \in Records : store[r].state # "absent" => store[r].birth > 0

\* Between batches there is nothing left of one, and while the handler runs and
\* its job is settled there is a job; a run under way has returned nothing yet.
InHand ==
    \A w \in Workers :
        /\ pc[w] \in {"out", "claim", "wait"} => jobs[w] = {}
        /\ pc[w] \in {"handler", "settle"} => job[w] \in Items
        /\ pc[w] # "out" => result[w] = "none"

\* Only a finished job is on its way to be deleted.
DoneIsFinished ==
    /\ \A w \in Workers : pc[w] = "settle" /\ decision[w] = "done" =>
          job[w] \in finished
    /\ \A s \in late : s.kind = "done" =>
          \E b \in 1 .. Births : <<s.record, b>> \in finished

\* A run that has not failed has every record it claimed and still holds in its
\* batch, until the handler sees it.
UnseenInBatch ==
    \A w \in Workers : result[w] # "error" =>
        \A r \in unseen[w] : HeldBy(r, w) => Current(r) \in jobs[w]

\* A record that is written once and deleted is gone.
GoneForGood ==
    \A r \in Records : Births = 1 /\ <<r, 1>> \in settled =>
        store[r].state = "absent" /\ store[r].birth = 1

Inductive ==
    /\ TypeOK
    /\ Born
    /\ InHand
    /\ DoneIsFinished
    /\ UnseenInBatch
    /\ GoneForGood

-------------------------------------------------------------------------------
(* The store.                                                              *)

\* What a settlement does to the records: it ends holds and makes none.
LEMMA ExecutesKeeps ==
    ASSUME TypeOK, Born, GoneForGood, NEW s \in Statements, s.kind # "claim",
           Executes(s)
    PROVE  /\ store' \in [Records -> Entries] /\ settled' \subseteq Items
           /\ Born' /\ GoneForGood'
           /\ \A r \in Records, w \in Workers : HeldBy(r, w)' => HeldBy(r, w)
           /\ \A r \in Records : Current(r)' = Current(r)
           /\ s.kind = "release" => ~HeldBy(s.record, s.by)'
  <1>1. s.record \in Records /\ s.by \in Workers
    BY DEF Statements
  <1>2. store \in [Records -> Entries] /\ settled \subseteq Items
    BY DEF TypeOK
  <1>3. CASE s.kind = "done"
    <2>1. /\ store' = IF There(s.record)
                      THEN [store EXCEPT ![s.record].state = "absent",
                                         ![s.record].by = None]
                      ELSE store
          /\ settled' = IF There(s.record) THEN settled \cup {Current(s.record)}
                                           ELSE settled
      BY <1>3 DEF Executes
    <2>2. CASE ~There(s.record)
      BY <2>1, <2>2, <1>2, <1>3 DEF Born, GoneForGood, HeldBy, Current
    <2>3. CASE There(s.record)
      <3>1. store[s.record].birth \in 1 .. Births
        BY <1>1, <1>2, <2>3 DEF There, Born, Entries
      <3>2. settled' \subseteq Items
        BY <1>1, <1>2, <2>1, <2>3, <3>1 DEF Items, Current
      <3>3. store' \in [Records -> Entries]
        BY <1>1, <1>2, <2>1, <2>3 DEF Entries, States
      <3>4. /\ store'[s.record].state = "absent"
            /\ \A r \in Records \ {s.record} : store'[r] = store[r]
            /\ \A r \in Records : store'[r].birth = store[r].birth
        BY <1>1, <1>2, <2>1, <2>3 DEF Entries
      <3>5. Born'
        BY <3>4, <1>1 DEF Born
      <3>6. GoneForGood'
        BY <3>1, <3>4, <2>1, <2>3, <1>1 DEF GoneForGood, Current
      <3>7. QED
        BY <3>2, <3>3, <3>4, <3>5, <3>6, <1>3 DEF HeldBy, Current
    <2>4. QED
      BY <2>2, <2>3
  <1>4. CASE s.kind \in {"release", "delay"}
    <2>1. PICK state \in {"waiting", "delayed"} :
              store' = Released(s.by, s.record, state) /\ settled' = settled
      BY <1>4 DEF Executes
    <2>2. CASE ~HeldBy(s.record, s.by)
      BY <2>1, <2>2, <1>2, <1>4 DEF Released, Born, GoneForGood, HeldBy, Current
    <2>3. CASE HeldBy(s.record, s.by)
      <3>1. store' \in [Records -> Entries]
        BY <1>1, <1>2, <2>1, <2>3 DEF Released, Entries, States
      <3>2. /\ store'[s.record].state = state
            /\ \A r \in Records \ {s.record} : store'[r] = store[r]
            /\ \A r \in Records : store'[r].birth = store[r].birth
        BY <1>1, <1>2, <2>1, <2>3 DEF Released, Entries
      <3>3. Born' /\ GoneForGood'
        BY <3>2, <2>1, <2>3, <1>1 DEF Born, GoneForGood, HeldBy
      <3>4. QED
        BY <3>1, <3>2, <3>3, <2>1, <1>1, <1>2 DEF HeldBy, Current
    <2>4. QED
      BY <2>2, <2>3
  <1>5. QED
    BY <1>3, <1>4 DEF Statements

\* What a claim does to them: it holds for its worker what nobody held.
LEMMA TakenKeeps ==
    ASSUME TypeOK, Born, GoneForGood, NEW w \in Workers, NEW S \in Claims,
           store' = Taken(w, S), settled' = settled
    PROVE  /\ store' \in [Records -> Entries]
           /\ S \subseteq Records
           /\ Born' /\ GoneForGood'
           /\ \A r \in Records : Current(r)' = Current(r)
           /\ \A r \in S : Current(r) \in Items
           /\ \A r \in Records, v \in Workers :
                 HeldBy(r, v)' => HeldBy(r, v) \/ (r \in S /\ v = w)
  <1>1. /\ S \subseteq Records
        /\ \A r \in S : store[r].state = "waiting" /\ store[r].attempts < Attempts
    BY DEF Claims, Claimable
  <1>2. store \in [Records -> Entries]
    BY DEF TypeOK
  <1>3. store' \in [Records -> Entries]
    <2>1. SUFFICES ASSUME NEW r \in Records
                   PROVE  store'[r] \in Entries
      BY DEF Taken
    <2>2. CASE r \in S
      <3>1. store[r].attempts + 1 \in 0 .. Attempts
        BY <1>1, <1>2, <2>2, ConstantsAssumption DEF Entries
      <3>2. QED
        BY <1>2, <2>2, <3>1 DEF Taken, Entries, States
    <2>3. CASE r \notin S
      BY <1>2, <2>3 DEF Taken
    <2>4. QED
      BY <2>2, <2>3
  <1>4. \A r \in Records : store'[r].birth = store[r].birth
    BY <1>2 DEF Taken, Entries
  <1>5. \A r \in Records \ S : store'[r] = store[r]
    BY DEF Taken
  <1>6. \A r \in S : store'[r].by = w
    BY <1>1, <1>2 DEF Taken, Entries
  <1>7. Born' /\ GoneForGood'
    BY <1>1, <1>4, <1>5 DEF Born, GoneForGood
  <1>8. \A r \in S : Current(r) \in Items
    <2>1. SUFFICES ASSUME NEW r \in S PROVE store[r].birth \in 1 .. Births
      BY <1>1 DEF Current, Items
    <2>2. store[r] \in Entries /\ store[r].birth > 0
      BY <1>1, <1>2 DEF Born
    <2>3. QED
      BY <2>2 DEF Entries
  <1>9. \A r \in Records, v \in Workers :
            HeldBy(r, v)' => HeldBy(r, v) \/ (r \in S /\ v = w)
    BY <1>5, <1>6 DEF HeldBy
  <1>10. QED
    BY <1>1, <1>3, <1>4, <1>7, <1>8, <1>9 DEF Current

-------------------------------------------------------------------------------
(* The steps.                                                              *)

\* Going on to the next batch, job or hand-back.
LEMMA GoingOn ==
    ASSUME TypeOK, InHand, NEW w \in Workers, NEW batch \in SUBSET Items,
           NEW stage \in {"claim", "wait", "next", "hand_back"},
           GoOn(w, stage, batch), pc[w] # "out",
           stage \in {"claim", "wait"} => batch = {}
    PROVE  /\ pc' \in [Workers -> Stages] /\ jobs' \in [Workers -> SUBSET Items]
           /\ job' \in [Workers -> Items \cup {None}]
           /\ decision' \in [Workers -> Decisions]
           /\ result' = result
           /\ InHand'
           /\ jobs'[w] = batch
           /\ \A v \in Workers \ {w} : jobs'[v] = jobs[v]
           /\ \A v \in Workers : pc'[v] = "settle" =>
                 pc[v] = "settle" /\ decision'[v] = decision[v] /\ job'[v] = job[v]
  BY DEF GoOn, TypeOK, InHand, Stages, Decisions

\* Returning, with whatever the run still had.
LEMMA Returning ==
    ASSUME TypeOK, InHand, NEW w \in Workers, NEW what \in {"stopped", "error"},
           Return(w, what)
    PROVE  /\ pc' \in [Workers -> Stages] /\ jobs' \in [Workers -> SUBSET Items]
           /\ job' \in [Workers -> Items \cup {None}]
           /\ decision' \in [Workers -> Decisions]
           /\ result' \in [Workers -> {"none", "stopped", "error"}]
           /\ InHand'
           /\ result'[w] = what
           /\ \A v \in Workers \ {w} : jobs'[v] = jobs[v] /\ result'[v] = result[v]
           /\ \A v \in Workers : pc'[v] = "settle" =>
                 pc[v] = "settle" /\ decision'[v] = decision[v] /\ job'[v] = job[v]
  BY DEF Return, TypeOK, InHand, Stages, Decisions

\* A run that returns without having changed the store keeps the invariant; if
\* it stopped, the handler saw all it claimed.
LEMMA ReturnInductive ==
    ASSUME Inductive, NEW w \in Workers, NEW what \in {"stopped", "error"},
           Return(w, what), what = "stopped" => jobs[w] = {} /\ result[w] # "error",
           late' \subseteq Statements, faults' \in 0 .. Faults,
           stopped' \in [Workers -> BOOLEAN],
           \A s \in late' \ late : s.kind = "done" =>
               \E b \in 1 .. Births : <<s.record, b>> \in finished,
           UNCHANGED <<store, history>>
    PROVE  Inductive'
  <1>1. TypeOK' /\ InHand'
    BY Returning DEF Inductive, TypeOK, history
  <1>2. Born' /\ GoneForGood'
    BY DEF Inductive, Born, GoneForGood, history
  <1>3. DoneIsFinished'
    BY Returning DEF Inductive, DoneIsFinished, history
  <1>4. UnseenInBatch'
    BY Returning DEF Inductive, UnseenInBatch, HeldBy, Current, history
  <1>5. QED
    BY <1>1, <1>2, <1>3, <1>4 DEF Inductive

\* A fault is counted, up to Faults.
LEMMA FaultTyped == ASSUME TypeOK, Fault PROVE faults' \in 0 .. Faults
  BY ConstantsAssumption DEF TypeOK, Fault

\* An exchange that fails ends the run and may leave its statement behind.
LEMMA FailsInductive ==
    ASSUME Inductive, NEW w \in Workers, NEW s \in Statements, Fails(w, s),
           s.kind = "done" => \E b \in 1 .. Births : <<s.record, b>> \in finished
    PROVE  Inductive'
  <1>1. late' \subseteq Statements /\ late' \ late \subseteq {s}
    BY DEF Fails, Inductive, TypeOK
  <1>2. stopped' \in [Workers -> BOOLEAN] /\ faults' \in 0 .. Faults
    BY FaultTyped DEF Fails, Inductive, TypeOK
  <1>3. Return(w, "error") /\ UNCHANGED <<store, history>>
    BY DEF Fails
  <1>4. QED
    BY <1>1, <1>2, <1>3, ReturnInductive

\* A producer writes a record where none is: no job in hand names it.
LEMMA ProduceInductive ==
    ASSUME Inductive, NEW r \in Records, Produce(r) PROVE Inductive'
  <1> DEFINE entry == [birth |-> store[r].birth + 1, state |-> "waiting",
                       by |-> None, attempts |-> 0]
  <1>1. /\ store' = [store EXCEPT ![r] = entry]
        /\ calls' = [calls EXCEPT ![r] = 0]
        /\ store[r].state \in {"absent", "dead"} /\ store[r].birth < Births
        /\ UNCHANGED <<late, faults, run, stopped, finished, settled, abandoned,
                       unseen, afterStop>>
    BY DEF Produce
  <1>2. store \in [Records -> Entries]
    BY DEF Inductive, TypeOK
  <1>3. entry \in Entries /\ entry.birth > 0
    BY <1>1, <1>2, ConstantsAssumption DEF Entries, States
  <1>4. TypeOK'
    BY <1>1, <1>2, <1>3 DEF Inductive, TypeOK, run
  <1>5. \A q \in Records \ {r} : store'[q] = store[q]
    BY <1>1, <1>2
  <1>6. store'[r] = entry
    BY <1>1, <1>2
  <1>7. Born'
    BY <1>3, <1>5, <1>6 DEF Inductive, Born
  <1>8. InHand' /\ DoneIsFinished'
    BY <1>1 DEF Inductive, InHand, DoneIsFinished, run
  <1>9. UnseenInBatch'
    BY <1>1, <1>5, <1>6 DEF Inductive, UnseenInBatch, HeldBy, Current, run
  <1>10. GoneForGood'
    <2>1. <<r, 1>> \in settled /\ Births = 1 => store[r].birth = 1
      BY DEF Inductive, GoneForGood
    <2>2. QED
      BY <1>1, <1>2, <1>5, <2>1 DEF Inductive, GoneForGood, Entries
  <1>11. QED
    BY <1>4, <1>7, <1>8, <1>9, <1>10 DEF Inductive

\* A hold or a delay that ends leaves the attempts counted.
LEMMA LapseInductive ==
    ASSUME Inductive, NEW r \in Records, Lapse(r) PROVE Inductive'
  <1>1. /\ store' = [store EXCEPT ![r].state = "waiting", ![r].by = None]
        /\ store[r].state \in {"held", "delayed"}
        /\ UNCHANGED <<late, faults, run, stopped, history>>
    BY DEF Lapse
  <1>2. store \in [Records -> Entries]
    BY DEF Inductive, TypeOK
  <1>3. store' \in [Records -> Entries]
    BY <1>1, <1>2 DEF Entries, States
  <1>4. /\ \A q \in Records \ {r} : store'[q] = store[q]
        /\ store'[r].state = "waiting" /\ store'[r].birth = store[r].birth
    BY <1>1, <1>2 DEF Entries
  <1>5. TypeOK' /\ InHand' /\ DoneIsFinished'
    BY <1>1, <1>3 DEF Inductive, TypeOK, InHand, DoneIsFinished, run, history
  <1>6. Born' /\ GoneForGood'
    BY <1>1, <1>4 DEF Inductive, Born, GoneForGood, history
  <1>7. UnseenInBatch'
    <2>1. unseen \in [Workers -> SUBSET Records]
      BY DEF Inductive, TypeOK
    <2>2. \A q \in Records, w \in Workers :
              /\ HeldBy(q, w)' => HeldBy(q, w)
              /\ Current(q)' = Current(q)
      BY <1>4 DEF HeldBy, Current
    <2>3. QED
      BY <1>1, <2>1, <2>2 DEF Inductive, UnseenInBatch, run, history
  <1>8. QED
    BY <1>5, <1>6, <1>7 DEF Inductive

\* A record goes to the dead letters as it is.
LEMMA BuryInductive ==
    ASSUME Inductive, NEW r \in Records, Bury(r) PROVE Inductive'
  <1>1. /\ store' = [store EXCEPT ![r].state = "dead"]
        /\ store[r].state = "waiting"
        /\ abandoned' = abandoned \cup {Current(r)}
        /\ UNCHANGED <<late, faults, run, stopped, finished, settled, calls, unseen,
                       afterStop>>
    BY DEF Bury
  <1>2. store \in [Records -> Entries]
    BY DEF Inductive, TypeOK
  <1>3. store' \in [Records -> Entries]
    BY <1>1, <1>2 DEF Entries, States
  <1>4. /\ \A q \in Records \ {r} : store'[q] = store[q]
        /\ store'[r].state = "dead" /\ store'[r].birth = store[r].birth
    BY <1>1, <1>2 DEF Entries
  <1>5. Current(r) \in Items
    <2>1. store[r] \in Entries /\ store[r].birth > 0
      BY <1>1, <1>2 DEF Inductive, Born
    <2>2. QED
      BY <2>1 DEF Entries, Items, Current
  <1>6. TypeOK' /\ InHand' /\ DoneIsFinished'
    BY <1>1, <1>3, <1>5 DEF Inductive, TypeOK, InHand, DoneIsFinished, run
  <1>7. Born' /\ GoneForGood'
    BY <1>1, <1>4 DEF Inductive, Born, GoneForGood
  <1>8. UnseenInBatch'
    BY <1>1, <1>4 DEF Inductive, UnseenInBatch, HeldBy, Current, run
  <1>9. QED
    BY <1>6, <1>7, <1>8 DEF Inductive

\* A statement executed late: a done that is late was finished, and a claim
\* that is late holds records its worker will not see.
LEMMA ExecuteLateInductive ==
    ASSUME Inductive, NEW s \in late, ExecuteLate(s) PROVE Inductive'
  <1>1. /\ s \in Statements /\ late' = late \ {s}
        /\ UNCHANGED <<faults, run, stopped, finished, abandoned, calls, afterStop>>
    BY DEF ExecuteLate, Inductive, TypeOK
  <1>2. InHand' /\ DoneIsFinished'
    BY <1>1 DEF Inductive, InHand, DoneIsFinished, run
  <1>3. CASE s.kind = "claim"
    <2>1. PICK S \in Claims : /\ store' = Taken(s.by, S)
                              /\ unseen' = [unseen EXCEPT ![s.by] = @ \ S]
                              /\ settled' = settled
      BY <1>3 DEF ExecuteLate
    <2>2. s.by \in Workers
      BY <1>1 DEF Statements
    <2>3. /\ store' \in [Records -> Entries] /\ Born' /\ GoneForGood'
          /\ \A r \in Records : Current(r)' = Current(r)
          /\ \A r \in Records, v \in Workers :
                HeldBy(r, v)' => HeldBy(r, v) \/ (r \in S /\ v = s.by)
      BY <2>1, <2>2, TakenKeeps DEF Inductive
    <2>4. unseen \in [Workers -> SUBSET Records]
      BY DEF Inductive, TypeOK
    <2>5. TypeOK'
      BY <1>1, <2>1, <2>3, <2>4 DEF Inductive, TypeOK, run
    <2>6. UnseenInBatch'
      <3>1. SUFFICES ASSUME NEW v \in Workers, result'[v] # "error",
                            NEW r \in unseen'[v], HeldBy(r, v)'
                     PROVE  Current(r)' \in jobs'[v]
        BY DEF UnseenInBatch
      <3>2. r \in unseen[v] /\ ~(r \in S /\ v = s.by) /\ r \in Records
        BY <2>1, <2>4
      <3>3. QED
        BY <3>1, <3>2, <2>3, <1>1 DEF Inductive, UnseenInBatch, run
    <2>7. QED
      BY <1>2, <2>3, <2>5, <2>6 DEF Inductive
  <1>4. CASE s.kind # "claim"
    <2>1. Executes(s) /\ unseen' = unseen
      BY <1>4 DEF ExecuteLate
    <2>2. /\ store' \in [Records -> Entries] /\ settled' \subseteq Items
          /\ Born' /\ GoneForGood'
          /\ \A r \in Records, w \in Workers : HeldBy(r, w)' => HeldBy(r, w)
          /\ \A r \in Records : Current(r)' = Current(r)
      BY <1>1, <1>4, <2>1, ExecutesKeeps DEF Inductive
    <2>3. TypeOK'
      BY <1>1, <2>1, <2>2 DEF Inductive, TypeOK, run
    <2>4. UnseenInBatch'
      BY <1>1, <2>1, <2>2 DEF Inductive, TypeOK, UnseenInBatch, run
    <2>5. QED
      BY <1>2, <2>2, <2>3, <2>4 DEF Inductive
  <1>5. QED
    BY <1>3, <1>4

\* Steps that leave the store, the batches and the history alone.
LEMMA ForgetInductive ==
    ASSUME Inductive, NEW s \in late, Forget(s) PROVE Inductive'
  <1>1. /\ late' = late \ {s}
        /\ UNCHANGED <<store, faults, run, stopped, history>>
    BY DEF Forget
  <1>2. TypeOK' /\ InHand' /\ DoneIsFinished'
    BY <1>1 DEF Inductive, TypeOK, InHand, DoneIsFinished, run, history
  <1>3. Born' /\ GoneForGood' /\ UnseenInBatch'
    BY <1>1 DEF Inductive, Born, GoneForGood, UnseenInBatch, HeldBy, Current, run,
                history
  <1>4. QED
    BY <1>2, <1>3 DEF Inductive

\* A run starts with no batch and has claimed nothing.
LEMMA BeginInductive ==
    ASSUME Inductive, NEW w \in Workers, Begin(w) PROVE Inductive'
  <1>1. /\ pc[w] = "out"
        /\ pc' = [pc EXCEPT ![w] = "claim"]
        /\ result' = [result EXCEPT ![w] = "none"]
        /\ unseen' = [unseen EXCEPT ![w] = {}]
        /\ UNCHANGED <<store, late, faults, jobs, job, decision, stopped, finished,
                       settled, abandoned, calls, afterStop>>
    BY DEF Begin
  <1>2. TypeOK'
    BY <1>1 DEF Inductive, TypeOK, Stages
  <1>3. InHand' /\ DoneIsFinished'
    BY <1>1 DEF Inductive, TypeOK, InHand, DoneIsFinished
  <1>4. Born' /\ GoneForGood'
    BY <1>1 DEF Inductive, Born, GoneForGood
  <1>5. UnseenInBatch'
    BY <1>1 DEF Inductive, TypeOK, UnseenInBatch, HeldBy, Current
  <1>6. QED
    BY <1>2, <1>3, <1>4, <1>5 DEF Inductive

\* A stop starts the count of the calls begun after it.
LEMMA StopInductive ==
    ASSUME Inductive, NEW w \in Workers, Stop(w) PROVE Inductive'
  <1>1. /\ stopped' = [stopped EXCEPT ![w] = TRUE]
        /\ afterStop' = [afterStop EXCEPT ![w] = 0]
        /\ faults' \in 0 .. Faults
        /\ UNCHANGED <<store, late, run, finished, settled, abandoned, calls, unseen>>
    BY FaultTyped DEF Stop, Inductive
  <1>2. TypeOK' /\ InHand' /\ DoneIsFinished'
    BY <1>1 DEF Inductive, TypeOK, InHand, DoneIsFinished, run
  <1>3. Born' /\ GoneForGood' /\ UnseenInBatch'
    BY <1>1 DEF Inductive, Born, GoneForGood, UnseenInBatch, HeldBy, Current, run
  <1>4. QED
    BY <1>2, <1>3 DEF Inductive

\* A new Queue starts as the first one did.
LEMMA NewInductive ==
    ASSUME Inductive, NEW w \in Workers, New(w) PROVE Inductive'
  <1>1. /\ pc[w] = "out"
        /\ result[w] # "none"
        /\ stopped' = [stopped EXCEPT ![w] = FALSE]
        /\ result' = [result EXCEPT ![w] = "none"]
        /\ unseen' = [unseen EXCEPT ![w] = {}]
        /\ UNCHANGED <<store, late, faults, pc, jobs, job, decision, finished,
                       settled, abandoned, calls, afterStop>>
    BY DEF New
  <1>2. TypeOK'
    BY <1>1 DEF Inductive, TypeOK
  <1>3. InHand' /\ DoneIsFinished'
    BY <1>1 DEF Inductive, TypeOK, InHand, DoneIsFinished
  <1>4. Born' /\ GoneForGood'
    BY <1>1 DEF Inductive, Born, GoneForGood
  <1>5. UnseenInBatch'
    BY <1>1 DEF Inductive, TypeOK, UnseenInBatch, HeldBy, Current
  <1>6. QED
    BY <1>2, <1>3, <1>4, <1>5 DEF Inductive

\* A claim: each record taken is one attempt more and one call owed.
LEMMA ClaimInductive ==
    ASSUME Inductive, NEW w \in Workers, Claim(w) PROVE Inductive'
  <1>1. PICK S \in Claims :
            /\ store' = Taken(w, S)
            /\ unseen' = [unseen EXCEPT ![w] = @ \cup S]
            /\ GoOn(w, IF S = {} THEN "wait" ELSE "next", {Current(r) : r \in S})
    BY DEF Claim
  <1>2. /\ pc[w] = "claim"
        /\ UNCHANGED <<late, faults, stopped, finished, settled, abandoned, calls,
                       afterStop>>
    BY DEF Claim
  <1>3. /\ store' \in [Records -> Entries] /\ Born' /\ GoneForGood'
        /\ S \subseteq Records
        /\ \A r \in Records : Current(r)' = Current(r)
        /\ \A r \in S : Current(r) \in Items
        /\ \A r \in Records, v \in Workers :
              HeldBy(r, v)' => HeldBy(r, v) \/ (r \in S /\ v = w)
    BY <1>1, <1>2, TakenKeeps DEF Inductive
  <1> DEFINE batch == {Current(r) : r \in S}
             stage == IF S = {} THEN "wait" ELSE "next"
  <1>4. /\ batch \in SUBSET Items
        /\ stage \in {"claim", "wait", "next", "hand_back"}
        /\ stage \in {"claim", "wait"} => batch = {}
        /\ GoOn(w, stage, batch)
    BY <1>1, <1>3
  <1> HIDE DEF batch, stage
  <1>5. /\ pc' \in [Workers -> Stages] /\ jobs' \in [Workers -> SUBSET Items]
        /\ job' \in [Workers -> Items \cup {None}]
        /\ decision' \in [Workers -> Decisions]
        /\ result' = result
        /\ InHand'
        /\ jobs'[w] = batch
        /\ \A v \in Workers \ {w} : jobs'[v] = jobs[v]
        /\ \A v \in Workers : pc'[v] = "settle" =>
              pc[v] = "settle" /\ decision'[v] = decision[v] /\ job'[v] = job[v]
    BY <1>2, <1>4, GoingOn DEF Inductive
  <1>6. unseen \in [Workers -> SUBSET Records]
    BY DEF Inductive, TypeOK
  <1>7. TypeOK'
    BY <1>1, <1>2, <1>3, <1>5, <1>6 DEF Inductive, TypeOK
  <1>8. DoneIsFinished'
    BY <1>2, <1>5 DEF Inductive, DoneIsFinished
  <1>9. UnseenInBatch'
    <2>1. SUFFICES ASSUME NEW v \in Workers, result'[v] # "error",
                          NEW r \in unseen'[v], HeldBy(r, v)'
                   PROVE  Current(r)' \in jobs'[v]
      BY DEF UnseenInBatch
    <2>2. r \in Records
      BY <1>1, <1>3, <1>6
    <2>3. CASE v = w /\ r \in S
      BY <2>2, <2>3, <1>3, <1>5 DEF batch
    <2>4. CASE v = w /\ r \notin S
      <3>1. r \in unseen[w] /\ HeldBy(r, w)
        BY <2>1, <2>2, <2>4, <1>1, <1>3, <1>6
      <3>2. Current(r) \in jobs[w] /\ jobs[w] = {}
        BY <3>1, <2>1, <2>4, <1>2, <1>5 DEF Inductive, UnseenInBatch, InHand
      <3>3. QED
        BY <3>2
    <2>5. CASE v # w
      BY <2>1, <2>2, <2>5, <1>1, <1>3, <1>5, <1>6 DEF Inductive, UnseenInBatch
    <2>6. QED
      BY <2>3, <2>4, <2>5
  <1>10. QED
    BY <1>3, <1>5, <1>7, <1>8, <1>9 DEF Inductive

\* The run loop goes on with less of its batch, and nothing else has changed.
LEMMA WaitingInductive ==
    ASSUME Inductive, NEW w \in Workers, pc[w] \in {"claim", "wait"},
           NEW stage \in {"claim", "wait"}, GoOn(w, stage, {}),
           faults' \in 0 .. Faults, UNCHANGED <<store, late, stopped, history>>
    PROVE  Inductive'
  <1>1. /\ pc' \in [Workers -> Stages] /\ jobs' \in [Workers -> SUBSET Items]
        /\ job' \in [Workers -> Items \cup {None}]
        /\ decision' \in [Workers -> Decisions]
        /\ result' = result
        /\ InHand'
        /\ jobs'[w] = {}
        /\ \A v \in Workers \ {w} : jobs'[v] = jobs[v]
        /\ \A v \in Workers : pc'[v] = "settle" =>
              pc[v] = "settle" /\ decision'[v] = decision[v] /\ job'[v] = job[v]
    <2> DEFINE batch == {}
    <2>1. /\ batch \in SUBSET Items
          /\ stage \in {"claim", "wait", "next", "hand_back"}
          /\ stage \in {"claim", "wait"} => batch = {}
          /\ GoOn(w, stage, batch)
      OBVIOUS
    <2>2. pc[w] # "out" /\ TypeOK /\ InHand
      BY DEF Inductive
    <2>3. batch = {}
      OBVIOUS
    <2> HIDE DEF batch
    <2>4. QED
      BY <2>1, <2>2, <2>3, GoingOn
  <1>2. \A v \in Workers : jobs'[v] = jobs[v]
    <2>1. jobs[w] = {}
      BY DEF Inductive, InHand
    <2>2. QED
      BY <1>1, <2>1
  <1>3. TypeOK' /\ DoneIsFinished'
    BY <1>1 DEF Inductive, TypeOK, DoneIsFinished, history
  <1>4. Born' /\ GoneForGood' /\ UnseenInBatch'
    BY <1>1, <1>2 DEF Inductive, Born, GoneForGood, UnseenInBatch, HeldBy, Current,
                      history
  <1>5. QED
    BY <1>1, <1>3, <1>4 DEF Inductive

\* A call: one attempt that was owed its call has had it.
LEMMA CallInductive ==
    ASSUME Inductive, NEW w \in Workers, NEW j \in jobs[w], Call(w, j)
    PROVE  Inductive'
  <1>1. /\ pc[w] = "next"
        /\ pc' = [pc EXCEPT ![w] = "handler"]
        /\ jobs' = [jobs EXCEPT ![w] = jobs[w] \ {j}]
        /\ job' = [job EXCEPT ![w] = j]
        /\ unseen' = [unseen EXCEPT ![w] = @ \ {j[1]}]
        /\ UNCHANGED <<store, late, faults, decision, result, stopped, finished,
                       settled, abandoned>>
    BY DEF Call, Rest
  <1>2. j \in Items /\ j[1] \in Records
    BY DEF Inductive, TypeOK, Items
  <1>3. calls' \in [Records -> Nat] /\ afterStop' \in [Workers -> Nat]
    BY <1>2 DEF Call, Inductive, TypeOK
  <1>4. TypeOK'
    BY <1>1, <1>2, <1>3 DEF Inductive, TypeOK, Stages
  <1>5. InHand' /\ DoneIsFinished'
    BY <1>1, <1>2 DEF Inductive, TypeOK, InHand, DoneIsFinished
  <1>6. Born' /\ GoneForGood'
    BY <1>1 DEF Inductive, Born, GoneForGood
  <1>7. UnseenInBatch'
    <2>1. SUFFICES ASSUME NEW v \in Workers, result'[v] # "error",
                          NEW r \in unseen'[v], HeldBy(r, v)'
                   PROVE  Current(r)' \in jobs'[v]
      BY DEF UnseenInBatch
    <2>2. r \in unseen[v] /\ (v = w => r # j[1])
      BY <1>1 DEF Inductive, TypeOK
    <2>3. Current(r) \in jobs[v]
      BY <1>1, <2>1, <2>2 DEF Inductive, UnseenInBatch, HeldBy
    <2>4. QED
      BY <1>1, <2>2, <2>3 DEF Inductive, TypeOK, Current
  <1>8. QED
    BY <1>4, <1>5, <1>6, <1>7 DEF Inductive

\* A handler that did the work is what makes a job done.
LEMMA HandlerReturnsInductive ==
    ASSUME Inductive, NEW w \in Workers, NEW ok \in BOOLEAN, NEW d \in Decisions,
           HandlerReturns(w, ok, d)
    PROVE  Inductive'
  <1>1. /\ pc[w] = "handler"
        /\ pc' = [pc EXCEPT ![w] = "settle"]
        /\ decision' = [decision EXCEPT ![w] = d]
        /\ finished' = IF ok THEN finished \cup {job[w]} ELSE finished
        /\ d = "done" => ok
        /\ UNCHANGED <<store, late, faults, jobs, job, result, stopped, settled,
                       abandoned, calls, unseen, afterStop>>
    BY DEF HandlerReturns, Becomes
  <1>2. job[w] \in Items
    BY <1>1 DEF Inductive, InHand
  <1>3. TypeOK'
    BY <1>1, <1>2 DEF Inductive, TypeOK, Stages
  <1>4. InHand' /\ DoneIsFinished'
    BY <1>1, <1>2 DEF Inductive, TypeOK, InHand, DoneIsFinished
  <1>5. Born' /\ GoneForGood' /\ UnseenInBatch'
    BY <1>1 DEF Inductive, Born, GoneForGood, UnseenInBatch, HeldBy, Current
  <1>6. QED
    BY <1>3, <1>4, <1>5 DEF Inductive

\* A settlement that was answered.
LEMMA SettledInductive ==
    ASSUME Inductive, NEW w \in Workers, pc[w] \in {"settle", "hand_back"},
           NEW s \in Statements, s.kind # "claim", s.by = w,
           Executes(s) \/ UNCHANGED <<store, settled>>,
           NEW rest \in SUBSET jobs[w],
           rest # jobs[w] => /\ s.kind = "release" /\ Executes(s)
                             /\ \A i \in jobs[w] \ rest : i[1] = s.record,
           NEW stage \in {"claim", "next", "hand_back"},
           stage = "claim" => rest = {},
           GoOn(w, stage, rest),
           UNCHANGED <<late, faults, stopped, finished, abandoned, calls, unseen,
                       afterStop>>
    PROVE  Inductive'
  <1>1. /\ store' \in [Records -> Entries] /\ settled' \subseteq Items
        /\ Born' /\ GoneForGood'
        /\ \A r \in Records, v \in Workers : HeldBy(r, v)' => HeldBy(r, v)
        /\ \A r \in Records : Current(r)' = Current(r)
    <2>1. CASE Executes(s)
      BY <2>1, ExecutesKeeps DEF Inductive
    <2>2. CASE UNCHANGED <<store, settled>>
      BY <2>2 DEF Inductive, TypeOK, Born, GoneForGood, HeldBy, Current
    <2>3. QED
      BY <2>1, <2>2
  <1>2. rest \in SUBSET Items
    BY DEF Inductive, TypeOK
  <1>3. /\ pc' \in [Workers -> Stages] /\ jobs' \in [Workers -> SUBSET Items]
        /\ job' \in [Workers -> Items \cup {None}]
        /\ decision' \in [Workers -> Decisions]
        /\ result' = result
        /\ InHand'
        /\ jobs'[w] = rest
        /\ \A v \in Workers \ {w} : jobs'[v] = jobs[v]
        /\ \A v \in Workers : pc'[v] = "settle" =>
              pc[v] = "settle" /\ decision'[v] = decision[v] /\ job'[v] = job[v]
    BY <1>2, GoingOn DEF Inductive
  <1>4. TypeOK' /\ DoneIsFinished'
    BY <1>1, <1>3 DEF Inductive, TypeOK, DoneIsFinished
  <1>5. UnseenInBatch'
    <2>1. SUFFICES ASSUME NEW v \in Workers, result'[v] # "error",
                          NEW r \in unseen'[v], HeldBy(r, v)'
                   PROVE  Current(r)' \in jobs'[v]
      BY DEF UnseenInBatch
    <2>2. r \in Records /\ r \in unseen[v]
      BY DEF Inductive, TypeOK
    <2>3. Current(r) \in jobs[v]
      BY <1>1, <1>3, <2>1, <2>2 DEF Inductive, UnseenInBatch
    <2>4. CASE v # w \/ rest = jobs[w]
      BY <1>1, <1>3, <2>2, <2>3, <2>4
    <2>5. CASE v = w /\ rest # jobs[w]
      <3>1. ~HeldBy(s.record, w)'
        BY <2>5, ExecutesKeeps DEF Inductive
      <3>2. r # s.record
        BY <3>1, <2>1, <2>5
      <3>3. Current(r)[1] = r
        BY DEF Current
      <3>4. QED
        BY <1>1, <1>3, <2>2, <2>3, <2>5, <3>2, <3>3
    <2>6. QED
      BY <2>4, <2>5
  <1>6. QED
    BY <1>1, <1>3, <1>4, <1>5 DEF Inductive

\* A job settled, or left as it is.
LEMMA SettleInductive ==
    ASSUME Inductive, NEW w \in Workers, Settle(w) PROVE Inductive'
  <1>1. /\ pc[w] = "settle"
        /\ GoOn(w, After(w), jobs[w])
        /\ UNCHANGED <<late, faults, stopped, finished, abandoned, calls, unseen,
                       afterStop>>
    BY DEF Settle
  <1>2. /\ After(w) \in {"claim", "next", "hand_back"}
        /\ After(w) = "claim" => jobs[w] = {}
    BY DEF After
  <1>3. job[w][1] \in Records
    BY <1>1 DEF Inductive, InHand, Items
  <1>4. CASE decision[w] = "leave"
    <2> DEFINE s == [kind |-> "done", by |-> w, record |-> job[w][1]]
    <2>1. s \in Statements /\ s.kind # "claim" /\ s.by = w
      BY <1>3 DEF Statements
    <2>2. UNCHANGED <<store, settled>>
      BY <1>4 DEF Settle
    <2> HIDE DEF s
    <2>3. QED
      BY <1>1, <1>2, <2>1, <2>2, SettledInductive
  <1>5. CASE decision[w] # "leave"
    <2>1. Statement(w) \in Statements /\ Statement(w).kind # "claim"
          /\ Statement(w).by = w
      BY <1>3, <1>5 DEF Statement, Statements, Decisions, Inductive, TypeOK
    <2>2. Executes(Statement(w))
      BY <1>5 DEF Settle
    <2>3. QED
      BY <1>1, <1>2, <2>1, <2>2, SettledInductive
  <1>6. QED
    BY <1>4, <1>5

\* A settlement whose reply is lost.
LEMMA SettleFailsInductive ==
    ASSUME Inductive, NEW w \in Workers, SettleFails(w) PROVE Inductive'
  <1>1. pc[w] = "settle" /\ decision[w] # "leave" /\ Fails(w, Statement(w))
    BY DEF SettleFails
  <1>2. job[w] \in Items
    BY <1>1 DEF Inductive, InHand
  <1>3. Statement(w) \in Statements
    BY <1>1, <1>2 DEF Statement, Statements, Decisions, Items, Inductive, TypeOK
  <1>4. ASSUME Statement(w).kind = "done"
        PROVE  \E b \in 1 .. Births : <<Statement(w).record, b>> \in finished
    <2>1. job[w] \in finished
      BY <1>1, <1>4 DEF Statement, Inductive, DoneIsFinished
    <2>2. job[w] = <<job[w][1], job[w][2]>> /\ job[w][2] \in 1 .. Births
      BY <1>2 DEF Items
    <2>3. QED
      BY <2>1, <2>2 DEF Statement
  <1>5. QED
    BY <1>1, <1>3, <1>4, FailsInductive

\* A job handed back unseen: its hold ends.
LEMMA HandBackInductive ==
    ASSUME Inductive, NEW w \in Workers, NEW j \in jobs[w],
           HandBack(w, j) \/ HandBackFails(w, j)
    PROVE  Inductive'
  <1> DEFINE s == [kind |-> "release", by |-> w, record |-> j[1]]
  <1>1. j[1] \in Records
    BY DEF Inductive, TypeOK, Items
  <1>2. s \in Statements /\ s.kind = "release" /\ s.by = w /\ s.record = j[1]
    BY <1>1 DEF Statements
  <1>3. CASE HandBack(w, j)
    <2>1. /\ pc[w] = "hand_back" /\ Executes(s)
          /\ GoOn(w, "hand_back", jobs[w] \ {j})
          /\ UNCHANGED <<late, faults, stopped, finished, abandoned, calls, unseen,
                         afterStop>>
      BY <1>3 DEF HandBack, Rest
    <2> HIDE DEF s
    <2> DEFINE rest == jobs[w] \ {j}
    <2>2. rest \in SUBSET jobs[w] /\ \A i \in jobs[w] \ rest : i[1] = s.record
      BY <1>2
    <2>3. GoOn(w, "hand_back", rest)
      BY <2>1
    <2> HIDE DEF rest
    <2>4. QED
      BY <1>2, <2>1, <2>2, <2>3, SettledInductive
  <1>4. CASE HandBackFails(w, j)
    <2>1. Fails(w, s)
      BY <1>4 DEF HandBackFails
    <2> HIDE DEF s
    <2>2. QED
      BY <1>2, <2>1, FailsInductive
  <1>5. QED
    BY <1>3, <1>4

\* A run that ends: it was stopped, it failed, or its process died.
LEMMA EndingInductive ==
    ASSUME Inductive, NEW w \in Workers, Leave(w) \/ HandedBack(w) \/ Die(w)
    PROVE  Inductive'
  <1>1. PICK what \in {"stopped", "error"} :
            /\ Return(w, what)
            /\ what = "stopped" => pc[w] = "claim" \/ (pc[w] = "hand_back" /\ jobs[w] = {})
    BY DEF Leave, HandedBack, Die
  <1>2. what = "stopped" => jobs[w] = {} /\ result[w] # "error"
    BY <1>1 DEF Inductive, InHand
  <1>3. /\ late' = late /\ UNCHANGED <<store, history>>
        /\ faults' \in 0 .. Faults /\ stopped' \in [Workers -> BOOLEAN]
    BY FaultTyped DEF Leave, HandedBack, Die, Inductive, TypeOK
  <1>4. late' \subseteq Statements
    BY <1>3 DEF Inductive, TypeOK
  <1>5. QED
    BY <1>1, <1>2, <1>3, <1>4, ReturnInductive

\* A claim refused or lost.
LEMMA ClaimFailsInductive ==
    ASSUME Inductive, NEW w \in Workers,
           ClaimFails(w) \/ ClaimRetries(w) \/ Wait(w)
    PROVE  Inductive'
  <1>1. CASE ClaimFails(w)
    <2> DEFINE s == [kind |-> "claim", by |-> w, record |-> None]
    <2>1. s \in Statements /\ s.kind # "done" /\ Fails(w, s)
      BY <1>1 DEF ClaimFails, Statements
    <2> HIDE DEF s
    <2>2. QED
      BY <2>1, FailsInductive
  <1>2. CASE ClaimRetries(w)
    <2>1. /\ pc[w] = "claim" /\ GoOn(w, "wait", {}) /\ faults' \in 0 .. Faults
          /\ UNCHANGED <<store, late, stopped, history>>
      BY <1>2, FaultTyped DEF ClaimRetries, Inductive
    <2>2. QED
      BY <2>1, WaitingInductive
  <1>3. CASE Wait(w)
    <2>1. /\ pc[w] = "wait" /\ GoOn(w, "claim", {}) /\ faults' \in 0 .. Faults
          /\ UNCHANGED <<store, late, stopped, history>>
      BY <1>3 DEF Wait, Inductive, TypeOK
    <2>2. QED
      BY <2>1, WaitingInductive
  <1>4. QED
    BY <1>1, <1>2, <1>3

\* No record is written yet and no worker runs.
LEMMA InitInductive == Init => Inductive
  <1> SUFFICES ASSUME Init PROVE Inductive
    OBVIOUS
  <1>1. [birth |-> 0, state |-> "absent", by |-> None, attempts |-> 0] \in Entries
    BY ConstantsAssumption DEF Entries, States
  <1>2. TypeOK
    BY <1>1, ConstantsAssumption DEF Init, TypeOK, Stages, Decisions
  <1>3. QED
    BY <1>2 DEF Init, Inductive, Born, InHand, DoneIsFinished, UnseenInBatch,
                GoneForGood

\* Every step of a worker's own.
LEMMA StepInductive ==
    ASSUME Inductive, NEW w \in Workers, Step(w) PROVE Inductive'
  <1>1. CASE Leave(w) \/ HandedBack(w)
    BY <1>1, EndingInductive
  <1>2. CASE Claim(w)
    BY <1>2, ClaimInductive
  <1>3. CASE ClaimRetries(w) \/ ClaimFails(w) \/ Wait(w)
    BY <1>3, ClaimFailsInductive
  <1>4. CASE \E j \in jobs[w] : Call(w, j)
    BY <1>4, CallInductive
  <1>5. CASE \E j \in jobs[w] : HandBack(w, j) \/ HandBackFails(w, j)
    BY <1>5, HandBackInductive
  <1>6. CASE \E ok \in BOOLEAN, d \in Decisions : HandlerReturns(w, ok, d)
    BY <1>6, HandlerReturnsInductive
  <1>7. CASE Settle(w) \/ SettleFails(w)
    BY <1>7, SettleInductive, SettleFailsInductive
  <1>8. QED
    BY <1>1, <1>2, <1>3, <1>4, <1>5, <1>6, <1>7 DEF Step

\* Every step.
LEMMA NextInductive == Inductive /\ [Next]_vars => Inductive'
  <1> SUFFICES ASSUME Inductive, [Next]_vars PROVE Inductive'
    OBVIOUS
  <1>1. CASE \E w \in Workers : Step(w)
    BY <1>1, StepInductive
  <1>2. CASE \E w \in Workers : Application(w)
    BY <1>2, BeginInductive, StopInductive, NewInductive, EndingInductive
    DEF Application
  <1>3. CASE Store
    BY <1>3, ProduceInductive, LapseInductive, BuryInductive, ExecuteLateInductive,
       ForgetInductive DEF Store
  <1>4. CASE UNCHANGED vars
    <2>1. UNCHANGED <<store, late, faults, run, stopped, history>>
      BY <1>4 DEF vars
    <2>2. TypeOK' /\ InHand' /\ DoneIsFinished'
      BY <2>1 DEF Inductive, TypeOK, InHand, DoneIsFinished, run, history
    <2>3. Born' /\ GoneForGood' /\ UnseenInBatch'
      BY <2>1 DEF Inductive, Born, GoneForGood, UnseenInBatch, HeldBy, Current, run,
                  history
    <2>4. QED
      BY <2>2, <2>3 DEF Inductive
  <1>5. QED
    BY <1>1, <1>2, <1>3, <1>4 DEF Next

-------------------------------------------------------------------------------
(* What is proved of every behaviour.                                      *)

\* The invariant the theorems below rest on.
LEMMA AlwaysInductive == Safety => []Inductive
  BY InitInductive, NextInductive, PTL DEF Safety

\* Every variable keeps its type; in particular no record is handed out more
\* often than the queue's ATTEMPTS.
THEOREM Typed == Safety => []TypeOK
  <1>1. Inductive => TypeOK
    BY DEF Inductive
  <1>2. QED
    BY <1>1, AlwaysInductive, PTL

\* A worker that stopped without an error handed back everything its handler
\* never saw, whatever other workers, lapses and late statements did meanwhile.
THEOREM StoppedHandsBack == Safety => []StopHandsBack
  <1>1. Inductive => StopHandsBack
    <2> SUFFICES ASSUME Inductive, NEW w \in Workers, result[w] = "stopped",
                        NEW r \in unseen[w], HeldBy(r, w)
                 PROVE  FALSE
      BY DEF StopHandsBack
    <2>1. Current(r) \in jobs[w]
      BY DEF Inductive, UnseenInBatch
    <2>2. jobs[w] = {}
      BY DEF Inductive, InHand
    <2>3. QED
      BY <2>1, <2>2
  <1>2. QED
    BY <1>1, AlwaysInductive, PTL

-------------------------------------------------------------------------------
(* Whose release ends a hold.                                              *)

\* A statement that ends a hold and leaves the record is its holder's.
LEMMA ExecutesEndsOwnHold ==
    ASSUME TypeOK, NEW s \in Statements, s.kind # "claim", Executes(s),
           NEW r \in Records, NEW w \in Workers,
           HeldBy(r, w), ~HeldBy(r, w)', There(r)'
    PROVE  s.by = w
  <1>1. s.record \in Records /\ s.by \in Workers /\ store \in [Records -> Entries]
    BY DEF Statements, TypeOK
  <1>2. store' # store
    BY DEF HeldBy
  <1>3. CASE s.kind = "done"
    <2>1. store' = [store EXCEPT ![s.record].state = "absent",
                                 ![s.record].by = None]
      BY <1>2, <1>3 DEF Executes
    <2>2. CASE r = s.record
      BY <1>1, <2>1, <2>2 DEF There, Entries
    <2>3. CASE r # s.record
      BY <1>1, <2>1, <2>3 DEF HeldBy
    <2>4. QED
      BY <2>2, <2>3
  <1>4. CASE s.kind \in {"release", "delay"}
    <2>1. PICK state \in {"waiting", "delayed"} :
              store' = Released(s.by, s.record, state)
      BY <1>4 DEF Executes
    <2>2. /\ HeldBy(s.record, s.by)
          /\ store' = [store EXCEPT ![s.record].state = state, ![s.record].by = None]
      BY <1>2, <2>1 DEF Released
    <2>3. CASE r = s.record
      BY <2>2, <2>3 DEF HeldBy
    <2>4. CASE r # s.record
      BY <1>1, <2>2, <2>4 DEF HeldBy
    <2>5. QED
      BY <2>3, <2>4
  <1>5. QED
    BY <1>3, <1>4 DEF Statements

\* A claim takes nothing that is held.
LEMMA TakenEndsNoHold ==
    ASSUME TypeOK, NEW v, NEW S \in Claims, store' = Taken(v, S),
           NEW r \in Records, NEW w \in Workers, HeldBy(r, w)
    PROVE  HeldBy(r, w)'
  <1>1. r \notin S
    BY DEF Claims, Claimable, HeldBy
  <1>2. store'[r] = store[r]
    BY <1>1 DEF Taken
  <1>3. QED
    BY <1>2 DEF HeldBy

\* The steps of a worker end no hold but its own.
LEMMA StepEndsOwnHold ==
    ASSUME Inductive, NEW v \in Workers, Step(v),
           NEW r \in Records, NEW w \in Workers,
           HeldBy(r, w), ~HeldBy(r, w)', There(r)'
    PROVE  /\ \A u \in Workers \ {w} : pc'[u] = pc[u] /\ jobs'[u] = jobs[u]
           /\ late' = late
  <1>1. store' # store
    BY DEF HeldBy
  <1>2. ~Claim(v)
    BY TakenEndsNoHold DEF Claim, Inductive
  <1>3. \A j \in jobs[v] : ~Call(v, j) /\ ~HandBackFails(v, j)
    BY <1>1 DEF Call, HandBackFails, Fails
  <1>4. \A ok \in BOOLEAN, d \in Decisions : ~HandlerReturns(v, ok, d)
    BY <1>1 DEF HandlerReturns
  <1>5. \/ Settle(v)
        \/ \E j \in jobs[v] : HandBack(v, j)
    BY <1>1, <1>2, <1>3, <1>4
    DEF Step, Leave, ClaimRetries, ClaimFails, Wait, SettleFails, HandedBack, Fails
  <1>6. ASSUME NEW s \in Statements, s.kind # "claim", s.by = v, Executes(s),
               late' = late,
               NEW stage, NEW rest, GoOn(v, stage, rest)
        PROVE  /\ \A u \in Workers \ {w} : pc'[u] = pc[u] /\ jobs'[u] = jobs[u]
               /\ late' = late
    <2>1. v = w
      BY <1>6, ExecutesEndsOwnHold DEF Inductive
    <2>2. QED
      BY <1>6, <2>1 DEF GoOn, Inductive, TypeOK
  <1>7. CASE Settle(v)
    <2>1. decision[v] # "leave" /\ Executes(Statement(v))
      BY <1>1, <1>7 DEF Settle
    <2>2. job[v] \in Items
      BY <1>7 DEF Settle, Inductive, InHand
    <2>3. /\ Statement(v) \in Statements /\ Statement(v).kind # "claim"
          /\ Statement(v).by = v
      BY <2>1, <2>2 DEF Statement, Statements, Decisions, Items, Inductive, TypeOK
    <2>4. late' = late /\ GoOn(v, After(v), jobs[v])
      BY <1>7 DEF Settle
    <2>5. QED
      BY <2>1, <2>3, <2>4, <1>6
  <1>8. CASE \E j \in jobs[v] : HandBack(v, j)
    <2>1. PICK j \in jobs[v] : HandBack(v, j)
      BY <1>8
    <2> DEFINE s == [kind |-> "release", by |-> v, record |-> j[1]]
    <2>2. s \in Statements /\ s.kind # "claim" /\ s.by = v
      BY <2>1 DEF Statements, Items, Inductive, TypeOK
    <2>3. Executes(s) /\ late' = late /\ GoOn(v, "hand_back", Rest(v, j))
      BY <2>1 DEF HandBack
    <2> HIDE DEF s
    <2>4. QED
      BY <2>2, <2>3, <1>6
  <1>9. QED
    BY <1>5, <1>7, <1>8

\* What the store does by itself ends a hold with the clock, or by a statement
\* of the worker that has it.
LEMMA StoreEndsOwnHold ==
    ASSUME Inductive, Store,
           NEW r \in Records, NEW w \in Workers,
           HeldBy(r, w), ~HeldBy(r, w)', There(r)'
    PROVE  UNCHANGED <<pc, jobs>> /\ \A s \in late \ late' : s.by = w
  <1>1. UNCHANGED <<pc, jobs>>
    BY DEF Store, Produce, Lapse, Bury, ExecuteLate, Forget, run
  <1>2. CASE \E q \in Records : Produce(q) \/ Lapse(q) \/ Bury(q)
    BY <1>1, <1>2 DEF Produce, Lapse, Bury
  <1>3. CASE \E s \in late : ExecuteLate(s) \/ Forget(s)
    <2>1. PICK s \in late : ExecuteLate(s) \/ Forget(s)
      BY <1>3
    <2>2. s \in Statements /\ late' = late \ {s}
      BY <2>1 DEF ExecuteLate, Forget, Inductive, TypeOK
    <2>3. ~Forget(s)
      BY DEF Forget, HeldBy
    <2>4. ASSUME s.kind = "claim" PROVE FALSE
      <3>1. PICK S \in Claims : store' = Taken(s.by, S)
        BY <2>1, <2>3, <2>4 DEF ExecuteLate
      <3>2. QED
        BY <3>1, TakenEndsNoHold DEF Inductive
    <2>5. Executes(s)
      BY <2>1, <2>3, <2>4 DEF ExecuteLate
    <2>6. s.by = w
      BY <2>2, <2>4, <2>5, ExecutesEndsOwnHold DEF Inductive
    <2>7. QED
      BY <1>1, <2>2, <2>6
  <1>4. QED
    BY <1>2, <1>3 DEF Store

\* Only one's own release ends a hold on a record that stays: not another
\* worker's, however late it comes.
THEOREM OwnHoldReleased == Safety => ReleaseEndsItsOwnHold
  <1> DEFINE Own ==
        \A r \in Records, w \in Workers :
          HeldBy(r, w) /\ ~HeldBy(r, w)' /\ There(r)' =>
              /\ \A v \in Workers \ {w} : pc'[v] = pc[v] /\ jobs'[v] = jobs[v]
              /\ \A s \in late \ late' : s.by = w
  <1>1. ASSUME Inductive, [Next]_vars PROVE [Own]_vars
    <2>1. SUFFICES ASSUME ~UNCHANGED vars,
                          NEW r \in Records, NEW w \in Workers,
                          HeldBy(r, w), ~HeldBy(r, w)', There(r)'
                   PROVE  /\ \A v \in Workers \ {w} :
                                pc'[v] = pc[v] /\ jobs'[v] = jobs[v]
                          /\ \A s \in late \ late' : s.by = w
      OBVIOUS
    <2>2. CASE Store
      BY <2>1, <2>2, <1>1, StoreEndsOwnHold
    <2>3. CASE \E v \in Workers : Step(v)
      BY <2>1, <2>3, <1>1, StepEndsOwnHold
    <2>4. CASE \E v \in Workers : Application(v)
      <3>1. store' = store
        BY <2>4 DEF Application, Begin, Stop, New, Die
      <3>2. QED
        BY <3>1, <2>1 DEF HeldBy
    <2>5. QED
      BY <1>1, <2>1, <2>2, <2>3, <2>4 DEF Next
  <1>2. Inductive /\ [Next]_vars => [Own]_vars
    BY <1>1
  <1>3. QED
    BY <1>2, AlwaysInductive, PTL DEF Safety, ReleaseEndsItsOwnHold

-------------------------------------------------------------------------------
(* The promise of AtLeastOnce, of records written once.                    *)

\* A settlement deletes nothing, or an item a handler finished.
LEMMA ExecutesSettles ==
    ASSUME Inductive, Births = 1, NEW s \in Statements, s.kind # "claim", Executes(s),
           s.kind = "done" => <<s.record, 1>> \in finished
    PROVE  \/ settled' = settled
           \/ /\ s.record \in Records /\ <<s.record, 1>> \in finished
              /\ settled' = settled \cup {<<s.record, 1>>}
  <1>1. s.record \in Records
    BY DEF Statements
  <1>2. CASE s.kind = "done" /\ There(s.record)
    <2>1. settled' = settled \cup {Current(s.record)}
      BY <1>2 DEF Executes
    <2>2. store[s.record] \in Entries /\ store[s.record].birth > 0
      BY <1>1, <1>2 DEF Inductive, TypeOK, Born, There
    <2>3. Current(s.record) = <<s.record, 1>>
      BY <2>2 DEF Entries, Current
    <2>4. QED
      BY <1>1, <1>2, <2>1, <2>3
  <1>3. CASE ~(s.kind = "done" /\ There(s.record))
    BY <1>3 DEF Executes, Statements
  <1>4. QED
    BY <1>2, <1>3

\* What a step does, seen from the promise.
LEMMA PromiseStep ==
    ASSUME Inductive, Births = 1, [Next]_vars
    PROVE  \/ UNCHANGED <<finished, settled, abandoned>>
           \/ \E i \in Items : Promise!Finish(i) \/ Promise!Settle(i) \/ Promise!Abandon(i)
  <1> DEFINE Kept ==
        \/ UNCHANGED <<finished, settled, abandoned>>
        \/ \E i \in Items : Promise!Finish(i) \/ Promise!Settle(i) \/ Promise!Abandon(i)
  <1>1. ASSUME NEW s \in Statements, s.kind # "claim", Executes(s),
               s.kind = "done" => <<s.record, 1>> \in finished,
               UNCHANGED <<finished, abandoned>>
        PROVE  Kept
    <2>1. CASE settled' = settled
      BY <1>1, <2>1
    <2>2. CASE /\ s.record \in Records /\ <<s.record, 1>> \in finished
               /\ settled' = settled \cup {<<s.record, 1>>}
      <3>1. <<s.record, 1>> \in Items
        BY <2>2 DEF Items
      <3>2. Promise!Settle(<<s.record, 1>>)
        BY <1>1, <2>2 DEF Promise!Settle
      <3>3. QED
        BY <3>1, <3>2
    <2>3. QED
      BY <1>1, <2>1, <2>2, ExecutesSettles
  <1>2. ASSUME NEW r \in Records, Bury(r) PROVE Kept
    <2>1. /\ store[r].state = "waiting" /\ abandoned' = abandoned \cup {Current(r)}
          /\ UNCHANGED <<finished, settled>>
      BY <1>2 DEF Bury
    <2>2. store[r] \in Entries /\ store[r].birth > 0
      BY <2>1 DEF Inductive, TypeOK, Born
    <2>3. Current(r) = <<r, 1>> /\ <<r, 1>> \in Items
      BY <2>2 DEF Entries, Current, Items
    <2>4. <<r, 1>> \notin settled
      BY <2>1 DEF Inductive, GoneForGood
    <2>5. Promise!Abandon(<<r, 1>>)
      BY <2>1, <2>3, <2>4 DEF Promise!Abandon
    <2>6. QED
      BY <2>3, <2>5
  <1>3. CASE Store
    <2>1. CASE \E r \in Records : Produce(r) \/ Lapse(r)
      BY <2>1 DEF Produce, Lapse, history
    <2>2. CASE \E r \in Records : Bury(r)
      BY <2>2, <1>2
    <2>3. CASE \E s \in late : Forget(s)
      BY <2>3 DEF Forget, history
    <2>4. CASE \E s \in late : ExecuteLate(s)
      <3>1. PICK s \in late : ExecuteLate(s)
        BY <2>4
      <3>2. s \in Statements /\ UNCHANGED <<finished, abandoned>>
        BY <3>1 DEF ExecuteLate, Inductive, TypeOK
      <3>3. CASE s.kind = "claim"
        BY <3>1, <3>2, <3>3 DEF ExecuteLate
      <3>4. CASE s.kind # "claim"
        <4>1. Executes(s)
          BY <3>1, <3>4 DEF ExecuteLate
        <4>2. s.kind = "done" => <<s.record, 1>> \in finished
          BY DEF Inductive, DoneIsFinished
        <4>3. QED
          BY <3>2, <3>4, <4>1, <4>2, <1>1
      <3>5. QED
        BY <3>3, <3>4
    <2>5. QED
      BY <1>3, <2>1, <2>2, <2>3, <2>4 DEF Store
  <1>4. CASE \E w \in Workers : Application(w)
    BY <1>4 DEF Application, Begin, Stop, New, Die, history
  <1>5. CASE \E w \in Workers : Step(w)
    <2>1. PICK w \in Workers : Step(w)
      BY <1>5
    <2>2. CASE Leave(w) \/ Claim(w) \/ ClaimRetries(w) \/ ClaimFails(w) \/ Wait(w)
               \/ SettleFails(w) \/ HandedBack(w)
      BY <2>2 DEF Leave, Claim, ClaimRetries, ClaimFails, Wait, SettleFails, HandedBack,
                  Fails, history
    <2>3. CASE \E j \in jobs[w] : Call(w, j) \/ HandBackFails(w, j)
      BY <2>3 DEF Call, HandBackFails, Fails, history
    <2>4. CASE \E j \in jobs[w] : HandBack(w, j)
      <3>1. PICK j \in jobs[w] : HandBack(w, j)
        BY <2>4
      <3> DEFINE s == [kind |-> "release", by |-> w, record |-> j[1]]
      <3>2. s \in Statements /\ s.kind = "release"
        BY <3>1 DEF Statements, Items, Inductive, TypeOK
      <3>3. Executes(s) /\ UNCHANGED <<finished, abandoned>>
        BY <3>1 DEF HandBack
      <3> HIDE DEF s
      <3>4. QED
        BY <3>2, <3>3, <1>1
    <2>5. CASE \E ok \in BOOLEAN, d \in Decisions : HandlerReturns(w, ok, d)
      <3>1. job[w] \in Items /\ UNCHANGED <<settled, abandoned>>
        BY <2>5 DEF HandlerReturns, Inductive, InHand
      <3>2. finished' = finished \/ finished' = finished \cup {job[w]}
        BY <2>5 DEF HandlerReturns
      <3>3. QED
        BY <3>1, <3>2 DEF Promise!Finish
    <2>6. CASE Settle(w)
      <3>1. job[w] \in Items /\ UNCHANGED <<finished, abandoned>>
        BY <2>6 DEF Settle, Inductive, InHand
      <3>2. CASE decision[w] = "leave"
        BY <2>6, <3>1, <3>2 DEF Settle
      <3>3. CASE decision[w] # "leave"
        <4>1. Statement(w) \in Statements /\ Statement(w).kind # "claim"
          BY <3>1, <3>3 DEF Statement, Statements, Decisions, Items, Inductive, TypeOK
        <4>2. Executes(Statement(w))
          BY <2>6, <3>3 DEF Settle
        <4>3. ASSUME Statement(w).kind = "done"
              PROVE  <<Statement(w).record, 1>> \in finished
          <5>1. job[w] \in finished
            BY <2>6, <4>3 DEF Settle, Statement, Inductive, DoneIsFinished
          <5>2. job[w] = <<job[w][1], 1>>
            BY <3>1 DEF Items
          <5>3. QED
            BY <5>1, <5>2 DEF Statement
        <4>4. QED
          BY <3>1, <4>1, <4>2, <4>3, <1>1
      <3>4. QED
        BY <3>2, <3>3
    <2>7. QED
      BY <2>1, <2>2, <2>3, <2>4, <2>5, <2>6 DEF Step
  <1>6. CASE UNCHANGED vars
    BY <1>6 DEF vars, history
  <1>7. QED
    BY <1>3, <1>4, <1>5, <1>6 DEF Next

\* Where every record is written once, the work is at least once: any number of
\* workers, failures, stops and lapses delete only what a handler finished.
THEOREM AtLeastOnceKept ==
    ASSUME Births = 1
    PROVE  Safety => WorkIsAtLeastOnce
  <1>1. Init => Promise!Init
    BY DEF Init, Promise!Init
  <1>2. Inductive /\ [Next]_vars => [Promise!Next]_Promise!vars
    BY PromiseStep DEF Promise!Next, Promise!vars
  <1>3. QED
    BY <1>1, <1>2, AlwaysInductive, PTL DEF Safety, WorkIsAtLeastOnce, Promise!Safety

-------------------------------------------------------------------------------
(* Calls and attempts.                                                     *)

\* The runs that have the record, as it is now, still to call their handler on.
Owing(r) == {w \in Workers : Current(r) \in jobs[w]}

\* Each call made and each call owed is of an attempt of its own.
Owed ==
    \A r \in Records :
        /\ IsFiniteSet(Owing(r))
        /\ calls[r] + Cardinality(Owing(r)) <= store[r].attempts

\* No batch has a job of a record that is yet to be written.
JobsAreBorn == \A w \in Workers : \A i \in jobs[w] : i[2] <= store[i[1]].birth

\* A stopped worker that may yet call its handler has not called it since.
Prompt ==
    \A w \in Workers :
        /\ afterStop[w] <= 1
        /\ stopped[w] /\ pc[w] = "next" => afterStop[w] = 0

Counted == Owed /\ JobsAreBorn /\ Prompt

\* Fewer calls owed, none made, and no attempt uncounted.
LEMMA LessOwed ==
    ASSUME TypeOK, Counted, calls' = calls,
           store' \in [Records -> Entries],
           \A r \in Records : /\ store'[r].birth = store[r].birth
                              /\ store'[r].attempts >= store[r].attempts,
           \A w \in Workers : jobs'[w] \subseteq jobs[w]
    PROVE  Owed' /\ JobsAreBorn'
  <1>1. JobsAreBorn'
    BY DEF TypeOK, Counted, JobsAreBorn, Items
  <1>2. SUFFICES ASSUME NEW r \in Records
                 PROVE  /\ IsFiniteSet(Owing(r)')
                        /\ calls[r] + Cardinality(Owing(r)') <= store'[r].attempts
    BY <1>1 DEF Owed
  <1>3. Owing(r)' \in SUBSET Owing(r)
    BY DEF Owing, Current
  <1>4. IsFiniteSet(Owing(r)) /\ calls[r] + Cardinality(Owing(r)) <= store[r].attempts
    BY DEF Counted, Owed
  <1>5. IsFiniteSet(Owing(r)') /\ Cardinality(Owing(r)') <= Cardinality(Owing(r))
    BY <1>3, <1>4, FS_Subset
  <1>6. Cardinality(Owing(r)') \in Nat /\ Cardinality(Owing(r)) \in Nat
    BY <1>4, <1>5, FS_CardinalityType
  <1>7. calls[r] \in Nat /\ store[r].attempts \in Nat /\ store'[r].attempts \in Nat
    BY ConstantsAssumption DEF TypeOK, Entries
  <1>8. QED
    BY <1>4, <1>5, <1>6, <1>7

\* No statement but a claim counts an attempt, and none writes a record.
LEMMA ExecutesCountsNone ==
    ASSUME TypeOK, NEW s \in Statements, s.kind # "claim", Executes(s)
    PROVE  /\ store' \in [Records -> Entries]
           /\ \A r \in Records : /\ store'[r].birth = store[r].birth
                                 /\ store'[r].attempts = store[r].attempts
  <1>1. s.record \in Records /\ s.by \in Workers /\ store \in [Records -> Entries]
    BY DEF Statements, TypeOK
  <1>2. CASE s.kind = "done"
    <2>1. \/ store' = store
          \/ store' = [store EXCEPT ![s.record].state = "absent", ![s.record].by = None]
      BY <1>2 DEF Executes
    <2>2. QED
      BY <1>1, <2>1 DEF Entries, States
  <1>3. CASE s.kind \in {"release", "delay"}
    <2>1. PICK state \in States :
              \/ store' = store
              \/ store' = [store EXCEPT ![s.record].state = state, ![s.record].by = None]
      BY <1>3 DEF Executes, Released, States
    <2>2. QED
      BY <1>1, <2>1 DEF Entries
  <1>4. QED
    BY <1>2, <1>3 DEF Statements

\* A claim counts an attempt of all it takes.
LEMMA TakenCounts ==
    ASSUME TypeOK, NEW w \in Workers, NEW S \in Claims, store' = Taken(w, S)
    PROVE  /\ \A r \in Records : store'[r].birth = store[r].birth
           /\ \A r \in S : store'[r].attempts = store[r].attempts + 1
           /\ \A r \in Records \ S : store'[r].attempts = store[r].attempts
  <1>1. S \subseteq Records /\ store \in [Records -> Entries]
    BY DEF Claims, TypeOK
  <1>2. QED
    BY <1>1 DEF Taken, Entries

\* What the store does by itself, but for a record written.
LEMMA StoreOwes ==
    ASSUME Inductive, Inductive', Counted, Store, \A r \in Records : ~Produce(r)
    PROVE  Counted'
  <1>1. UNCHANGED <<run, stopped, calls, afterStop>>
    BY DEF Store, Lapse, Bury, ExecuteLate, Forget, history
  <1>2. Prompt'
    BY <1>1 DEF Counted, Prompt, run
  <1>3. store' \in [Records -> Entries] /\ store \in [Records -> Entries]
    BY DEF Inductive, TypeOK
  <1>4. \A r \in Records : /\ store'[r].birth = store[r].birth
                           /\ store'[r].attempts >= store[r].attempts
    <2>1. \A r \in Records : store[r].attempts \in Nat
      BY <1>3, ConstantsAssumption DEF Entries
    <2>2. CASE \E r \in Records : Lapse(r) \/ Bury(r)
      BY <1>3, <2>1, <2>2 DEF Lapse, Bury, Entries
    <2>3. CASE \E s \in late : Forget(s)
      BY <2>1, <2>3 DEF Forget
    <2>4. CASE \E s \in late : ExecuteLate(s)
      <3>1. PICK s \in late : ExecuteLate(s)
        BY <2>4
      <3>2. s \in Statements /\ TypeOK
        BY DEF Inductive, TypeOK
      <3>3. CASE s.kind = "claim"
        <4>1. PICK S \in Claims : store' = Taken(s.by, S)
          BY <3>1, <3>3 DEF ExecuteLate
        <4>2. s.by \in Workers
          BY <3>2 DEF Statements
        <4>3. /\ \A r \in Records : store'[r].birth = store[r].birth
              /\ \A r \in S : store'[r].attempts = store[r].attempts + 1
              /\ \A r \in Records \ S : store'[r].attempts = store[r].attempts
          BY <3>2, <4>1, <4>2, TakenCounts
        <4>4. QED
          BY <2>1, <4>3
      <3>4. CASE s.kind # "claim"
        <4>1. Executes(s)
          BY <3>1, <3>4 DEF ExecuteLate
        <4>2. QED
          BY <2>1, <3>2, <3>4, <4>1, ExecutesCountsNone
      <3>5. QED
        BY <3>3, <3>4
    <2>5. QED
      BY <2>2, <2>3, <2>4 DEF Store
  <1>5. calls' = calls /\ \A w \in Workers : jobs'[w] \subseteq jobs[w]
    BY <1>1 DEF run
  <1>6. Owed' /\ JobsAreBorn'
    BY <1>3, <1>4, <1>5, LessOwed DEF Inductive
  <1>7. QED
    BY <1>2, <1>6 DEF Counted

\* A record written anew is in nobody's batch.
LEMMA ProduceOwes ==
    ASSUME Inductive, Counted, NEW r \in Records, Produce(r)
    PROVE  Counted'
  <1>1. /\ store' = [store EXCEPT ![r] = [birth |-> store[r].birth + 1,
                                          state |-> "waiting", by |-> None,
                                          attempts |-> 0]]
        /\ calls' = [calls EXCEPT ![r] = 0]
        /\ UNCHANGED <<run, stopped, afterStop>>
    BY DEF Produce
  <1>2. /\ store \in [Records -> Entries] /\ calls \in [Records -> Nat]
        /\ jobs \in [Workers -> SUBSET Items] /\ store[r].birth \in Nat
    BY ConstantsAssumption DEF Inductive, TypeOK, Entries
  <1>3. /\ store'[r].birth = store[r].birth + 1 /\ store'[r].attempts = 0
        /\ \A q \in Records \ {r} : store'[q] = store[q]
    BY <1>1, <1>2
  <1>4. JobsAreBorn'
    <2>1. SUFFICES ASSUME NEW w \in Workers, NEW i \in jobs[w]
                   PROVE  i[2] <= store'[i[1]].birth
      BY <1>1 DEF JobsAreBorn, run
    <2>2. i[1] \in Records /\ i[2] \in Nat /\ i[2] <= store[i[1]].birth
      BY <1>2, ConstantsAssumption DEF Counted, JobsAreBorn, Items
    <2>3. CASE i[1] = r
      BY <1>2, <1>3, <2>2, <2>3
    <2>4. CASE i[1] # r
      BY <1>3, <2>2, <2>4
    <2>5. QED
      BY <2>3, <2>4
  <1>5. Owing(r)' = {}
    <2>1. SUFFICES ASSUME NEW w \in Workers, Current(r)' \in jobs'[w] PROVE FALSE
      BY DEF Owing
    <2>2. <<r, store[r].birth + 1>> \in jobs[w]
      BY <1>1, <1>3, <2>1 DEF Current, run
    <2>3. store[r].birth + 1 <= store[r].birth
      BY <2>2 DEF Counted, JobsAreBorn
    <2>4. QED
      BY <1>2, <2>3
  <1>6. \A q \in Records \ {r} : Owing(q)' = Owing(q)
    BY <1>1, <1>3 DEF Owing, Current, run
  <1>7. Owed'
    <2>1. SUFFICES ASSUME NEW q \in Records
                   PROVE  /\ IsFiniteSet(Owing(q)')
                          /\ calls'[q] + Cardinality(Owing(q)') <= store'[q].attempts
      BY DEF Owed
    <2>2. CASE q = r
      BY <1>1, <1>2, <1>3, <1>5, <2>2, FS_EmptySet
    <2>3. CASE q # r
      BY <1>1, <1>2, <1>3, <1>6, <2>3 DEF Counted, Owed
    <2>4. QED
      BY <2>2, <2>3
  <1>8. Prompt'
    BY <1>1 DEF Counted, Prompt, run
  <1>9. QED
    BY <1>4, <1>7, <1>8 DEF Counted

\* A claim owes one call for each attempt it counts: its run had no batch.
LEMMA ClaimOwes ==
    ASSUME Inductive, Counted, NEW w \in Workers, Claim(w)
    PROVE  Counted'
  <1>1. PICK S \in Claims :
            /\ store' = Taken(w, S)
            /\ GoOn(w, IF S = {} THEN "wait" ELSE "next", {Current(r) : r \in S})
    BY DEF Claim
  <1>2. /\ pc[w] = "claim" /\ ~stopped[w]
        /\ UNCHANGED <<stopped, calls, afterStop>>
    BY DEF Claim, IsStopped
  <1>3. /\ store \in [Records -> Entries] /\ calls \in [Records -> Nat]
        /\ S \subseteq Records /\ jobs \in [Workers -> SUBSET Items]
        /\ \A r \in Records : store[r].attempts \in Nat
    BY ConstantsAssumption DEF Inductive, TypeOK, Claims, Entries
  <1>4. /\ \A r \in Records : store'[r].birth = store[r].birth
        /\ \A r \in S : store'[r].attempts = store[r].attempts + 1
        /\ \A r \in Records \ S : store'[r].attempts = store[r].attempts
    BY <1>1, TakenCounts DEF Inductive
  <1>5. /\ jobs[w] = {} /\ jobs'[w] = {Current(r) : r \in S}
        /\ \A v \in Workers \ {w} : jobs'[v] = jobs[v] /\ pc'[v] = pc[v]
    BY <1>1, <1>2 DEF Inductive, TypeOK, InHand, GoOn
  <1>6. JobsAreBorn'
    <2>1. SUFFICES ASSUME NEW v \in Workers, NEW i \in jobs'[v]
                   PROVE  i[2] <= store'[i[1]].birth
      BY DEF JobsAreBorn
    <2>2. CASE v = w
      <3>1. PICK r \in S : i = <<r, store[r].birth>>
        BY <1>5, <2>2 DEF Current
      <3>2. store[r].birth \in Nat
        BY <1>3, ConstantsAssumption DEF Entries
      <3>3. QED
        BY <1>3, <1>4, <3>1, <3>2
    <2>3. CASE v # w
      <3>1. i \in jobs[v] /\ i[1] \in Records
        BY <1>3, <1>5, <2>3 DEF Items
      <3>2. QED
        BY <1>4, <3>1 DEF Counted, JobsAreBorn
    <2>4. QED
      BY <2>2, <2>3
  <1>7. Owed'
    <2>1. SUFFICES ASSUME NEW r \in Records
                   PROVE  /\ IsFiniteSet(Owing(r)')
                          /\ calls[r] + Cardinality(Owing(r)') <= store'[r].attempts
      BY <1>2 DEF Owed
    <2>2. /\ IsFiniteSet(Owing(r))
          /\ calls[r] + Cardinality(Owing(r)) <= store[r].attempts
      BY DEF Counted, Owed
    <2>3. Current(r)' = Current(r)
      BY <1>4 DEF Current
    <2>4. CASE r \in S
      <3>1. Owing(r)' = Owing(r) \cup {w}
        BY <1>5, <2>3, <2>4 DEF Owing
      <3>2. w \notin Owing(r)
        BY <1>5 DEF Owing
      <3>3. /\ IsFiniteSet(Owing(r)')
            /\ Cardinality(Owing(r)') = Cardinality(Owing(r)) + 1
        BY <2>2, <3>1, <3>2, FS_AddElement
      <3>4. Cardinality(Owing(r)) \in Nat /\ calls[r] \in Nat
        BY <1>3, <2>2, FS_CardinalityType
      <3>5. QED
        BY <1>3, <1>4, <2>2, <2>4, <3>3, <3>4
    <2>5. CASE r \notin S
      <3>1. Current(r) \notin jobs'[w]
        BY <1>5, <2>5 DEF Current
      <3>2. Owing(r)' = Owing(r)
        BY <1>5, <2>3, <3>1 DEF Owing
      <3>3. QED
        BY <1>4, <2>2, <2>5, <3>2
    <2>6. QED
      BY <2>4, <2>5
  <1>8. Prompt'
    BY <1>2, <1>5 DEF Counted, Prompt
  <1>9. QED
    BY <1>6, <1>7, <1>8 DEF Counted

\* A call makes what was owed, and takes the job from the batch.
LEMMA CallOwes ==
    ASSUME Inductive, Counted, NEW w \in Workers, NEW j \in jobs[w], Call(w, j)
    PROVE  Counted'
  <1>1. /\ pc[w] = "next"
        /\ pc' = [pc EXCEPT ![w] = "handler"]
        /\ jobs' = [jobs EXCEPT ![w] = jobs[w] \ {j}]
        /\ calls' = IF j = Current(j[1]) THEN [calls EXCEPT ![j[1]] = calls[j[1]] + 1]
                                         ELSE calls
        /\ afterStop' = IF stopped[w] THEN [afterStop EXCEPT ![w] = afterStop[w] + 1]
                                      ELSE afterStop
        /\ UNCHANGED <<store, stopped>>
    BY DEF Call, Rest
  <1>2. /\ jobs \in [Workers -> SUBSET Items] /\ calls \in [Records -> Nat]
        /\ j[1] \in Records
        /\ jobs'[w] = jobs[w] \ {j} /\ \A v \in Workers \ {w} : jobs'[v] = jobs[v]
    BY <1>1 DEF Inductive, TypeOK, Items
  <1>3. JobsAreBorn'
    BY <1>1, <1>2 DEF Counted, JobsAreBorn
  <1>4. Owed'
    <2>1. SUFFICES ASSUME NEW r \in Records
                   PROVE  /\ IsFiniteSet(Owing(r)')
                          /\ calls'[r] + Cardinality(Owing(r)') <= store[r].attempts
      BY <1>1 DEF Owed
    <2>2. /\ IsFiniteSet(Owing(r)) /\ Cardinality(Owing(r)) \in Nat /\ calls[r] \in Nat
          /\ calls[r] + Cardinality(Owing(r)) <= store[r].attempts
      BY <1>2, FS_CardinalityType DEF Counted, Owed
    <2>3. Current(r)' = Current(r)
      BY <1>1 DEF Current
    <2>4. CASE j = Current(r)
      <3>1. j[1] = r /\ w \in Owing(r)
        BY <2>4 DEF Current, Owing
      <3>2. Owing(r)' = Owing(r) \ {w}
        BY <1>2, <2>3, <2>4 DEF Owing
      <3>3. calls'[r] = calls[r] + 1
        BY <1>1, <1>2, <2>4, <3>1
      <3>4. IsFiniteSet(Owing(r)') /\ Cardinality(Owing(r)') = Cardinality(Owing(r)) - 1
        BY <2>2, <3>1, <3>2, FS_RemoveElement
      <3>5. store[r].attempts \in Nat
        BY ConstantsAssumption DEF Inductive, TypeOK, Entries
      <3>6. QED
        BY <2>2, <3>3, <3>4, <3>5
    <2>5. CASE j # Current(r)
      <3>1. Owing(r)' = Owing(r)
        BY <1>2, <2>3, <2>5 DEF Owing
      <3>2. calls'[r] = calls[r]
        BY <1>1, <1>2, <2>5
      <3>3. QED
        BY <2>2, <3>1, <3>2
    <2>6. QED
      BY <2>4, <2>5
  <1>5. Prompt'
    BY <1>1 DEF Inductive, TypeOK, Counted, Prompt
  <1>6. QED
    BY <1>3, <1>4, <1>5 DEF Counted

\* Whatever else a worker does or has done to it owes and makes no call.
LEMMA OthersOwe ==
    ASSUME Inductive, Inductive', Counted, NEW w \in Workers,
           Step(w) \/ Application(w),
           ~Claim(w), \A j \in jobs[w] : ~Call(w, j)
    PROVE  Counted'
  <1>1. /\ TypeOK /\ store \in [Records -> Entries] /\ store' \in [Records -> Entries]
        /\ \A r \in Records : store[r].attempts \in Nat
    BY ConstantsAssumption DEF Inductive, TypeOK, Entries
  <1>2. /\ calls' = calls
        /\ \A v \in Workers : jobs'[v] \subseteq jobs[v]
    <2>1. CASE Application(w)
      BY <1>1, <2>1 DEF Application, Begin, Stop, New, Die, Return, history, run, TypeOK
    <2>2. CASE Leave(w) \/ HandedBack(w) \/ ClaimFails(w) \/ SettleFails(w)
               \/ \E j \in jobs[w] : HandBackFails(w, j)
      BY <1>1, <2>2 DEF Leave, HandedBack, ClaimFails, SettleFails, HandBackFails, Fails,
                        Return, history, TypeOK
    <2>3. CASE ClaimRetries(w) \/ Wait(w) \/ Settle(w)
               \/ \E j \in jobs[w] : HandBack(w, j)
      <3>1. ASSUME NEW stage, NEW rest, rest \subseteq jobs[w], GoOn(w, stage, rest)
            PROVE  \A v \in Workers : jobs'[v] \subseteq jobs[v]
        BY <1>1, <3>1 DEF GoOn, TypeOK
      <3>2. /\ {} \subseteq jobs[w] /\ jobs[w] \subseteq jobs[w]
            /\ \A j \in jobs[w] : jobs[w] \ {j} \subseteq jobs[w]
        OBVIOUS
      <3>3. CASE ClaimRetries(w) \/ Wait(w) \/ Settle(w)
        BY <3>1, <3>2, <3>3 DEF ClaimRetries, Wait, Settle, history
      <3>4. CASE \E j \in jobs[w] : HandBack(w, j)
        BY <3>1, <3>2, <3>4 DEF HandBack, Rest
      <3>5. QED
        BY <2>3, <3>3, <3>4
    <2>4. CASE \E ok \in BOOLEAN, d \in Decisions : HandlerReturns(w, ok, d)
      BY <2>4 DEF HandlerReturns
    <2>5. QED
      BY <2>1, <2>2, <2>3, <2>4 DEF Step
  <1>3. \A r \in Records : /\ store'[r].birth = store[r].birth
                           /\ store'[r].attempts >= store[r].attempts
    <2>1. CASE store' = store
      BY <1>1, <2>1
    <2>2. CASE Settle(w) /\ decision[w] # "leave"
      <3>1. job[w] \in Items
        BY <2>2 DEF Settle, Inductive, InHand
      <3>2. /\ Statement(w) \in Statements /\ Statement(w).kind # "claim"
            /\ Executes(Statement(w))
        BY <2>2, <3>1 DEF Settle, Statement, Statements, Decisions, Items, Inductive, TypeOK
      <3>3. QED
        BY <1>1, <3>2, ExecutesCountsNone
    <2>3. CASE \E j \in jobs[w] : HandBack(w, j)
      <3>1. PICK j \in jobs[w] : HandBack(w, j)
        BY <2>3
      <3> DEFINE s == [kind |-> "release", by |-> w, record |-> j[1]]
      <3>2. s \in Statements /\ s.kind # "claim" /\ Executes(s)
        BY <3>1 DEF HandBack, Statements, Items, Inductive, TypeOK
      <3> HIDE DEF s
      <3>3. QED
        BY <1>1, <3>2, ExecutesCountsNone
    <2>4. QED
      BY <2>1, <2>2, <2>3
      DEF Step, Leave, ClaimRetries, ClaimFails, Wait, HandBackFails, HandlerReturns,
          Settle, SettleFails, HandedBack, Fails, Application, Begin, Stop, New, Die
  <1>4. Owed' /\ JobsAreBorn'
    BY <1>1, <1>2, <1>3, LessOwed
  <1>5. Prompt'
    <2>1. CASE Stop(w)
      BY <1>1, <2>1 DEF Stop, TypeOK, Counted, Prompt, run
    <2>2. CASE ~Stop(w)
      <3>1. afterStop' = afterStop
        BY <1>2, <2>2 DEF Step, Leave, ClaimRetries, ClaimFails, Wait, HandBack, HandBackFails,
               HandlerReturns, Settle, SettleFails, HandedBack, Fails, Application, Begin,
               New, Die, history
      <3>2. \A v \in Workers \ {w} : pc'[v] = pc[v] /\ stopped'[v] = stopped[v]
        BY <1>1, <1>2, <2>2 DEF Step, Leave, ClaimRetries, ClaimFails, Wait, HandBack,
               HandBackFails, HandlerReturns, Settle, SettleFails, HandedBack, Fails,
               Application, Begin, New, Die, GoOn, Return, TypeOK
      <3>3. ~(stopped'[w] /\ pc'[w] = "next")
        BY <1>1, <1>2, <2>2 DEF Step, Leave, ClaimRetries, ClaimFails, Wait, HandBack,
               HandBackFails, HandlerReturns, Settle, SettleFails, HandedBack, Fails,
               Application, Begin, New, Die, GoOn, Return, After, IsStopped, TypeOK
      <3>4. QED
        BY <3>1, <3>2, <3>3 DEF Counted, Prompt
    <2>3. QED
      BY <2>1, <2>2
  <1>6. QED
    BY <1>4, <1>5 DEF Counted

LEMMA CountedInductive ==
    Inductive /\ Inductive' /\ Counted /\ [Next]_vars => Counted'
  <1> SUFFICES ASSUME Inductive, Inductive', Counted, [Next]_vars PROVE Counted'
    OBVIOUS
  <1>1. CASE Store
    BY <1>1, StoreOwes, ProduceOwes
  <1>2. CASE \E w \in Workers : Step(w) \/ Application(w)
    BY <1>2, ClaimOwes, CallOwes, OthersOwe
  <1>3. CASE UNCHANGED vars
    <2>1. UNCHANGED <<store, run, stopped, calls, afterStop>>
      BY <1>3 DEF vars, history
    <2>2. QED
      BY <2>1 DEF Counted, Owed, Owing, Current, JobsAreBorn, Prompt, run
  <1>4. QED
    BY <1>1, <1>2, <1>3 DEF Next

LEMMA AlwaysCounted == Safety => []Counted
  <1>1. Init => Counted
    <2>1. SUFFICES ASSUME Init PROVE Counted
      OBVIOUS
    <2>2. \A r \in Records : Owing(r) = {}
      BY <2>1 DEF Init, Owing
    <2>3. QED
      BY <2>1, <2>2, FS_EmptySet DEF Init, Counted, Owed, JobsAreBorn, Prompt
  <1>2. QED
    BY <1>1, CountedInductive, AlwaysInductive, PTL DEF Safety

\* A handler is called at most once for each attempt the store counted, with any
\* number of workers and however often a record is written, lapses or is claimed
\* by a statement whose reply is lost.
THEOREM OneCallEach == Safety => []OneCallPerAttempt
  <1>1. Inductive /\ Counted => OneCallPerAttempt
    <2>1. SUFFICES ASSUME Inductive, Counted, NEW r \in Records
                   PROVE  calls[r] <= store[r].attempts
      BY DEF OneCallPerAttempt
    <2>2. /\ Cardinality(Owing(r)) \in Nat
          /\ calls[r] + Cardinality(Owing(r)) <= store[r].attempts
      BY <2>1, FS_CardinalityType DEF Counted, Owed
    <2>3. calls[r] \in Nat /\ store[r].attempts \in Nat
      BY <2>1, ConstantsAssumption DEF Inductive, TypeOK, Entries
    <2>4. QED
      BY <2>2, <2>3
  <1>2. QED
    BY <1>1, AlwaysInductive, AlwaysCounted, PTL

\* A stop takes effect at the next job, whatever the size of the batch.
THEOREM StoppedPromptly == Safety => []StopIsPrompt
  <1>1. Counted => StopIsPrompt
    BY DEF Counted, Prompt, StopIsPrompt
  <1>2. QED
    BY <1>1, AlwaysCounted, PTL
=============================================================================
