---------------------------- MODULE Consumer_proofs ----------------------------
(* Proofs about Consumer. *)
EXTENDS Consumer, TLAPS

\* Only a finished message is on its way to be acknowledged, one to a statement.
AckIsFinished ==
    /\ \A m \in Members : pc[m] = "settle" /\ decision[m] = "ack" =>
          message[m].position \in finished
    /\ \A s \in late : s.kind = "ack" => \E p \in finished : s.positions = {p}

\* A message never handed out waits to be.
UnreadIsReady == \A p \in Positions : Unread(p) => group[p].state = "ready"

\* It is newer than every message a handler got on its first delivery ...
UnreadIsNewer ==
    \A m \in Members, p \in Positions : Unread(p) => p > newest[m]

\* ... and than those waiting in a batch for theirs,
UnreadIsLater ==
    \A m \in Members : \A g \in batch[m] : g.deliveries = 1 =>
        \A p \in Positions : Unread(p) => p > g.position

\* which in turn are newer than those their own handler got.
BatchIsNewer ==
    \A m \in Members : \A g \in batch[m] : g.deliveries = 1 => g.position > newest[m]

Ordered == UnreadIsReady /\ UnreadIsNewer /\ UnreadIsLater /\ BatchIsNewer

\* A stopped member that may yet call its handler has not called it since.
Prompt ==
    \A m \in Members :
        /\ afterStop[m] <= 1
        /\ stopped[m] /\ pc[m] = "next" => afterStop[m] = 0

Inductive == TypeOK /\ AckIsFinished /\ Ordered /\ Prompt

\* The part of TypeOK about the members' runs.
RunTyped ==
    /\ pc \in [Members -> Stages]
    /\ batch \in [Members -> SUBSET Message]
    /\ message \in [Members -> Message \cup {None}]
    /\ decision \in [Members -> Decisions]
    /\ result \in [Members -> {"none", "stopped", "error"}]
    /\ \A m \in Members :
          /\ batch[m] # {} => pc[m] \in {"next", "handler", "settle"}
          /\ message[m] # None <=> pc[m] \in {"handler", "settle"}

-------------------------------------------------------------------------------
(* The group.                                                              *)

\* A count of deliveries goes up by one and stays at its bound: only what was
\* never handed out is then on its first delivery.
LEMMA Counted ==
    ASSUME NEW count \in 0 .. Deliveries
    PROVE  /\ More(count) \in 1 .. Deliveries
           /\ More(count) = 1 => count = 0
  BY ConstantsAssumption DEF More

\* What a read does to the group: what it takes has been handed out, and of what
\* was not, nothing published before what it takes for the first time is left.
LEMMA HandedOutKeeps ==
    ASSUME TypeOK, UnreadIsReady, NEW S \in Reads, group' = HandedOut(S)
    PROVE  /\ S \subseteq Positions
           /\ group' \in [Positions -> Entries]
           /\ \A p \in S : group'[p].deliveries \in 1 .. Deliveries
           /\ \A p \in S : group'[p].deliveries = 1 =>
                 Unread(p) /\ \A q \in Positions : Unread(q)' => q > p
           /\ \A p \in Positions : Unread(p)' => Unread(p)
           /\ UnreadIsReady'
  <1>1. S \subseteq Ready /\ Ready \subseteq Positions
    <2>1. S \subseteq Ready
      BY DEF Reads
    <2>2. 1 .. topic \subseteq Positions
      BY ConstantsAssumption DEF TypeOK, Positions
    <2>3. Ready \subseteq 1 .. topic
      BY DEF Ready
    <2>4. QED
      BY <2>1, <2>2, <2>3
  <1>2. S \subseteq Positions
    BY <1>1
  <1>3. /\ \A p \in Positions \ S : group'[p] = group[p]
        /\ \A p \in S : group'[p] = [state |-> "in_flight",
                                     deliveries |-> More(group[p].deliveries)]
    BY <1>2 DEF HandedOut
  <1>4. \A p \in S : /\ group[p].deliveries \in 0 .. Deliveries
                     /\ group'[p].deliveries \in 1 .. Deliveries
                     /\ group'[p].deliveries = 1 => group[p].deliveries = 0
    <2>1. SUFFICES ASSUME NEW p \in S
                   PROVE  /\ group[p].deliveries \in 0 .. Deliveries
                          /\ group'[p].deliveries \in 1 .. Deliveries
                          /\ group'[p].deliveries = 1 => group[p].deliveries = 0
      OBVIOUS
    <2>2. group[p].deliveries \in 0 .. Deliveries
      BY <1>2 DEF TypeOK, Entries
    <2>3. group'[p].deliveries = More(group[p].deliveries)
      BY <1>2 DEF HandedOut
    <2>4. QED
      BY <2>2, <2>3, Counted
  <1>5. group' \in [Positions -> Entries]
    <2>1. SUFFICES ASSUME NEW p \in Positions PROVE group'[p] \in Entries
      BY DEF HandedOut
    <2>2. CASE p \in S
      <3>1. group'[p].deliveries \in 0 .. Deliveries
        BY <1>4, <2>2, ConstantsAssumption
      <3>2. group'[p] = [state |-> "in_flight", deliveries |-> group'[p].deliveries]
        BY <2>2 DEF HandedOut
      <3>3. QED
        BY <3>1, <3>2 DEF Entries, States
    <2>3. QED
      BY <1>3, <2>2 DEF TypeOK
  <1>6. \A p \in Positions : Unread(p)' => p \notin S /\ Unread(p)
    BY <1>3, <1>4 DEF Unread
  <1>7. UnreadIsReady'
    BY <1>3, <1>6 DEF UnreadIsReady
  <1>8. ASSUME NEW p \in S, group'[p].deliveries = 1,
               NEW q \in Positions, Unread(q)'
        PROVE  Unread(p) /\ q > p
    <2>1. Unread(p)
      BY <1>4, <1>8 DEF Unread
    <2>2. Unread(q) /\ q \notin S
      BY <1>6, <1>8
    <2>3. group[q].state = "ready"
      BY <2>2 DEF UnreadIsReady
    <2>4. p \in Nat /\ q \in Nat /\ p \in 1 .. topic /\ topic \in Nat
      BY <1>1, <1>2, ConstantsAssumption DEF TypeOK, Positions, Ready
    <2>5. q < p => q \in Ready
      BY <2>3, <2>4 DEF Ready, Positions
    <2>6. ~(q < p)
      BY <1>1, <2>1, <2>2, <2>5 DEF Reads
    <2>7. QED
      BY <2>1, <2>2, <2>4, <2>6
  <1>9. \A p \in S : group'[p].deliveries = 1 => Unread(p)
    BY <1>4 DEF Unread
  <1>10. QED
    BY <1>2, <1>4, <1>5, <1>6, <1>7, <1>8, <1>9

\* What a settlement does to it: it counts no delivery, and settles what was in
\* flight.
LEMMA ExecutesKeeps ==
    ASSUME TypeOK, UnreadIsReady, NEW s \in Statements, s.kind # "read", Executes(s)
    PROVE  /\ group' \in [Positions -> Entries]
           /\ \A p \in Positions : Unread(p)' => Unread(p)
           /\ UnreadIsReady'
           /\ settled' \subseteq Positions
           /\ settled' # settled => s.kind = "ack" /\ settled' \subseteq settled \cup s.positions
  <1>1. s.positions \subseteq Positions /\ s.kind \in {"ack", "nack", "delay"}
    BY DEF Statements
  <1>2. PICK state \in States : group' = To(s.positions, state)
    BY <1>1 DEF Executes, States
  <1>3. \A p \in Positions : /\ group'[p].deliveries = group[p].deliveries
                             /\ group'[p] \in Entries
                             /\ group[p].state = "ready" => group'[p] = group[p]
    BY <1>2 DEF TypeOK, To, InFlight, Entries
  <1>4. group' \in [Positions -> Entries]
    BY <1>2, <1>3 DEF To
  <1>5. \A p \in Positions : Unread(p)' => Unread(p)
    BY <1>3 DEF Unread
  <1>6. UnreadIsReady'
    BY <1>3, <1>5 DEF UnreadIsReady
  <1>7. /\ settled' \subseteq Positions
        /\ settled' # settled => s.kind = "ack" /\ settled' \subseteq settled \cup s.positions
    BY <1>1 DEF TypeOK, Executes, InFlight
  <1>8. QED
    BY <1>4, <1>5, <1>6, <1>7

\* Nothing but a read and a call can upset the order.
LEMMA OrderKept ==
    ASSUME TypeOK, Ordered, UnreadIsReady', newest' = newest,
           \A p \in Positions : Unread(p)' => Unread(p),
           \A m \in Members : batch'[m] \subseteq batch[m]
    PROVE  Ordered'
  <1>1. UnreadIsNewer' /\ BatchIsNewer'
    BY DEF Ordered, UnreadIsNewer, BatchIsNewer
  <1>2. UnreadIsLater'
    BY DEF Ordered, UnreadIsLater
  <1>3. QED
    BY <1>1, <1>2 DEF Ordered

-------------------------------------------------------------------------------
(* The run loop.                                                           *)

\* Going on to the next message or the next batch.
LEMMA GoingOn ==
    ASSUME RunTyped, NEW m \in Members, NEW rest \in SUBSET Message,
           NEW stage \in {"read", "wait", "next"}, GoOn(m, stage, rest),
           stage # "next" => rest = {}
    PROVE  /\ RunTyped'
           /\ batch'[m] = rest /\ pc'[m] = stage
           /\ \A n \in Members \ {m} : batch'[n] = batch[n] /\ pc'[n] = pc[n]
           /\ \A n \in Members : pc'[n] = "settle" =>
                 pc[n] = "settle" /\ decision'[n] = decision[n] /\ message'[n] = message[n]
  BY DEF GoOn, RunTyped, Stages, Decisions

\* Returning, which drops the batch.
LEMMA Returning ==
    ASSUME RunTyped, NEW m \in Members, NEW what \in {"stopped", "error"},
           Return(m, what)
    PROVE  /\ RunTyped'
           /\ batch'[m] = {} /\ pc'[m] = "out"
           /\ \A n \in Members \ {m} : batch'[n] = batch[n] /\ pc'[n] = pc[n]
           /\ \A n \in Members : pc'[n] = "settle" =>
                 pc[n] = "settle" /\ decision'[n] = decision[n] /\ message'[n] = message[n]
  BY DEF Return, RunTyped, Stages, Decisions

\* A fault is counted, up to Faults.
LEMMA FaultTyped == ASSUME TypeOK, Fault PROVE faults' \in 0 .. Faults
  BY ConstantsAssumption DEF TypeOK, Fault

\* Where a run does not go on to another message, its batch is no larger and no
\* new settlement begins, the invariant is that of the group and of what is late.
LEMMA QuietInductive ==
    ASSUME Inductive, RunTyped',
           topic' \in 0 .. Last, group' \in [Positions -> Entries],
           late' \subseteq Statements, faults' \in 0 .. Faults,
           stopped' \in [Members -> BOOLEAN], settled' \subseteq Positions,
           UnreadIsReady', \A p \in Positions : Unread(p)' => Unread(p),
           \A s \in late' \ late : s.kind = "ack" => \E p \in finished : s.positions = {p},
           \A m \in Members : batch'[m] \subseteq batch[m],
           \A m \in Members : pc'[m] = "settle" =>
               pc[m] = "settle" /\ decision'[m] = decision[m] /\ message'[m] = message[m],
           \A m \in Members : stopped'[m] /\ pc'[m] = "next" => afterStop[m] = 0,
           UNCHANGED <<finished, newest, afterStop>>
    PROVE  Inductive'
  <1>1. TypeOK'
    BY DEF Inductive, TypeOK, RunTyped
  <1>2. AckIsFinished'
    BY DEF Inductive, AckIsFinished
  <1>3. Ordered'
    BY OrderKept DEF Inductive
  <1>4. Prompt'
    BY DEF Inductive, Prompt
  <1>5. QED
    BY <1>1, <1>2, <1>3, <1>4 DEF Inductive

-------------------------------------------------------------------------------
(* The steps.                                                              *)

\* A run that ends without having changed the group.
LEMMA ReturnInductive ==
    ASSUME Inductive, NEW m \in Members, NEW what \in {"stopped", "error"},
           Return(m, what),
           late' \subseteq Statements, faults' \in 0 .. Faults,
           stopped' \in [Members -> BOOLEAN],
           \A n \in Members \ {m} : stopped'[n] = stopped[n],
           \A s \in late' \ late : s.kind = "ack" => \E p \in finished : s.positions = {p},
           UNCHANGED <<topic, group, history>>
    PROVE  Inductive'
  <1>1. RunTyped
    BY DEF Inductive, TypeOK, RunTyped
  <1>2. /\ RunTyped'
        /\ batch'[m] = {} /\ pc'[m] = "out"
        /\ \A n \in Members \ {m} : batch'[n] = batch[n] /\ pc'[n] = pc[n]
        /\ \A n \in Members : pc'[n] = "settle" =>
              pc[n] = "settle" /\ decision'[n] = decision[n] /\ message'[n] = message[n]
    BY <1>1, Returning
  <1>3. /\ topic' \in 0 .. Last /\ group' \in [Positions -> Entries]
        /\ settled' \subseteq Positions
    BY DEF Inductive, TypeOK, history
  <1>4. UnreadIsReady' /\ \A p \in Positions : Unread(p)' => Unread(p)
    BY DEF Inductive, Ordered, UnreadIsReady, Unread
  <1>5. \A n \in Members : batch'[n] \subseteq batch[n]
    BY <1>2
  <1>6. \A n \in Members : stopped'[n] /\ pc'[n] = "next" => afterStop[n] = 0
    BY <1>2 DEF Inductive, Prompt
  <1>7. UNCHANGED <<finished, newest, afterStop>>
    BY DEF history
  <1>8. QED
    BY <1>2, <1>3, <1>4, <1>5, <1>6, <1>7, QuietInductive

\* An exchange that fails ends the run and may leave its statement behind.
LEMMA FailsInductive ==
    ASSUME Inductive, NEW m \in Members, NEW s \in Statements, Fails(m, s),
           s.kind = "ack" => \E p \in finished : s.positions = {p}
    PROVE  Inductive'
  <1>1. late' \subseteq Statements /\ late' \ late \subseteq {s}
    BY DEF Fails, Inductive, TypeOK
  <1>2. /\ stopped' \in [Members -> BOOLEAN] /\ faults' \in 0 .. Faults
        /\ \A n \in Members \ {m} : stopped'[n] = stopped[n]
    BY FaultTyped DEF Fails, Inductive, TypeOK
  <1>3. Return(m, "error") /\ UNCHANGED <<topic, group, history>>
    BY DEF Fails
  <1>4. QED
    BY <1>1, <1>2, <1>3, ReturnInductive

\* Steps that leave the members' runs alone.
LEMMA StoreInductive == ASSUME Inductive, Store PROVE Inductive'
  <1>1. /\ UNCHANGED <<run, stopped, finished, newest, afterStop>>
        /\ late' \subseteq late
    BY DEF Store, Publish, Lapse, ExecuteLate, Forget, history
  <1>2. RunTyped' /\ UNCHANGED <<pc, batch, message, decision>>
    BY <1>1 DEF Inductive, TypeOK, RunTyped, run
  <1>3. /\ topic' \in 0 .. Last /\ faults' \in 0 .. Faults
        /\ late' \subseteq Statements /\ stopped' \in [Members -> BOOLEAN]
    BY <1>1, ConstantsAssumption
    DEF Store, Publish, Lapse, ExecuteLate, Forget, Inductive, TypeOK
  <1>4. /\ group' \in [Positions -> Entries] /\ settled' \subseteq Positions
        /\ UnreadIsReady' /\ \A p \in Positions : Unread(p)' => Unread(p)
    <2>1. CASE Publish \/ \E s \in late : Forget(s)
      BY <2>1 DEF Publish, Forget, Inductive, TypeOK, Ordered, UnreadIsReady, Unread,
                  history
    <2>2. CASE \E p \in Positions : Lapse(p)
      <3>1. PICK p \in Positions : Lapse(p)
        BY <2>2
      <3>2. /\ group' = [group EXCEPT ![p].state = "ready"] /\ settled' = settled
            /\ group \in [Positions -> Entries] /\ settled \subseteq Positions
        BY <3>1 DEF Lapse, history, Inductive, TypeOK
      <3>3. group' \in [Positions -> Entries]
        BY <3>2 DEF Entries, States
      <3>4. \A q \in Positions : /\ group'[q].deliveries = group[q].deliveries
                                 /\ group[q].state = "ready" => group'[q].state = "ready"
        BY <3>2 DEF Entries
      <3>5. QED
        BY <3>2, <3>3, <3>4 DEF Inductive, Ordered, UnreadIsReady, Unread
    <2>3. CASE \E s \in late : ExecuteLate(s)
      <3>1. PICK s \in late : ExecuteLate(s)
        BY <2>3
      <3>2. s \in Statements
        BY DEF Inductive, TypeOK
      <3>3. CASE s.kind = "read"
        <4>1. /\ \E S \in Reads : group' = HandedOut(S)
              /\ settled' = settled
          BY <3>1, <3>3 DEF ExecuteLate
        <4>2. QED
          BY <4>1, HandedOutKeeps DEF Inductive, TypeOK, Ordered
      <3>4. CASE s.kind # "read"
        <4>1. Executes(s)
          BY <3>1, <3>4 DEF ExecuteLate
        <4>2. QED
          BY <3>2, <3>4, <4>1, ExecutesKeeps DEF Inductive, Ordered
      <3>5. QED
        BY <3>3, <3>4
    <2>4. QED
      BY <2>1, <2>2, <2>3 DEF Store
  <1>5. \A m \in Members : stopped'[m] /\ pc'[m] = "next" => afterStop[m] = 0
    BY <1>1, <1>2 DEF Inductive, Prompt
  <1>6. QED
    BY <1>1, <1>2, <1>3, <1>4, <1>5, QuietInductive

\* What others do to a member touches neither its batch nor the group.
LEMMA ApplicationInductive ==
    ASSUME Inductive, NEW m \in Members, Application(m) PROVE Inductive'
  <1>1. TypeOK
    BY DEF Inductive
  <1>2. CASE Die(m)
    <2>1. /\ Return(m, "error") /\ faults' \in 0 .. Faults
          /\ stopped' = [stopped EXCEPT ![m] = FALSE]
          /\ UNCHANGED <<topic, group, late, history>>
      BY <1>1, <1>2, FaultTyped DEF Die
    <2>2. /\ stopped' \in [Members -> BOOLEAN] /\ late' \subseteq Statements
          /\ \A n \in Members \ {m} : stopped'[n] = stopped[n]
      BY <1>1, <2>1 DEF TypeOK
    <2>3. QED
      BY <2>1, <2>2, ReturnInductive
  <1>3. CASE Stop(m)
    <2>1. /\ stopped' = [stopped EXCEPT ![m] = TRUE]
          /\ afterStop' = [afterStop EXCEPT ![m] = 0]
          /\ faults' \in 0 .. Faults
          /\ UNCHANGED <<topic, group, late, run, finished, settled, newest>>
      BY <1>1, <1>3, FaultTyped DEF Stop
    <2>2. TypeOK' /\ AckIsFinished'
      BY <2>1 DEF Inductive, TypeOK, AckIsFinished, run
    <2>3. Ordered'
      BY <1>1, <2>1, OrderKept DEF Inductive, Ordered, UnreadIsReady, Unread, run
    <2>4. Prompt'
      BY <1>1, <2>1 DEF Inductive, TypeOK, Prompt, run
    <2>5. QED
      BY <2>2, <2>3, <2>4 DEF Inductive
  <1>4. CASE Begin(m) \/ New(m)
    <2>1. /\ UNCHANGED <<topic, group, late, faults, history>>
          /\ pc'[m] \in {"out", "read"} /\ batch'[m] \subseteq batch[m]
          /\ \A n \in Members \ {m} : /\ pc'[n] = pc[n] /\ batch'[n] = batch[n]
                                      /\ stopped'[n] = stopped[n]
          /\ \A n \in Members : pc'[n] = "settle" =>
                pc[n] = "settle" /\ decision'[n] = decision[n] /\ message'[n] = message[n]
      BY <1>1, <1>4 DEF Begin, GoOn, New, TypeOK
    <2>2. RunTyped' /\ stopped' \in [Members -> BOOLEAN]
      BY <1>1, <1>4 DEF Begin, GoOn, New, TypeOK, RunTyped, Stages, Decisions
    <2>3. /\ topic' \in 0 .. Last /\ group' \in [Positions -> Entries]
          /\ late' \subseteq Statements /\ faults' \in 0 .. Faults
          /\ settled' \subseteq Positions
      BY <1>1, <2>1 DEF TypeOK, history
    <2>4. UnreadIsReady' /\ \A p \in Positions : Unread(p)' => Unread(p)
      BY <2>1 DEF Inductive, Ordered, UnreadIsReady, Unread
    <2>5. \A n \in Members : batch'[n] \subseteq batch[n]
      BY <2>1
    <2>6. \A n \in Members : stopped'[n] /\ pc'[n] = "next" => afterStop[n] = 0
      BY <2>1 DEF Inductive, Prompt
    <2>7. UNCHANGED <<finished, newest, afterStop>>
      BY <2>1 DEF history
    <2>8. QED
      BY <2>1, <2>2, <2>3, <2>4, <2>5, <2>6, <2>7, QuietInductive
  <1>5. QED
    BY <1>2, <1>3, <1>4 DEF Application

\* A read: of what it gives for the first time, each is newer than all its
\* member got so before, and nothing older is left to come.
LEMMA ReadInductive ==
    ASSUME Inductive, NEW m \in Members, NEW S \in SUBSET Positions, Read(m, S)
    PROVE  Inductive'
  <1> DEFINE given == {[position |-> p, deliveries |-> HandedOut(S)[p].deliveries] : p \in S}
             stage == IF S = {} THEN "wait" ELSE "next"
  <1>1. /\ ~stopped[m] /\ S \in Reads
        /\ group' = HandedOut(S)
        /\ UNCHANGED <<topic, late, faults, stopped, history>>
        /\ GoOn(m, stage, given)
    BY DEF Read, IsStopped
  <1>2. TypeOK /\ UnreadIsReady /\ RunTyped
    BY DEF Inductive, TypeOK, RunTyped, Ordered
  <1>3. /\ S \subseteq Positions
        /\ group' \in [Positions -> Entries]
        /\ \A p \in S : group'[p].deliveries \in 1 .. Deliveries
        /\ \A p \in S : group'[p].deliveries = 1 =>
              Unread(p) /\ \A q \in Positions : Unread(q)' => q > p
        /\ \A p \in Positions : Unread(p)' => Unread(p)
        /\ UnreadIsReady'
    BY <1>1, <1>2, HandedOutKeeps
  <1>4. \A g \in given : /\ g \in Message
                         /\ g.position \in S
                         /\ g.deliveries = group'[g.position].deliveries
    BY <1>1, <1>3 DEF Message
  <1>5. given \in SUBSET Message /\ stage \in {"read", "wait", "next"}
        /\ (stage # "next" => given = {})
    BY <1>4
  <1> HIDE DEF given, stage
  <1>6. /\ RunTyped'
        /\ batch'[m] = given
        /\ \A n \in Members \ {m} : batch'[n] = batch[n] /\ pc'[n] = pc[n]
        /\ \A n \in Members : pc'[n] = "settle" =>
              pc[n] = "settle" /\ decision'[n] = decision[n] /\ message'[n] = message[n]
    BY <1>1, <1>2, <1>5, GoingOn
  <1>7. TypeOK'
    BY <1>1, <1>2, <1>3, <1>6 DEF TypeOK, RunTyped, history
  <1>8. AckIsFinished'
    BY <1>1, <1>6 DEF Inductive, AckIsFinished, history
  <1>9. UnreadIsNewer'
    BY <1>1, <1>3 DEF Inductive, Ordered, UnreadIsNewer, history
  <1>10. UnreadIsLater'
    <2>1. SUFFICES ASSUME NEW n \in Members, NEW g \in batch'[n], g.deliveries = 1,
                          NEW q \in Positions, Unread(q)'
                   PROVE  q > g.position
      BY DEF UnreadIsLater
    <2>2. CASE n = m
      BY <2>1, <2>2, <1>3, <1>4, <1>6
    <2>3. CASE n # m
      BY <2>1, <2>3, <1>3, <1>6 DEF Inductive, Ordered, UnreadIsLater
    <2>4. QED
      BY <2>2, <2>3
  <1>11. BatchIsNewer'
    <2>1. SUFFICES ASSUME NEW n \in Members, NEW g \in batch'[n], g.deliveries = 1
                   PROVE  g.position > newest[n]
      BY <1>1 DEF BatchIsNewer, history
    <2>2. CASE n = m
      <3>1. Unread(g.position) /\ g.position \in Positions
        BY <2>1, <2>2, <1>3, <1>4, <1>6
      <3>2. QED
        BY <3>1 DEF Inductive, Ordered, UnreadIsNewer
    <2>3. CASE n # m
      BY <2>1, <2>3, <1>6 DEF Inductive, Ordered, BatchIsNewer
    <2>4. QED
      BY <2>2, <2>3
  <1>12. Prompt'
    BY <1>1, <1>6 DEF Inductive, Prompt, history
  <1>13. QED
    BY <1>3, <1>7, <1>8, <1>9, <1>10, <1>11, <1>12 DEF Inductive, Ordered

\* A call takes the earliest of the batch: what stays is newer.
LEMMA CallInductive ==
    ASSUME Inductive, NEW m \in Members, NEW g \in batch[m], Call(m, g)
    PROVE  Inductive'
  <1>1. /\ pc[m] = "next" /\ \A other \in batch[m] : g.position <= other.position
        /\ pc' = [pc EXCEPT ![m] = "handler"]
        /\ batch' = [batch EXCEPT ![m] = batch[m] \ {g}]
        /\ message' = [message EXCEPT ![m] = g]
        /\ newest' = IF g.deliveries = 1 THEN [newest EXCEPT ![m] = g.position] ELSE newest
        /\ afterStop' = IF stopped[m] THEN [afterStop EXCEPT ![m] = afterStop[m] + 1]
                                      ELSE afterStop
        /\ UNCHANGED <<topic, group, late, faults, decision, result, stopped, finished,
                       settled>>
    BY DEF Call, IsNext
  <1>2. /\ g \in Message /\ g # None /\ g.position \in Positions
        /\ g.position \in 0 .. Last /\ g.position \in Nat
    <2>1. g \in Message
      BY DEF Inductive, TypeOK
    <2>2. g # None
      BY <2>1, ConstantsAssumption DEF Message, Positions
    <2>3. QED
      BY <2>1, <2>2, ConstantsAssumption DEF Message, Positions
  <1>3. newest' \in [Members -> 0 .. Last] /\ afterStop' \in [Members -> Nat]
    BY <1>1, <1>2 DEF Inductive, TypeOK
  <1>4. TypeOK'
    BY <1>1, <1>2, <1>3 DEF Inductive, TypeOK, Stages
  <1>5. AckIsFinished'
    BY <1>1 DEF Inductive, TypeOK, AckIsFinished
  <1>6. UnreadIsReady' /\ UnreadIsLater'
    BY <1>1 DEF Inductive, TypeOK, Ordered, UnreadIsReady, UnreadIsLater, Unread
  <1>7. UnreadIsNewer'
    BY <1>1 DEF Inductive, TypeOK, Ordered, UnreadIsNewer, UnreadIsLater, Unread
  <1>8. BatchIsNewer'
    <2>1. SUFFICES ASSUME NEW n \in Members, NEW h \in batch'[n], h.deliveries = 1
                   PROVE  h.position > newest'[n]
      BY DEF BatchIsNewer
    <2>2. h \in batch[n] /\ (n = m => h # g) /\ h \in Message
      BY <1>1 DEF Inductive, TypeOK
    <2>3. h.position > newest[n]
      BY <2>1, <2>2 DEF Inductive, Ordered, BatchIsNewer
    <2>4. CASE n = m /\ g.deliveries = 1
      <3>1. h.position # g.position
        BY <1>2, <2>1, <2>2, <2>4 DEF Message
      <3>2. g.position <= h.position /\ newest'[n] = g.position
        BY <1>1, <2>2, <2>4 DEF Inductive, TypeOK
      <3>3. h.position \in Nat
        BY <2>2, ConstantsAssumption DEF Message, Positions
      <3>4. QED
        BY <1>2, <3>1, <3>2, <3>3
    <2>5. CASE ~(n = m /\ g.deliveries = 1)
      BY <1>1, <2>3, <2>5 DEF Inductive, TypeOK
    <2>6. QED
      BY <2>4, <2>5
  <1>9. Prompt'
    BY <1>1 DEF Inductive, TypeOK, Prompt
  <1>10. QED
    BY <1>4, <1>5, <1>6, <1>7, <1>8, <1>9 DEF Inductive, Ordered

\* Only a handler that did the work has its message acknowledged.
LEMMA HandlerReturnsInductive ==
    ASSUME Inductive, NEW m \in Members, NEW ok \in BOOLEAN, NEW d \in Decisions,
           HandlerReturns(m, ok, d)
    PROVE  Inductive'
  <1>1. /\ pc[m] = "handler"
        /\ pc' = [pc EXCEPT ![m] = "settle"]
        /\ decision' = [decision EXCEPT ![m] = d]
        /\ finished' = IF ok THEN finished \cup {message[m].position} ELSE finished
        /\ d = "ack" => ok
        /\ UNCHANGED <<topic, group, late, faults, batch, message, result, stopped,
                       settled, newest, afterStop>>
    BY DEF HandlerReturns, Becomes
  <1>2. message[m] \in Message /\ message[m].position \in Positions
    BY <1>1 DEF Inductive, TypeOK, Message
  <1>3. TypeOK'
    BY <1>1, <1>2 DEF Inductive, TypeOK, Stages
  <1>4. AckIsFinished'
    BY <1>1, <1>2 DEF Inductive, TypeOK, AckIsFinished
  <1>5. Ordered'
    BY <1>1, OrderKept DEF Inductive, Ordered, UnreadIsReady, Unread
  <1>6. Prompt'
    BY <1>1 DEF Inductive, TypeOK, Prompt
  <1>7. QED
    BY <1>3, <1>4, <1>5, <1>6 DEF Inductive

\* What a settlement sends is a statement, an acknowledgement of one message a
\* handler finished.
LEMMA StatementTyped ==
    ASSUME Inductive, NEW m \in Members, pc[m] = "settle", decision[m] # "leave"
    PROVE  /\ Statement(m) \in Statements /\ Statement(m).kind # "read"
           /\ Statement(m).kind = "ack" => \E p \in finished : Statement(m).positions = {p}
  <1>1. message[m].position \in Positions
    BY DEF Inductive, TypeOK, Message
  <1>2. decision[m] \in {"ack", "nack", "delay"}
    BY DEF Inductive, TypeOK, Decisions
  <1>3. QED
    BY <1>1, <1>2 DEF Statement, Statements, Inductive, AckIsFinished

\* A message settled, or left as it is; a stopped member returns.
LEMMA SettleInductive ==
    ASSUME Inductive, NEW m \in Members, Settle(m) PROVE Inductive'
  <1>1. /\ pc[m] = "settle" /\ Proceed(m)
        /\ UNCHANGED <<topic, late, faults, stopped, finished, newest, afterStop>>
    BY DEF Settle
  <1>2. /\ group' \in [Positions -> Entries] /\ settled' \subseteq Positions
        /\ UnreadIsReady' /\ \A p \in Positions : Unread(p)' => Unread(p)
    <2>1. CASE decision[m] = "leave"
      BY <2>1 DEF Settle, Inductive, TypeOK, Ordered, UnreadIsReady, Unread
    <2>2. CASE decision[m] # "leave"
      <3>1. Executes(Statement(m))
        BY <2>2 DEF Settle
      <3>2. QED
        BY <1>1, <2>2, <3>1, StatementTyped, ExecutesKeeps DEF Inductive, Ordered
    <2>3. QED
      BY <2>1, <2>2
  <1>3. RunTyped /\ batch[m] \in SUBSET Message
    BY DEF Inductive, TypeOK, RunTyped
  <1>4. /\ RunTyped'
        /\ batch'[m] \subseteq batch[m] /\ (stopped[m] => pc'[m] = "out")
        /\ \A n \in Members \ {m} : batch'[n] = batch[n] /\ pc'[n] = pc[n]
        /\ \A n \in Members : pc'[n] = "settle" =>
              pc[n] = "settle" /\ decision'[n] = decision[n] /\ message'[n] = message[n]
    <2>1. CASE stopped[m]
      <3>1. Return(m, "stopped")
        BY <1>1, <2>1 DEF Proceed, After, IsStopped
      <3>2. QED
        BY <1>3, <3>1, Returning
    <2>2. CASE ~stopped[m] /\ batch[m] = {}
      <3>1. GoOn(m, "read", batch[m])
        BY <1>1, <2>2 DEF Proceed, After, IsStopped
      <3>2. QED
        BY <1>3, <2>2, <3>1, GoingOn
    <2>3. CASE ~stopped[m] /\ batch[m] # {}
      <3>1. GoOn(m, "next", batch[m])
        BY <1>1, <2>3 DEF Proceed, After, IsStopped
      <3>2. QED
        BY <1>3, <2>3, <3>1, GoingOn
    <2>4. QED
      BY <2>1, <2>2, <2>3
  <1>5. /\ topic' \in 0 .. Last /\ late' \subseteq Statements
        /\ faults' \in 0 .. Faults /\ stopped' \in [Members -> BOOLEAN]
    BY <1>1 DEF Inductive, TypeOK
  <1>6. \A n \in Members : batch'[n] \subseteq batch[n]
    BY <1>4
  <1>7. \A n \in Members : stopped'[n] /\ pc'[n] = "next" => afterStop[n] = 0
    BY <1>1, <1>4 DEF Inductive, Prompt
  <1>8. QED
    BY <1>1, <1>2, <1>4, <1>5, <1>6, <1>7, QuietInductive

\* The wait between two reads ends.
LEMMA WaitInductive ==
    ASSUME Inductive, NEW m \in Members, Wait(m) PROVE Inductive'
  <1> DEFINE rest == {}
  <1>1. /\ GoOn(m, "read", rest)
        /\ UNCHANGED <<topic, group, late, faults, stopped, history>>
    BY DEF Wait
  <1>2. RunTyped /\ rest \in SUBSET Message
    BY DEF Inductive, TypeOK, RunTyped
  <1>3. rest \subseteq batch[m]
    OBVIOUS
  <1>4. ("read" # "next") => rest = {}
    OBVIOUS
  <1> HIDE DEF rest
  <1>5. /\ RunTyped'
        /\ batch'[m] = rest /\ pc'[m] = "read"
        /\ \A n \in Members \ {m} : batch'[n] = batch[n] /\ pc'[n] = pc[n]
        /\ \A n \in Members : pc'[n] = "settle" =>
              pc[n] = "settle" /\ decision'[n] = decision[n] /\ message'[n] = message[n]
    BY <1>1, <1>2, <1>4, GoingOn
  <1>6. /\ topic' \in 0 .. Last /\ group' \in [Positions -> Entries]
        /\ late' \subseteq Statements /\ faults' \in 0 .. Faults
        /\ stopped' \in [Members -> BOOLEAN] /\ settled' \subseteq Positions
    BY <1>1 DEF Inductive, TypeOK, history
  <1>7. UnreadIsReady' /\ \A p \in Positions : Unread(p)' => Unread(p)
    BY <1>1 DEF Inductive, Ordered, UnreadIsReady, Unread
  <1>8. \A n \in Members : batch'[n] \subseteq batch[n]
    BY <1>3, <1>5
  <1>9. \A n \in Members : stopped'[n] /\ pc'[n] = "next" => afterStop[n] = 0
    BY <1>1, <1>5 DEF Inductive, Prompt
  <1>10. late' = late /\ UNCHANGED <<finished, newest, afterStop>>
    BY <1>1 DEF history
  <1>11. QED
    BY <1>5, <1>6, <1>7, <1>8, <1>9, <1>10, QuietInductive

\* A run that ends because its member is stopped, or because an exchange failed.
LEMMA EndingInductive ==
    ASSUME Inductive, NEW m \in Members, Leave(m) \/ ReadFails(m) \/ SettleFails(m)
    PROVE  Inductive'
  <1>1. CASE Leave(m)
    <2>1. Return(m, "stopped") /\ UNCHANGED <<topic, group, late, faults, stopped, history>>
      BY <1>1 DEF Leave
    <2>2. /\ late' \subseteq Statements /\ faults' \in 0 .. Faults
          /\ stopped' \in [Members -> BOOLEAN]
      BY <2>1 DEF Inductive, TypeOK
    <2>3. QED
      BY <2>1, <2>2, ReturnInductive
  <1>2. CASE ReadFails(m)
    <2> DEFINE s == [kind |-> "read", positions |-> {}]
    <2>1. s \in Statements /\ s.kind # "ack" /\ Fails(m, s)
      BY <1>2 DEF ReadFails, Statements
    <2> HIDE DEF s
    <2>2. QED
      BY <2>1, FailsInductive
  <1>3. CASE SettleFails(m)
    BY <1>3, StatementTyped, FailsInductive DEF SettleFails
  <1>4. QED
    BY <1>1, <1>2, <1>3

\* No message is published and no member runs.
LEMMA InitInductive == Init => Inductive
  <1> SUFFICES ASSUME Init PROVE Inductive
    OBVIOUS
  <1>1. [state |-> "ready", deliveries |-> 0] \in Entries
    BY ConstantsAssumption DEF Entries, States
  <1>2. TypeOK
    BY <1>1, ConstantsAssumption DEF Init, TypeOK, Stages, Decisions
  <1>3. AckIsFinished /\ Prompt
    BY DEF Init, AckIsFinished, Prompt
  <1>4. Ordered
    BY ConstantsAssumption
    DEF Init, Ordered, UnreadIsReady, UnreadIsNewer, UnreadIsLater, BatchIsNewer, Positions
  <1>5. QED
    BY <1>2, <1>3, <1>4 DEF Inductive

\* Every step of a member's own.
LEMMA StepInductive ==
    ASSUME Inductive, NEW m \in Members, Step(m) PROVE Inductive'
  <1>1. CASE Leave(m) \/ ReadFails(m) \/ SettleFails(m)
    BY <1>1, EndingInductive
  <1>2. CASE Wait(m)
    BY <1>2, WaitInductive
  <1>3. CASE \E S \in SUBSET Positions : Read(m, S)
    BY <1>3, ReadInductive
  <1>4. CASE \E g \in batch[m] : Call(m, g)
    BY <1>4, CallInductive
  <1>5. CASE \E ok \in BOOLEAN, d \in Decisions : HandlerReturns(m, ok, d)
    BY <1>5, HandlerReturnsInductive
  <1>6. CASE Settle(m)
    BY <1>6, SettleInductive
  <1>7. QED
    BY <1>1, <1>2, <1>3, <1>4, <1>5, <1>6 DEF Step

\* Every step.
LEMMA NextInductive == Inductive /\ [Next]_vars => Inductive'
  <1> SUFFICES ASSUME Inductive, [Next]_vars PROVE Inductive'
    OBVIOUS
  <1>1. CASE Store
    BY <1>1, StoreInductive
  <1>2. CASE \E m \in Members : Step(m) \/ Application(m)
    BY <1>2, StepInductive, ApplicationInductive
  <1>3. CASE UNCHANGED vars
    <2>1. UNCHANGED <<topic, group, late, faults, run, stopped, history>>
      BY <1>3 DEF vars
    <2>2. TypeOK' /\ AckIsFinished'
      BY <2>1 DEF Inductive, TypeOK, AckIsFinished, run, history
    <2>3. Ordered' /\ Prompt'
      BY <2>1 DEF Inductive, Ordered, UnreadIsReady, UnreadIsNewer, UnreadIsLater,
                  BatchIsNewer, Unread, Prompt, run, history
    <2>4. QED
      BY <2>2, <2>3 DEF Inductive
  <1>4. QED
    BY <1>1, <1>2, <1>3 DEF Next

-------------------------------------------------------------------------------
(* What is proved of every behaviour.                                      *)

\* The invariant the theorems below rest on.
LEMMA AlwaysInductive == Safety => []Inductive
  BY InitInductive, NextInductive, PTL DEF Safety

\* Every variable keeps its type, and a run holds messages of one batch only,
\* while it has one.
THEOREM Typed == Safety => []TypeOK
  <1>1. Inductive => TypeOK
    BY DEF Inductive
  <1>2. QED
    BY <1>1, AlwaysInductive, PTL

\* A stop takes effect at the next message: whatever the group hands out and
\* however large the batch, one more call begins at most.
THEOREM StoppedPromptly == Safety => []StopIsPrompt
  <1>1. Inductive => StopIsPrompt
    BY DEF Inductive, Prompt, StopIsPrompt
  <1>2. QED
    BY <1>1, AlwaysInductive, PTL

\* Whatever members stop, die or fail and whichever statements come late, a
\* member gets no message for the first time after a newer one.
THEOREM GivenInOrder == Safety => InOrder
  <1> DEFINE Newer ==
        \A m \in Members : \A g \in batch[m] :
          g.deliveries = 1 /\ g \notin batch'[m] /\ message'[m] = g =>
              g.position > newest[m]
  <1>1. Inductive => Newer
    BY DEF Inductive, Ordered, BatchIsNewer
  <1>2. Inductive /\ [Next]_vars => [Newer]_vars
    BY <1>1
  <1>3. QED
    BY <1>2, AlwaysInductive, PTL DEF Safety, InOrder

-------------------------------------------------------------------------------
(* The promise of AtLeastOnce.                                             *)

\* A settlement settles nothing, or a message a handler finished.
LEMMA ExecutesSettles ==
    ASSUME Inductive, NEW s \in Statements, s.kind # "read", Executes(s),
           s.kind = "ack" => \E p \in finished : s.positions = {p},
           finished' = finished
    PROVE  UNCHANGED <<finished, settled>> \/ \E p \in Positions : Promise!Settle(p)
  <1>1. CASE settled' = settled
    BY <1>1
  <1>2. CASE settled' # settled
    <2>1. s.kind = "ack" /\ settled' = settled \cup InFlight(s.positions)
      BY <1>2 DEF Executes
    <2>2. PICK p \in finished : s.positions = {p}
      BY <2>1
    <2>3. InFlight(s.positions) = {p}
      BY <1>2, <2>1, <2>2 DEF InFlight
    <2>4. p \in Positions
      BY DEF Inductive, TypeOK
    <2>5. Promise!Settle(p)
      BY <2>1, <2>3 DEF Promise!Settle
    <2>6. QED
      BY <2>4, <2>5
  <1>3. QED
    BY <1>1, <1>2

\* What a step does, seen from the promise.
LEMMA PromiseStep ==
    ASSUME Inductive, [Next]_vars
    PROVE  \/ UNCHANGED <<finished, settled>>
           \/ \E p \in Positions : Promise!Finish(p) \/ Promise!Settle(p)
  <1>1. CASE UNCHANGED vars
    BY <1>1 DEF vars, history
  <1>2. CASE Store
    <2>1. CASE Publish \/ (\E p \in Positions : Lapse(p)) \/ \E s \in late : Forget(s)
      BY <2>1 DEF Publish, Lapse, Forget, history
    <2>2. CASE \E s \in late : ExecuteLate(s)
      <3>1. PICK s \in late : ExecuteLate(s)
        BY <2>2
      <3>2. /\ s \in Statements /\ finished' = finished
            /\ s.kind = "ack" => \E p \in finished : s.positions = {p}
        BY <3>1 DEF ExecuteLate, Inductive, TypeOK, AckIsFinished
      <3>3. CASE s.kind = "read"
        BY <3>1, <3>2, <3>3 DEF ExecuteLate
      <3>4. CASE s.kind # "read"
        <4>1. Executes(s)
          BY <3>1, <3>4 DEF ExecuteLate
        <4>2. QED
          BY <3>2, <3>4, <4>1, ExecutesSettles
      <3>5. QED
        BY <3>3, <3>4
    <2>3. QED
      BY <1>2, <2>1, <2>2 DEF Store
  <1>3. CASE \E m \in Members : Application(m)
    BY <1>3 DEF Application, Begin, Stop, New, Die, history
  <1>4. CASE \E m \in Members : Step(m)
    <2>1. PICK m \in Members : Step(m)
      BY <1>4
    <2>2. CASE Leave(m) \/ ReadFails(m) \/ Wait(m) \/ SettleFails(m)
               \/ \E S \in SUBSET Positions : Read(m, S)
      BY <2>2 DEF Leave, ReadFails, Wait, SettleFails, Read, Fails, history
    <2>3. CASE \E g \in batch[m] : Call(m, g)
      BY <2>3 DEF Call
    <2>4. CASE \E ok \in BOOLEAN, d \in Decisions : HandlerReturns(m, ok, d)
      <3>1. message[m].position \in Positions
        BY <2>4 DEF HandlerReturns, Inductive, TypeOK, Message
      <3>2. /\ settled' = settled
            /\ \/ finished' = finished
               \/ finished' = finished \cup {message[m].position}
        BY <2>4 DEF HandlerReturns
      <3>3. QED
        BY <3>1, <3>2 DEF Promise!Finish
    <2>5. CASE Settle(m)
      <3>1. pc[m] = "settle" /\ finished' = finished
        BY <2>5 DEF Settle
      <3>2. CASE decision[m] = "leave"
        BY <2>5, <3>1, <3>2 DEF Settle
      <3>3. CASE decision[m] # "leave"
        <4>1. Executes(Statement(m))
          BY <2>5, <3>3 DEF Settle
        <4>2. QED
          BY <3>1, <3>3, <4>1, StatementTyped, ExecutesSettles
      <3>4. QED
        BY <3>2, <3>3
    <2>6. QED
      BY <2>1, <2>2, <2>3, <2>4, <2>5 DEF Step
  <1>5. QED
    BY <1>1, <1>2, <1>3, <1>4 DEF Next

\* Consumer implements AtLeastOnce, for any number of members and messages: an
\* acknowledgement names no member, and none is of a message no handler finished.
THEOREM AtLeastOnceKept == Safety => WorkIsAtLeastOnce
  <1>1. Init => Promise!Init
    BY DEF Init, Promise!Init
  <1>2. Inductive /\ [Next]_vars => [Promise!Next]_Promise!vars
    BY PromiseStep DEF Promise!Next, Promise!vars
  <1>3. QED
    BY <1>1, <1>2, AlwaysInductive, PTL DEF Safety, WorkIsAtLeastOnce, Promise!Safety
=============================================================================
