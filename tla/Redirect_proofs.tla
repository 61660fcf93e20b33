---------------------------- MODULE Redirect_proofs ----------------------------
(***************************************************************************)
(* Proofs about Redirect, for every cluster, every set of requests and     *)
(* every choice of names.                                                  *)
(***************************************************************************)
EXTENDS Redirect, SequenceTheorems, TLAPS

-------------------------------------------------------------------------------
(* The inductive invariant: what holds of the request in hand, stage by    *)
(* stage.                                                                  *)

\* What the caller handed over is still so: nothing ran yet, and the client's
\* own session has the tenancy it had.
HandedOver ==
    pc # "idle" =>
        /\ result = "none"
        /\ ran = <<>>
        /\ asked.tenancy = home.tenancy
        /\ asked.keyed = (request.keyed /\ dials)
        /\ request.credentials # None => asked.users = {request.credentials}
        /\ request.credentials = None =>
               /\ signed \in asked.users
               /\ pc = "exchange" => home.user \in asked.users

\* A redirect is in hand, and the tenancy to select is the caller's.
Redirected ==
    /\ pc \in Following \cup {"context"} => redirect \in Redirects
    /\ pc \in Following => selecting = asked.tenancy

\* The session on the other node: fresh on arrival, the caller's when asked.
Arrived ==
    /\ pc \in {"arrive", "select", "ask"} => there \in Connections
    /\ pc \in {"arrive", "select"} => there.tenancy = Nothing
    /\ pc = "arrive" => there.user = None
    /\ pc \in {"select", "ask"} => there.user = signed
    /\ pc = "ask" => there.tenancy = asked.tenancy

\* One redirect was dialled per hop, none dated after the newest one followed.
Counting ==
    /\ pc \in {"idle", "exchange", "context"} => hops = 0
    /\ pc \in {"exchange", "context"} => dated = <<>>
    /\ pc = "loop" => Len(dated) = hops
    /\ pc \in {"arrive", "select", "ask"} => Len(dated) = hops + 1 /\ hops < 3
    /\ pc # "idle" => \A i \in 1 .. Len(dated) : dated[i] <= floor

Inductive ==
    /\ TypeOK
    /\ HandedOver
    /\ Redirected
    /\ Arrived
    /\ OnlyTheNodeNamed
    /\ Counting
    /\ RedirectsAdvance
    /\ RunsInTheCallersSession
    /\ KeysAreRead
    /\ Len(ran) <= 1

-------------------------------------------------------------------------------
(* One exchange.                                                           *)

\* An exchange leaves a connection to the same node, whose session has the user
\* the node accepted and the tenancy of the script that ran.
LEMMA AfterExchange ==
    ASSUME NEW c \in Connections, NEW user \in Users \cup {None},
           NEW tenancy \in Tenancies, NEW o \in Outcomes
    PROVE  /\ After(c, user, tenancy, o) \in Connections
           /\ After(c, user, tenancy, o).node = c.node
           /\ After(c, user, tenancy, o).user =
                  IF user \in Accepted THEN user ELSE c.user
           /\ After(c, user, tenancy, o).tenancy =
                  IF o.ran THEN tenancy ELSE c.tenancy
  BY DEF After, Connections, Outcomes

\* A script ran only for credentials the node accepted; an answer means it ran
\* and a redirect that it did not.
LEMMA WhoRan ==
    ASSUME NEW c, NEW user, NEW o \in Outcomes, Possible(c, user, o)
    PROVE  /\ o.ran => user \in Accepted \cup {None}
           /\ o.kind = "answers" => o.ran
           /\ o.kind = "elsewhere" => ~o.ran
           /\ o.ran \in BOOLEAN
           /\ o.kind \in Results \cup {"elsewhere"}
  BY DEF Possible, Outcomes, Results

\* A USE replaces one name of a tenancy.
LEMMA UsingTyped ==
    ASSUME NEW t \in Tenancies, NEW r \in Requests \cup {NoRequest}
    PROVE  Using(t, r.use) \in Tenancies
  BY ConstantsAssumption DEF Using, Tenancies, Request, NoRequest

\* A request run on a connection that has the caller's session is recorded as
\* run in the caller's session.
LEMMA RanInTheCallersSession ==
    ASSUME NEW c \in Connections, NEW tenancy \in Tenancies, NEW o \in Outcomes,
           TypeOK, ran = <<>>,
           Possible(c, request.credentials, o),
           c.tenancy = asked.tenancy,
           request.credentials = None => c.user \in asked.users,
           request.credentials # None => asked.users = {request.credentials},
           asked.keyed => Minor[c.node] >= KEYED_MINOR,
           asked' = asked,
           ran' = Ran(c, After(c, request.credentials, tenancy, o), o)
    PROVE  /\ ran' \in Seq(Sessions)
           /\ Len(ran') <= 1
           /\ RunsInTheCallersSession'
           /\ KeysAreRead'
           /\ o.kind = "elsewhere" => ran' = <<>>
  <1> DEFINE d == After(c, request.credentials, tenancy, o)
             s == Session(d, c.tenancy)
  <1>1. request.credentials \in Users \cup {None}
    BY ConstantsAssumption DEF TypeOK, Request, NoRequest
  <1>2. d.node = c.node /\ d.node \in Nodes /\ d.user \in Users \cup {None}
    <2>1. d \in Connections /\ d.node = c.node
      BY <1>1, AfterExchange
    <2>2. QED
      BY <2>1 DEF Connections
  <1>3. s \in Sessions
    BY <1>2 DEF Session, Sessions, Connections
  <1>4. CASE ~o.ran
    <2>1. ran' = <<>>
      BY <1>4 DEF Ran
    <2>2. QED
      BY <2>1 DEF RunsInTheCallersSession, KeysAreRead
  <1>5. CASE o.ran
    <2>1. ran' = <<s>>
      BY <1>5 DEF Ran
    <2>2. request.credentials \in Accepted \cup {None}
      BY <1>5, WhoRan
    <2>3. d.user = IF request.credentials \in Accepted
                   THEN request.credentials ELSE c.user
      BY <1>1, AfterExchange
    <2>4. s.user \in asked.users
      BY <2>2, <2>3, ConstantsAssumption DEF Session
    <2>5. s.tenancy = asked.tenancy /\ s.node = c.node
      BY <1>2 DEF Session
    <2>6. Len(ran') = 1 /\ ran'[1] = s /\ ran' \in Seq(Sessions)
      BY <2>1, <1>3
    <2>7. RunsInTheCallersSession'
      BY <2>4, <2>5, <2>6 DEF RunsInTheCallersSession
    <2>8. KeysAreRead'
      BY <2>5, <2>6 DEF KeysAreRead
    <2>9. o.kind # "elsewhere"
      BY <1>5, WhoRan
    <2>10. QED
      BY <2>6, <2>7, <2>8, <2>9
  <1>6. QED
    BY <1>4, <1>5, WhoRan

-------------------------------------------------------------------------------
(* The steps.                                                              *)

\* `send` may return from any stage: what remains to be seen is the history.
LEMMA Finishing ==
    ASSUME TypeOK, NEW what \in Results, Finish(what),
           home' \in Connections, dials' = dials, signed' = signed,
           asked' = asked,
           ran' \in Seq(Sessions), Len(ran') <= 1,
           RunsInTheCallersSession', KeysAreRead',
           dated' \in Seq(Epochs), RedirectsAdvance'
    PROVE  Inductive'
  <1>1. TypeOK'
    BY ConstantsAssumption
    DEF TypeOK, Finish, Stages, Nothing, NoRequest, NoRedirect
  <1>2. HandedOver' /\ Redirected' /\ Arrived' /\ OnlyTheNodeNamed' /\ Counting'
    BY DEF Finish, HandedOver, Redirected, Following, Arrived,
           OnlyTheNodeNamed, Counting
  <1>3. QED
    BY <1>1, <1>2 DEF Inductive

\* The same, for a return that changes no history.
LEMMA FinishingQuietly ==
    ASSUME Inductive, NEW what \in Results, Finish(what),
           home' \in Connections,
           UNCHANGED <<dials, signed, asked, ran, dated>>
    PROVE  Inductive'
  <1>1. /\ ran' \in Seq(Sessions) /\ Len(ran') <= 1
        /\ RunsInTheCallersSession' /\ KeysAreRead'
    BY DEF Inductive, TypeOK, RunsInTheCallersSession, KeysAreRead
  <1>2. dated' \in Seq(Epochs) /\ RedirectsAdvance'
    BY DEF Inductive, TypeOK, RedirectsAdvance
  <1>3. QED
    BY <1>1, <1>2, Finishing DEF Inductive

\* A client just made has sent nothing.
LEMMA InitInductive == Init => Inductive
  <1> SUFFICES ASSUME Init PROVE Inductive
    OBVIOUS
  <1>1. Nothing \in Tenancies /\ Nothing \in [Words -> Plain \cup {None}]
    BY DEF Nothing, Tenancies
  <1>2. home \in Connections
    BY <1>1 DEF Init, Fresh, Connections
  <1>3. TypeOK
    BY <1>1, <1>2 DEF Init, TypeOK, Stages, Results
  <1>4. QED
    BY <1>3 DEF Init, Inductive, HandedOver, Redirected, Following, Arrived,
       OnlyTheNodeNamed, Counting, RedirectsAdvance, RunsInTheCallersSession,
       KeysAreRead

\* A new client keeps the history of the request before it.
LEMMA ReconnectInductive == Inductive /\ Reconnect => Inductive'
  <1> SUFFICES ASSUME Inductive, Reconnect PROVE Inductive'
    OBVIOUS
  <1>1. home' \in Connections /\ dials' \in BOOLEAN /\ signed' = None
    BY DEF Reconnect, Connect, Fresh, Connections, Tenancies, Nothing
  <1>2. TypeOK'
    BY <1>1 DEF Inductive, TypeOK, Reconnect
  <1>3. HandedOver' /\ Redirected' /\ Arrived' /\ OnlyTheNodeNamed' /\ Counting'
    BY DEF Inductive, Reconnect, HandedOver, Redirected, Following, Arrived,
           OnlyTheNodeNamed, Counting
  <1>4. RedirectsAdvance' /\ RunsInTheCallersSession' /\ KeysAreRead' /\ Len(ran') <= 1
    BY DEF Reconnect, Inductive, RedirectsAdvance, RunsInTheCallersSession,
           KeysAreRead
  <1>5. QED
    BY <1>2, <1>3, <1>4 DEF Inductive

\* A request in hand: nothing ran it and no redirect was dialled.
LEMMA SendInductive ==
    ASSUME Inductive, NEW r \in Requests, Send(r)
    PROVE  Inductive'
  <1>1. r \in Request
    BY ConstantsAssumption
  <1>2. TypeOK'
    BY <1>1 DEF Inductive, TypeOK, Send, Stages, Results, Request, Connections
  <1>3. HandedOver'
    BY <1>1, ConstantsAssumption
    DEF Inductive, TypeOK, Send, HandedOver, Request, Connections
  <1>4. Redirected' /\ Arrived' /\ OnlyTheNodeNamed'
    BY DEF Send, Redirected, Following, Arrived, OnlyTheNodeNamed
  <1>5. hops' = 0 /\ dated' = <<>>
    BY DEF Send, Inductive, Counting
  <1>6. Counting' /\ RedirectsAdvance'
    BY <1>5 DEF Send, Counting, RedirectsAdvance
  <1>7. RunsInTheCallersSession' /\ KeysAreRead' /\ Len(ran') <= 1
    BY DEF Send, RunsInTheCallersSession, KeysAreRead
  <1>8. QED
    BY <1>2, <1>3, <1>4, <1>6, <1>7 DEF Inductive

\* A request that needs its keys passed the check of the node's minor.
LEMMA AskHomeInductive ==
    ASSUME Inductive, NEW o \in Outcomes, AskHome(o)
    PROVE  Inductive'
  <1> DEFINE tenancy == Using(home.tenancy, request.use)
  <1>1. /\ home \in Connections /\ home.tenancy \in Tenancies
        /\ home.node \in Nodes
        /\ request \in Requests \cup {NoRequest}
        /\ request.credentials \in Users \cup {None}
    BY ConstantsAssumption
    DEF Inductive, TypeOK, Connections, Request, NoRequest
  <1>2. tenancy \in Tenancies
    BY <1>1, UsingTyped
  <1>3. /\ home' = After(home, request.credentials, tenancy, o)
        /\ home' \in Connections
        /\ home'.tenancy = IF o.ran THEN tenancy ELSE home.tenancy
        /\ home'.user = IF request.credentials \in Accepted
                        THEN request.credentials ELSE home.user
    BY <1>1, <1>2, AfterExchange DEF AskHome
  <1>4. ran' \in Seq(Sessions) /\ Len(ran') <= 1
        /\ RunsInTheCallersSession' /\ KeysAreRead'
        /\ (o.kind = "elsewhere" => ran' = <<>>)
    <2>1. /\ TypeOK /\ ran = <<>> /\ home.tenancy = asked.tenancy
          /\ request.credentials = None => home.user \in asked.users
          /\ request.credentials # None => asked.users = {request.credentials}
          /\ asked.keyed = (request.keyed /\ dials)
      BY DEF Inductive, HandedOver, AskHome
    <2>2. asked.keyed => Minor[home.node] >= KEYED_MINOR
      <3> SUFFICES ASSUME asked.keyed PROVE Minor[home.node] >= KEYED_MINOR
        OBVIOUS
      <3>1. request.keyed /\ dials
        BY <2>1
      <3>2. ~(Minor[home.node] < KEYED_MINOR)
        BY <3>1 DEF AskHome, TooOld
      <3>3. Minor[home.node] \in Nat
        BY <1>1, ConstantsAssumption
      <3>4. QED
        BY <3>2, <3>3 DEF KEYED_MINOR
    <2>3. /\ Possible(home, request.credentials, o) /\ asked' = asked
          /\ ran' = Ran(home, After(home, request.credentials, tenancy, o), o)
      BY <1>3 DEF AskHome
    <2>4. QED
      BY <1>1, <1>2, <2>1, <2>2, <2>3, RanInTheCallersSession
  <1>5. /\ UNCHANGED <<dials, signed, asked, dated>>
        /\ dated' \in Seq(Epochs) /\ RedirectsAdvance'
    BY DEF AskHome, Inductive, TypeOK, RedirectsAdvance
  <1>6. ASSUME NEW what \in Results, Finish(what) PROVE Inductive'
    BY <1>3, <1>4, <1>5, <1>6, Finishing DEF Inductive
  <1>7. CASE o.kind = "elsewhere" /\ dials
    <2>1. /\ pc' = "context" /\ redirect' \in Redirects /\ ran' = <<>>
          /\ UNCHANGED <<request, floor, hops, selecting, there, result>>
          /\ ~o.ran
      BY <1>4, <1>7, WhoRan DEF AskHome
    <2>2. TypeOK'
      BY <1>3, <1>4, <1>5, <2>1 DEF Inductive, TypeOK, Stages
    <2>3. HandedOver'
      BY <1>3, <1>5, <2>1 DEF AskHome, Inductive, HandedOver
    <2>4. Redirected' /\ Arrived' /\ OnlyTheNodeNamed' /\ Counting'
      BY <1>5, <2>1 DEF AskHome, Inductive, Redirected, Following, Arrived,
         OnlyTheNodeNamed, Counting
    <2>5. QED
      BY <1>4, <1>5, <2>2, <2>3, <2>4 DEF Inductive
  <1>8. CASE o.kind = "elsewhere" /\ ~dials
    <2>1. Finish("redirected")
      BY <1>8 DEF AskHome
    <2>2. QED
      BY <1>6, <2>1 DEF Results, NothingRan
  <1>9. CASE o.kind # "elsewhere"
    <2>1. Finish(o.kind)
      BY <1>9 DEF AskHome
    <2>2. o.kind \in Results
      BY <1>9 DEF Outcomes, Results
    <2>3. QED
      BY <1>6, <2>1, <2>2
  <1>10. QED
    BY <1>7, <1>8, <1>9

\* The session is asked for its tenancy, and not changed by it.
LEMMA AskContextInductive ==
    ASSUME Inductive, NEW o \in Outcomes, AskContext(o)
    PROVE  Inductive'
  <1>1. /\ home \in Connections /\ home.tenancy \in Tenancies
        /\ signed \in Users \cup {None}
    BY DEF Inductive, TypeOK, Connections
  <1>2. /\ home' \in Connections
        /\ home'.tenancy = home.tenancy
    BY <1>1, AfterExchange DEF AskContext
  <1>3. UNCHANGED <<dials, signed, asked, ran, dated>>
    BY DEF AskContext
  <1>4. ASSUME NEW what \in Results, Finish(what) PROVE Inductive'
    BY <1>2, <1>3, <1>4, FinishingQuietly
  <1>5. CASE o.kind = "answers" /\ \A w \in Words : home.tenancy[w] \in Plain \cup {None}
    <2>1. CASE pc' = "loop" /\ selecting' = home.tenancy
               /\ UNCHANGED <<request, redirect, floor, hops, there, result>>
      <3>1. selecting' \in [Words -> Plain \cup {None}]
        BY <1>1, <1>5, <2>1 DEF Tenancies
      <3>2. TypeOK'
        BY <1>2, <1>3, <2>1, <3>1 DEF Inductive, TypeOK, Stages
      <3>3. HandedOver'
        BY <1>2, <1>3, <2>1 DEF AskContext, Inductive, HandedOver
      <3>4. Redirected'
        BY <1>3, <2>1 DEF AskContext, Inductive, HandedOver, Redirected, Following
      <3>5. Arrived' /\ OnlyTheNodeNamed'
        BY <2>1 DEF Arrived, OnlyTheNodeNamed
      <3>6. Counting'
        BY <1>3, <2>1 DEF AskContext, Inductive, Counting
      <3>7. RedirectsAdvance' /\ RunsInTheCallersSession' /\ KeysAreRead' /\ Len(ran') <= 1
        BY <1>3 DEF Inductive, RedirectsAdvance, RunsInTheCallersSession, KeysAreRead
      <3>8. QED
        BY <3>2, <3>3, <3>4, <3>5, <3>6, <3>7 DEF Inductive
    <2>2. CASE Finish("not_followable")
      BY <1>4, <2>2 DEF Results, NothingRan
    <2>3. QED
      BY <1>5, <2>1, <2>2 DEF AskContext
  <1>6. CASE o.kind = "answers" /\ ~\A w \in Words : home.tenancy[w] \in Plain \cup {None}
    <2>1. Finish("not_followable")
      BY <1>6 DEF AskContext
    <2>2. QED
      BY <1>4, <2>1 DEF Results, NothingRan
  <1>7. CASE o.kind = "elsewhere"
    <2>1. Finish("redirected")
      BY <1>7 DEF AskContext
    <2>2. QED
      BY <1>4, <2>1 DEF Results, NothingRan
  <1>8. CASE o.kind \notin {"answers", "elsewhere"}
    <2>1. Finish(o.kind) /\ o.kind \in Results
      BY <1>8 DEF AskContext, Outcomes, Results
    <2>2. QED
      BY <1>4, <2>1
  <1>9. QED
    BY <1>5, <1>6, <1>7, <1>8

\* A redirect dialled is not older than the ones before it.
LEMMA DialInductive == Inductive /\ Dial => Inductive'
  <1> SUFFICES ASSUME Inductive, Dial PROVE Inductive'
    OBVIOUS
  <1>1. /\ UNCHANGED <<home, dials, signed, asked, ran>>
        /\ home' \in Connections
    BY DEF Dial, Inductive, TypeOK
  <1>2. /\ redirect \in Redirects /\ redirect.epoch \in Epochs
        /\ redirect.epoch \in Nat /\ floor \in Nat
        /\ hops \in 0 .. 2 /\ Len(dated) = hops
        /\ dated \in Seq(Epochs)
        /\ \A i \in 1 .. Len(dated) : dated[i] <= floor
    <2>1. pc = "loop" /\ ~(hops >= 3)
      BY DEF Dial, Looping, MOST_HOPS
    <2>2. redirect \in Redirects
      BY <2>1 DEF Inductive, Redirected, Following
    <2>3. /\ redirect.epoch \in Epochs /\ redirect.epoch \in Nat
          /\ floor \in Nat /\ hops \in 0 .. 3 /\ dated \in Seq(Epochs)
      <3>1. redirect.epoch \in Epochs
        BY <2>2 DEF Redirects
      <3>2. /\ floor \in Epochs \cup {0} /\ hops \in 0 .. 3
            /\ dated \in Seq(Epochs)
        BY DEF Inductive, TypeOK
      <3>3. QED
        BY <3>1, <3>2, ConstantsAssumption
    <2>4. Len(dated) = hops /\ \A i \in 1 .. Len(dated) : dated[i] <= floor
      BY <2>1 DEF Inductive, Counting
    <2>5. QED
      BY <2>1, <2>2, <2>3, <2>4
  <1>3. redirect.epoch >= floor
    BY <1>2 DEF Dial, Stale
  <1>4. dated' = Append(dated, redirect.epoch)
    BY <1>2 DEF Dial, MOST_HOPS
  <1>5. /\ dated' \in Seq(Epochs) /\ Len(dated') = hops + 1
        /\ \A i \in 1 .. Len(dated) : dated'[i] = dated[i]
        /\ dated'[hops + 1] = redirect.epoch
    BY <1>2, <1>4
  <1>6. \A i \in 1 .. Len(dated') : dated'[i] \in Nat /\ dated'[i] <= redirect.epoch
    <2> SUFFICES ASSUME NEW i \in 1 .. Len(dated')
                 PROVE  dated'[i] \in Nat /\ dated'[i] <= redirect.epoch
      OBVIOUS
    <2>1. CASE i = hops + 1
      BY <1>2, <1>5, <2>1
    <2>2. CASE i \in 1 .. Len(dated)
      <3>1. dated[i] \in Nat /\ dated[i] <= floor
        BY <1>2, <2>2, ConstantsAssumption
      <3>2. QED
        BY <1>2, <1>3, <1>5, <2>2, <3>1
    <2>3. QED
      BY <1>2, <1>5, <2>1, <2>2
  <1>7. RedirectsAdvance'
    <2>1. Len(dated') <= 3
      BY <1>2, <1>5
    <2>2. ASSUME NEW i \in 1 .. Len(dated'), NEW j \in 1 .. Len(dated'), i < j
          PROVE  dated'[i] <= dated'[j]
      <3>1. CASE j = hops + 1
        BY <1>5, <1>6, <3>1
      <3>2. CASE j # hops + 1
        <4>1. i \in 1 .. Len(dated) /\ j \in 1 .. Len(dated)
          BY <1>2, <1>5, <2>2, <3>2
        <4>2. dated[i] <= dated[j]
          BY <2>2, <4>1 DEF Inductive, RedirectsAdvance
        <4>3. QED
          BY <1>5, <4>1, <4>2
      <3>3. QED
        BY <3>1, <3>2
    <2>3. QED
      BY <2>1, <2>2 DEF RedirectsAdvance
  <1>8. RunsInTheCallersSession' /\ KeysAreRead' /\ Len(ran') <= 1 /\ ran' \in Seq(Sessions)
    BY <1>1 DEF Inductive, TypeOK, RunsInTheCallersSession, KeysAreRead
  <1>9. CASE Finish("unreachable")
    BY <1>1, <1>5, <1>7, <1>8, <1>9, Finishing DEF Inductive, Results, NothingRan
  <1>10. ASSUME NEW n \in Nodes, there' = Fresh(n), floor' = redirect.epoch,
                pc' = "arrive",
                UNCHANGED <<request, redirect, hops, selecting, result>>
         PROVE  Inductive'
    <2>1. /\ there' \in Connections /\ there'.tenancy = Nothing
          /\ there'.user = None
      BY <1>10 DEF Fresh, Connections, Tenancies, Nothing
    <2>2. TypeOK'
      BY <1>1, <1>2, <1>5, <1>10, <2>1 DEF Inductive, TypeOK, Stages
    <2>3. HandedOver'
      BY <1>1, <1>10 DEF Dial, Inductive, HandedOver
    <2>4. Redirected' /\ Arrived' /\ OnlyTheNodeNamed'
      BY <1>1, <1>10, <2>1 DEF Dial, Inductive, Redirected, Following, Arrived,
         OnlyTheNodeNamed
    <2>5. Counting'
      BY <1>2, <1>5, <1>6, <1>10 DEF Counting
    <2>6. QED
      BY <1>7, <1>8, <2>2, <2>3, <2>4, <2>5 DEF Inductive
  <1>11. QED
    BY <1>9, <1>10 DEF Dial

\* The history a step on another node leaves alone.
LEMMA HistoryKept ==
    ASSUME Inductive, UNCHANGED <<asked, ran, dated>>
    PROVE  /\ RedirectsAdvance' /\ RunsInTheCallersSession' /\ KeysAreRead'
           /\ Len(ran') <= 1
  BY DEF Inductive, RedirectsAdvance, RunsInTheCallersSession, KeysAreRead

\* The node that answered is the one named, and its session is a fresh one.
LEMMA ArriveInductive ==
    ASSUME Inductive, NEW o \in Outcomes, Arrive(o)
    PROVE  Inductive'
  <1>1. /\ UNCHANGED <<home, dials, signed, asked, ran, dated>>
        /\ home' \in Connections
    BY DEF Arrive, Inductive, TypeOK
  <1>2. /\ there \in Connections /\ there.tenancy = Nothing /\ there.user = None
        /\ there.tenancy \in Tenancies
        /\ signed \in Users \cup {None}
    BY DEF Arrive, Inductive, TypeOK, Arrived, Tenancies, Nothing
  <1>3. ASSUME NEW what \in Results, Finish(what) PROVE Inductive'
    BY <1>1, <1>3, FinishingQuietly
  <1>4. ASSUME o.kind = "answers", NodeNamed(there.node),
               there' = After(there, signed, there.tenancy, o),
               pc' = IF selecting = Nothing THEN "ask" ELSE "select",
               UNCHANGED <<request, redirect, floor, hops, selecting, result>>
        PROVE  Inductive'
    <2>1. signed \in Accepted \cup {None}
      BY <1>4, WhoRan DEF Arrive
    <2>2. /\ there' \in Connections /\ there'.node = there.node
          /\ there'.user = signed /\ there'.tenancy = Nothing
      BY <1>2, <1>4, <2>1, AfterExchange, ConstantsAssumption
    <2>3. TypeOK'
      BY <1>1, <1>4, <2>2 DEF Inductive, TypeOK, Stages
    <2>4. HandedOver'
      BY <1>1, <1>4 DEF Arrive, Inductive, HandedOver
    <2>5. Redirected'
      BY <1>1, <1>4 DEF Arrive, Inductive, Redirected, Following
    <2>6. Arrived' /\ OnlyTheNodeNamed'
      BY <1>1, <1>4, <2>2, <2>5
      DEF Arrive, Inductive, Redirected, Following, Arrived, OnlyTheNodeNamed, NodeNamed
    <2>7. Counting'
      BY <1>1, <1>4 DEF Arrive, Inductive, Counting
    <2>8. QED
      BY <1>1, <2>3, <2>4, <2>5, <2>6, <2>7, HistoryKept DEF Inductive
  <1>5. CASE Finish("wrong_node") \/ Finish("redirected")
    BY <1>3, <1>5 DEF Results, NothingRan
  <1>6. CASE o.kind \notin {"answers", "elsewhere"} /\ Finish(o.kind)
    BY <1>3, <1>6 DEF Outcomes, Results
  <1>7. QED
    BY <1>4, <1>5, <1>6 DEF Arrive

\* The other node's session has the caller's tenancy once it is selected.
LEMMA SelectThereInductive ==
    ASSUME Inductive, NEW o \in Outcomes, SelectThere(o)
    PROVE  Inductive'
  <1> DEFINE tenancy == Selected(there.tenancy, selecting)
  <1>1. /\ UNCHANGED <<home, dials, signed, asked, ran, dated>>
        /\ home' \in Connections
    BY DEF SelectThere, Inductive, TypeOK
  <1>2. /\ there \in Connections /\ there.tenancy = Nothing /\ there.user = signed
        /\ there.node = redirect.node
        /\ signed \in Users \cup {None}
        /\ selecting = asked.tenancy
        /\ selecting \in [Words -> Plain \cup {None}]
    BY DEF SelectThere, Inductive, TypeOK, Arrived, OnlyTheNodeNamed, Redirected,
           Following
  <1>3. tenancy = selecting /\ tenancy \in Tenancies
    BY <1>2 DEF Selected, Nothing, Tenancies, Names
  <1>4. ASSUME NEW what \in Results, Finish(what) PROVE Inductive'
    BY <1>1, <1>4, FinishingQuietly
  <1>5. ASSUME o.kind = "answers", there' = After(there, signed, tenancy, o),
               pc' = "ask",
               UNCHANGED <<request, redirect, floor, hops, selecting, result>>
        PROVE  Inductive'
    <2>1. o.ran
      BY <1>5, WhoRan DEF SelectThere
    <2>2. /\ there' \in Connections /\ there'.node = redirect.node
          /\ there'.user = signed /\ there'.tenancy = asked.tenancy
      BY <1>2, <1>3, <1>5, <2>1, AfterExchange
    <2>3. TypeOK'
      BY <1>1, <1>5, <2>2 DEF Inductive, TypeOK, Stages
    <2>4. HandedOver'
      BY <1>1, <1>5 DEF SelectThere, Inductive, HandedOver
    <2>5. Redirected' /\ Arrived' /\ OnlyTheNodeNamed'
      BY <1>1, <1>5, <2>2 DEF SelectThere, Inductive, Redirected, Following,
         Arrived, OnlyTheNodeNamed
    <2>6. Counting'
      BY <1>1, <1>5 DEF SelectThere, Inductive, Counting
    <2>7. QED
      BY <1>1, <2>3, <2>4, <2>5, <2>6, HistoryKept DEF Inductive
  <1>6. CASE Finish("redirected")
    BY <1>4, <1>6 DEF Results, NothingRan
  <1>7. CASE o.kind \notin {"answers", "elsewhere"} /\ Finish(o.kind)
    BY <1>4, <1>7 DEF Outcomes, Results
  <1>8. QED
    BY <1>5, <1>6, <1>7 DEF SelectThere

\* The request on the other node, answered, redirected or failed.
LEMMA AskThereInductive ==
    ASSUME Inductive, NEW o \in Outcomes, AskThere(o)
    PROVE  Inductive'
  <1> DEFINE tenancy == Using(there.tenancy, request.use)
             then == After(there, request.credentials, tenancy, o)
  <1>1. /\ there \in Connections /\ there.tenancy \in Tenancies
        /\ there.node \in Nodes /\ there.user = signed
        /\ there.tenancy = asked.tenancy
        /\ request \in Requests \cup {NoRequest}
        /\ request.credentials \in Users \cup {None}
    BY ConstantsAssumption
    DEF AskThere, Inductive, TypeOK, Arrived, Connections, Request, NoRequest
  <1>2. tenancy \in Tenancies
    BY <1>1, UsingTyped
  <1>3. then \in Connections
    BY <1>1, <1>2, AfterExchange
  <1>4. ran' \in Seq(Sessions) /\ Len(ran') <= 1
        /\ RunsInTheCallersSession' /\ KeysAreRead'
        /\ (o.kind = "elsewhere" => ran' = <<>>)
    <2>1. /\ TypeOK /\ ran = <<>>
          /\ request.credentials = None => signed \in asked.users
          /\ request.credentials # None => asked.users = {request.credentials}
          /\ asked.keyed = (request.keyed /\ dials)
      BY DEF Inductive, HandedOver, AskThere
    <2>2. ASSUME asked.keyed PROVE Minor[there.node] >= KEYED_MINOR
      <3>1. request.keyed
        BY <2>1, <2>2
      <3>2. ~(Minor[there.node] < KEYED_MINOR)
        BY <3>1 DEF AskThere, TooOld
      <3>3. Minor[there.node] \in Nat
        BY <1>1, ConstantsAssumption
      <3>4. QED
        BY <3>2, <3>3 DEF KEYED_MINOR
    <2>3. /\ Possible(there, request.credentials, o) /\ asked' = asked
          /\ ran' = Ran(there, then, o)
      BY DEF AskThere
    <2>4. QED
      BY <1>1, <1>2, <2>1, <2>2, <2>3, RanInTheCallersSession
  <1>5. /\ UNCHANGED <<dials, signed, asked, dated>>
        /\ dated' \in Seq(Epochs) /\ RedirectsAdvance'
    BY DEF AskThere, Inductive, TypeOK, RedirectsAdvance
  <1>6. home' \in Connections
    BY <1>3 DEF AskThere, Settled, Inductive, TypeOK
  <1>7. CASE o.kind = "elsewhere"
    <2>1. /\ redirect' \in Redirects /\ hops' = hops + 1 /\ there' = None
          /\ pc' = "loop"
          /\ UNCHANGED <<request, floor, selecting, result>>
      BY <1>7 DEF AskThere, Counted
    <2>2. home' = home /\ ran' = <<>>
      BY <1>4, <1>7 DEF AskThere, Settled
    <2>3. hops \in 0 .. 2 /\ Len(dated) = hops + 1
      BY DEF AskThere, Inductive, TypeOK, Counting
    <2>4. TypeOK'
      BY <1>4, <1>5, <2>1, <2>2, <2>3 DEF Inductive, TypeOK, Stages
    <2>5. HandedOver'
      BY <1>5, <2>1, <2>2 DEF AskThere, Inductive, HandedOver
    <2>6. Redirected' /\ Arrived' /\ OnlyTheNodeNamed'
      BY <1>5, <2>1 DEF AskThere, Inductive, Redirected, Following, Arrived,
         OnlyTheNodeNamed
    <2>7. Counting'
      BY <1>5, <2>1, <2>3 DEF AskThere, Inductive, Counting
    <2>8. QED
      BY <1>4, <1>5, <2>4, <2>5, <2>6, <2>7 DEF Inductive
  <1>8. CASE o.kind # "elsewhere"
    <2>1. Finish(o.kind) /\ o.kind \in Results
      BY <1>8 DEF AskThere, Returned, Outcomes, Results
    <2>2. QED
      BY <1>4, <1>5, <1>6, <2>1, Finishing DEF Inductive
  <1>9. QED
    BY <1>7, <1>8

\* The steps that return an error without an exchange.
LEMMA GivingUpInductive ==
    ASSUME Inductive,
           RefuseHome \/ GiveUpLooping \/ GiveUpStale \/ RefuseThere
    PROVE  Inductive'
  <1>1. /\ UNCHANGED <<home, dials, signed, asked, ran, dated>>
        /\ \E what \in NothingRan : Finish(what)
    BY DEF RefuseHome, GiveUpLooping, GiveUpStale, RefuseThere, NothingRan
  <1>2. home' \in Connections
    BY <1>1 DEF Inductive, TypeOK
  <1>3. QED
    BY <1>1, <1>2, FinishingQuietly DEF Results

\* Every step.
LEMMA NextInductive == Inductive /\ [Next]_vars => Inductive'
  <1> SUFFICES ASSUME Inductive, [Next]_vars PROVE Inductive'
    OBVIOUS
  <1>1. CASE Reconnect
    BY <1>1, ReconnectInductive
  <1>2. CASE \E r \in Requests : Send(r)
    BY <1>2, SendInductive
  <1>3. CASE Step
    BY <1>3, GivingUpInductive, AskHomeInductive, AskContextInductive,
       DialInductive, ArriveInductive, SelectThereInductive, AskThereInductive
    DEF Step
  <1>4. CASE UNCHANGED vars
    BY <1>4 DEF vars, Inductive, TypeOK, HandedOver, Redirected, Following, Arrived,
       OnlyTheNodeNamed, Counting, RedirectsAdvance, RunsInTheCallersSession,
       KeysAreRead
  <1>5. QED
    BY <1>1, <1>2, <1>3, <1>4 DEF Next

-------------------------------------------------------------------------------
(* What is proved of every behaviour.                                      *)

\* The invariant the theorems below rest on.
LEMMA AlwaysInductive == Safety => []Inductive
  BY InitInductive, NextInductive, PTL DEF Safety

\* Every variable keeps its type; in particular no request hops more than three
\* times, and the tenancy selected elsewhere is made of plain names only.
THEOREM Typed == Spec => []TypeOK
  <1>1. Inductive => TypeOK
    BY DEF Inductive
  <1>2. QED
    BY <1>1, AlwaysInductive, PTL DEF Spec

\* Wherever the redirects end, a request runs under the caller's namespace and
\* database and as the caller.
THEOREM CallersSession == Spec => []RunsInTheCallersSession
  <1>1. Inductive => RunsInTheCallersSession
    BY DEF Inductive
  <1>2. QED
    BY <1>1, AlwaysInductive, PTL DEF Spec

\* A script that needs its keys runs only on a node that reads them; the names and
\* the request are sent only to the node the redirect named; and at most three
\* redirects are dialled, in the order of the leaderships.
THEOREM RedirectsChecked == Spec => []RedirectsAreChecked
  <1>1. Inductive => RedirectsAreChecked
    BY DEF Inductive, RedirectsAreChecked
  <1>2. QED
    BY <1>1, AlwaysInductive, PTL DEF Spec

-------------------------------------------------------------------------------
(* Action properties.                                                      *)

\* A step that fails while another node is asked leaves the connection alone.
LEMMA FailureStaysStep ==
    ASSUME Inductive, [Next]_vars, pc \in Following, result' # "answers"
    PROVE  home' = home
  <1>1. pc # "idle" /\ pc # "exchange" /\ pc # "context"
    BY DEF Following
  <1>2. ASSUME NEW o \in Outcomes, AskThere(o) PROVE home' = home
    <2>1. CASE o.kind = "answers"
      BY <1>2, <2>1 DEF AskThere, Returned, Finish
    <2>2. CASE o.kind # "answers"
      BY <1>2, <2>2 DEF AskThere, Settled
    <2>3. QED
      BY <2>1, <2>2
  <1>3. QED
    BY <1>1, <1>2
    DEF Next, Step, vars, Reconnect, Send, RefuseHome, AskHome, AskContext,
        GiveUpLooping, GiveUpStale, Dial, Arrive, SelectThere, RefuseThere

\* A request that fails on another node leaves the client where it was.
LEMMA FailureLeavesHome == Spec => FailureStays
  <1>1. Inductive /\ [Next]_vars =>
            [(pc \in Following /\ result' # "answers") => (home' = home)]_vars
    BY FailureStaysStep
  <1>2. QED
    BY <1>1, AlwaysInductive, PTL DEF Spec, Safety, FailureStays

\* A client moves only to the node a settled redirect named, which answered, and
\* takes with it the tenancy it had and what the request selected.
LEMMA AnswersSettle == Spec => AnswerSettles
  <1>1. ASSUME Inductive, [Next]_vars, pc = "ask", result' = "answers"
        PROVE  IF redirect.settlement = "settled"
               THEN /\ home'.node = redirect.node
                    /\ home'.tenancy = Using(home.tenancy, request.use)
               ELSE home' = home
    <2>1. result # "answers"
      BY <1>1 DEF Inductive, HandedOver
    <2>2. PICK o \in Outcomes : AskThere(o)
      BY <1>1, <2>1
      DEF Next, Step, vars, Reconnect, Send, RefuseHome, AskHome, AskContext,
          GiveUpLooping, GiveUpStale, Dial, Arrive, SelectThere, RefuseThere,
          Finish
    <2>3. o.kind = "answers"
      BY <1>1, <2>1, <2>2 DEF AskThere, Returned, Finish
    <2>4. CASE redirect.settlement = "settled"
      <3> DEFINE tenancy == Using(there.tenancy, request.use)
      <3>1. home' = After(there, request.credentials, tenancy, o)
        BY <2>2, <2>3, <2>4 DEF AskThere, Settled
      <3>2. /\ there \in Connections /\ there.tenancy = home.tenancy
            /\ there.node = redirect.node
            /\ there.tenancy \in Tenancies
            /\ request \in Requests \cup {NoRequest}
            /\ request.credentials \in Users \cup {None}
        BY <1>1, ConstantsAssumption
        DEF Inductive, TypeOK, HandedOver, Arrived, OnlyTheNodeNamed, Connections,
            Request, NoRequest
      <3>3. tenancy \in Tenancies
        BY <3>2, UsingTyped
      <3>4. o.ran
        BY <2>2, <2>3, WhoRan DEF AskThere
      <3>5. home'.node = redirect.node /\ home'.tenancy = tenancy
        BY <3>1, <3>2, <3>3, <3>4, AfterExchange
      <3>6. QED
        BY <2>4, <3>2, <3>5
    <2>5. CASE redirect.settlement # "settled"
      BY <2>2, <2>5 DEF AskThere, Settled
    <2>6. QED
      BY <2>4, <2>5
  <1>2. Inductive /\ [Next]_vars =>
            [pc = "ask" /\ result' = "answers" =>
                IF redirect.settlement = "settled"
                THEN /\ home'.node = redirect.node
                     /\ home'.tenancy = Using(home.tenancy, request.use)
                ELSE home' = home]_vars
    BY <1>1
  <1>3. QED
    BY <1>2, AlwaysInductive, PTL DEF Spec, Safety, AnswerSettles

\* The client moves exactly when it should.
THEOREM MovesSettled == Spec => MovesWhenSettled
  BY FailureLeavesHome, AnswersSettle DEF MovesWhenSettled

-------------------------------------------------------------------------------
(* The promise of OneAnswer.                                               *)

\* A step of `send` either returns, with a verdict that is right about whether
\* the request ran, or leaves the request in hand not run.
LEMMA StepShape ==
    ASSUME Inductive, Step
    PROVE  \/ \E what \in Results \ {"none"} :
                 /\ Finish(what)
                 /\ what = "answers" => Len(ran') = 1
                 /\ what \in NothingRan => ran' = ran
                 /\ Len(ran') \in {0, 1}
           \/ /\ pc' # "idle"
              /\ UNCHANGED <<ran, result>>
  <1>1. pc # "idle" /\ ran = <<>>
    BY DEF Step, RefuseHome, AskHome, AskContext, GiveUpLooping, GiveUpStale, Dial,
           Arrive, SelectThere, RefuseThere, AskThere, Inductive, HandedOver
  <1>2. ASSUME NEW what \in Results \ {"none", "answers"}, Finish(what), ran' = ran
        PROVE  \E w \in Results \ {"none"} :
                 /\ Finish(w)
                 /\ w = "answers" => Len(ran') = 1
                 /\ w \in NothingRan => ran' = ran
                 /\ Len(ran') \in {0, 1}
    BY <1>1, <1>2
  <1>3. ASSUME NEW o \in Outcomes, NEW s, ran' = (IF o.ran THEN Append(ran, s) ELSE ran),
               NEW c, NEW user, Possible(c, user, o)
        PROVE  /\ Len(ran') \in {0, 1}
               /\ o.kind = "answers" => Len(ran') = 1
               /\ o.kind = "elsewhere" => ran' = ran
    <2>1. Len(<<s>>) = 1 /\ Append(<<>>, s) = <<s>> /\ Len(<<>>) = 0
      OBVIOUS
    <2>2. QED
      BY <1>1, <1>3, <2>1, WhoRan
  <1>4. ASSUME NEW o \in Outcomes, o.kind # "elsewhere"
        PROVE  o.kind \in Results \ ({"none"} \cup NothingRan)
    BY <1>4 DEF Outcomes, Results, NothingRan
  <1>5. CASE RefuseHome \/ GiveUpLooping \/ GiveUpStale \/ RefuseThere
    BY <1>2, <1>5 DEF RefuseHome, GiveUpLooping, GiveUpStale, RefuseThere, Results,
                      NothingRan
  <1>6. ASSUME NEW o \in Outcomes, AskHome(o)
        PROVE  \/ \E what \in Results \ {"none"} :
                     /\ Finish(what)
                     /\ what = "answers" => Len(ran') = 1
                     /\ what \in NothingRan => ran' = ran
                     /\ Len(ran') \in {0, 1}
               \/ /\ pc' # "idle"
                  /\ UNCHANGED <<ran, result>>
    <2>1. /\ Len(ran') \in {0, 1}
          /\ o.kind = "answers" => Len(ran') = 1
          /\ o.kind = "elsewhere" => ran' = ran
      BY <1>3, <1>6 DEF AskHome, Ran
    <2>2. CASE o.kind = "elsewhere" /\ dials
      BY <1>6, <2>1, <2>2 DEF AskHome
    <2>3. CASE o.kind = "elsewhere" /\ ~dials
      BY <1>2, <1>6, <2>1, <2>3 DEF AskHome, Results, NothingRan
    <2>4. CASE o.kind # "elsewhere"
      BY <1>4, <1>6, <2>1, <2>4 DEF AskHome
    <2>5. QED
      BY <2>2, <2>3, <2>4
  <1>7. ASSUME NEW o \in Outcomes, AskThere(o)
        PROVE  \/ \E what \in Results \ {"none"} :
                     /\ Finish(what)
                     /\ what = "answers" => Len(ran') = 1
                     /\ what \in NothingRan => ran' = ran
                     /\ Len(ran') \in {0, 1}
               \/ /\ pc' # "idle"
                  /\ UNCHANGED <<ran, result>>
    <2>1. /\ Len(ran') \in {0, 1}
          /\ o.kind = "answers" => Len(ran') = 1
          /\ o.kind = "elsewhere" => ran' = ran
      BY <1>3, <1>7 DEF AskThere, Ran
    <2>2. CASE o.kind = "elsewhere"
      BY <1>7, <2>1, <2>2 DEF AskThere
    <2>3. CASE o.kind # "elsewhere"
      BY <1>4, <1>7, <2>1, <2>3 DEF AskThere, Returned
    <2>4. QED
      BY <2>2, <2>3
  <1>8. ASSUME NEW o \in Outcomes, AskContext(o) \/ Arrive(o) \/ SelectThere(o)
        PROVE  \/ /\ ran' = ran
                  /\ \E what \in Results \ {"none", "answers"} : Finish(what)
               \/ /\ pc' # "idle"
                  /\ UNCHANGED <<ran, result>>
    <2>1. ASSUME o.kind \notin {"answers", "elsewhere"}
          PROVE  o.kind \in Results \ {"none", "answers"}
      BY <2>1 DEF Outcomes, Results
    <2>2. {"redirected", "wrong_node", "not_followable"} \subseteq
              Results \ {"none", "answers"}
      BY DEF Results, NothingRan
    <2>3. CASE AskContext(o)
      BY <2>1, <2>2, <2>3 DEF AskContext
    <2>4. CASE Arrive(o)
      BY <2>1, <2>2, <2>4 DEF Arrive
    <2>5. CASE SelectThere(o)
      BY <2>1, <2>2, <2>5 DEF SelectThere
    <2>6. QED
      BY <1>8, <2>3, <2>4, <2>5
  <1>9. CASE Dial
    <2>1. "unreachable" \in Results \ {"none", "answers"}
      BY DEF Results, NothingRan
    <2>2. QED
      BY <1>2, <1>9, <2>1 DEF Dial
  <1>10. QED
    BY <1>2, <1>5, <1>6, <1>7, <1>8, <1>9 DEF Step

\* `send` implements what OneAnswer promises: at most one run, and a verdict
\* that is right about it.
THEOREM SendPromises == Spec => ImplementsOneAnswer
  <1>1. Init => Promise!Init
    BY DEF Init, Promise!Init, NothingRan
  <1>2. ASSUME Inductive, [Next]_vars PROVE [Promise!Next]_Promise!vars
    <2>1. CASE Reconnect \/ UNCHANGED vars
      BY <2>1 DEF Reconnect, vars, Promise!vars
    <2>2. ASSUME NEW r \in Requests, Send(r) PROVE Promise!Ask
      BY <2>2 DEF Send, Promise!Ask, NothingRan
    <2>3. CASE Step
      <3>1. pc # "idle" /\ ran = <<>> /\ result = "none"
        BY <2>3, <1>2
        DEF Step, RefuseHome, AskHome, AskContext, GiveUpLooping, GiveUpStale,
            Dial, Arrive, SelectThere, RefuseThere, AskThere, Inductive, HandedOver
      <3>2. ASSUME NEW what \in Results \ {"none"}, Finish(what),
                   what = "answers" => Len(ran') = 1,
                   what \in NothingRan => ran' = ran,
                   Len(ran') \in {0, 1}
            PROVE  Promise!Return
        BY <3>1, <3>2 DEF Finish, Promise!Return, NothingRan
      <3>3. CASE pc' # "idle" /\ UNCHANGED <<ran, result>>
        BY <3>1, <3>3 DEF Promise!vars
      <3>4. QED
        BY <1>2, <2>3, <3>2, <3>3, StepShape DEF Promise!Next
    <2>4. QED
      BY <1>2, <2>1, <2>2, <2>3 DEF Next, Promise!Next
  <1>3. QED
    BY <1>1, <1>2, AlwaysInductive, PTL
    DEF Spec, Safety, ImplementsOneAnswer, Promise!Safety
==============================================================================
