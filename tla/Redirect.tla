------------------------------- MODULE Redirect -------------------------------
(***************************************************************************)
(* `Client::send` and the redirects it follows (client.rs,                 *)
(* client/follow.rs).                                                      *)
(*                                                                         *)
(* A client owns one connection, and the node at its other end keeps that  *)
(* connection's session: the namespace and database a USE selected and the *)
(* user a request signed in.  A node may answer a request with a redirect  *)
(* instead of running it; the client then dials the node named, makes sure *)
(* it is that node, selects the session's tenancy there, presents the      *)
(* session's credentials there, and asks again.                            *)
(*                                                                         *)
(* A step is one exchange with one node (the client holds `&mut self`, so  *)
(* a client has one exchange under way), and the node's part of it is left *)
(* open: it may answer, refuse, redirect anywhere under any epoch, answer  *)
(* bytes that do not decode, or be lost before or after it ran the script. *)
(* Which node listens at a redirect's address is open too.                 *)
(***************************************************************************)
EXTENDS Naturals, Sequences

CONSTANTS
    Nodes,       \* node identities
    Users,       \* names a caller may sign in as
    Accepted,    \* those the store's nodes accept
    Plain,       \* namespace and database names `plain` passes
    Quoted,      \* names it does not
    Epochs,      \* leaderships a redirect may be dated by
    Minor,       \* the protocol minor each node greets with
    Requests,    \* the requests callers send
    None         \* Rust's None: nobody, nothing selected, no connection

Words == {"NAMESPACE", "DATABASE"}
Names == Plain \cup Quoted
Tenancies == [Words -> Names \cup {None}]
Nothing == [w \in Words |-> None]

Request == [credentials : Users \cup {None},
            keyed       : BOOLEAN,
            use         : {None} \cup (Words \X Names)]

Redirects == [node       : Nodes,
              epoch      : Epochs,
              settlement : {"settled", "transient"}]

\* One connection, and the session the node at its end keeps for it.
Connections == [node    : Nodes,
                up      : BOOLEAN,
                tenancy : Tenancies,
                user    : Users \cup {None}]

ASSUME ConstantsAssumption ==
    /\ Accepted \subseteq Users
    /\ Epochs \subseteq Nat
    /\ Minor \in [Nodes -> Nat]
    /\ Requests \subseteq Request
    /\ None \notin Users \cup Names \cup Nodes \cup (Words \X Names)

\* Faulty: one redirect too many.
FourHops    == 4

\* The most redirects one request follows, and the minor that reads keys.
MOST_HOPS   == 3
KEYED_MINOR == 7

-------------------------------------------------------------------------------
VARIABLES
    home,        \* the client's own connection
    dials,       \* whether it knows how to dial (and so the minor it greeted)
    signed,      \* the credentials the client keeps to present elsewhere
    pc,          \* where `send` is
    request,     \* the request in hand
    redirect,    \* the redirect being followed
    floor,       \* the newest epoch followed
    hops,        \* how often the request was sent on
    selecting,   \* the tenancy to select on the other node
    there,       \* the connection to the other node
    result,      \* what the last send returned
    \* History, read by the properties only.
    asked,       \* the caller's session as the request was handed over
    ran,         \* the sessions that ran the request in hand
    dated        \* the epochs of the redirects dialled for it

vars == <<home, dials, signed, pc, request, redirect, floor, hops, selecting,
          there, result, asked, ran, dated>>

Stages == {"idle", "exchange", "context", "loop", "arrive", "select", "ask"}

\* The stages in which another node is being asked.
Following == {"loop", "arrive", "select", "ask"}

\* Errors that say the request was not run: it was redirected, and a redirect
\* means so, or it was not sent.
NothingRan == {"redirected", "redirect_loop", "stale_redirect", "wrong_node",
               "not_followable", "too_old"}
Results == {"none", "answers", "refusal", "garbled", "lost", "unreachable"}
           \cup NothingRan

-------------------------------------------------------------------------------
(* The nodes.                                                              *)

\* A connection just greeted: a session that has selected nothing.
Fresh(n) == [node |-> n, up |-> TRUE, tenancy |-> Nothing, user |-> None]

\* How one exchange can end, and whether the node ran the script.  A node that
\* redirects did not run it; a reply can be lost, or undecodable, either way; a
\* request too large to write is "garbled", and not run.
Outcomes == [kind : {"answers"}, ran : {TRUE}]
            \cup [kind : {"elsewhere"}, ran : {FALSE}]
            \cup [kind : {"refusal", "garbled", "lost"}, ran : BOOLEAN]

\* A closed connection only fails; unknown credentials are only refused.
Possible(c, user, o) ==
    /\ ~c.up => o = [kind |-> "lost", ran |-> FALSE]
    /\ user \notin Accepted \cup {None} =>
          o \in [kind : {"refusal", "lost"}, ran : {FALSE}]

\* The connection afterwards: credentials sign the session in before the script
\* is looked at, and a script that ran leaves the tenancy it selected.
After(c, user, tenancy, o) ==
    [c EXCEPT !.up      = c.up /\ o.kind # "lost",
              !.user    = IF user \in Accepted THEN user ELSE @,
              !.tenancy = IF o.ran THEN tenancy ELSE @]

Using(tenancy, use) ==
    IF use = None THEN tenancy ELSE [tenancy EXCEPT ![use[1]] = use[2]]

\* Faulty: the database is not selected again.
SelectedInPart(tenancy, names) ==
    [tenancy EXCEPT !["NAMESPACE"] =
        IF names["NAMESPACE"] = None THEN @ ELSE names["NAMESPACE"]]

\* What `selection` sends: the words that have a name, each replaced there.
Selected(tenancy, names) ==
    [w \in Words |-> IF names[w] = None THEN tenancy[w] ELSE names[w]]

Session(c, tenancy) == [node |-> c.node, tenancy |-> tenancy, user |-> c.user]
Sessions == [node : Nodes, tenancy : Tenancies, user : Users \cup {None}]

-------------------------------------------------------------------------------
(* The client.                                                             *)

Connect(n, d) ==
    /\ home' = Fresh(n)
    /\ dials' = d
    /\ signed' = None

NoRequest  == [credentials |-> None, keyed |-> FALSE, use |-> None]
NoRedirect == [node |-> None, epoch |-> 0, settlement |-> "transient"]

Init ==
    /\ \E n \in Nodes : home = Fresh(n)
    /\ dials \in BOOLEAN
    /\ signed = None
    /\ pc = "idle"
    /\ request = NoRequest /\ redirect = NoRedirect
    /\ floor = 0 /\ hops = 0
    /\ selecting = Nothing
    /\ there = None
    /\ result = "none"
    /\ asked = [tenancy |-> Nothing, users |-> {None}, keyed |-> FALSE]
    /\ ran = <<>>
    /\ dated = <<>>

\* `send` returns; its locals, and `followed`'s, are gone.
Finish(what) ==
    /\ pc' = "idle"
    /\ result' = what
    /\ request' = NoRequest /\ redirect' = NoRedirect
    /\ floor' = 0 /\ hops' = 0
    /\ selecting' = Nothing
    /\ there' = None

\* A caller that lost its connection makes a new client, dialled or handed in.
Reconnect ==
    /\ pc = "idle" /\ ~home.up
    /\ \E n \in Nodes, d \in BOOLEAN : Connect(n, d)
    /\ UNCHANGED <<pc, request, redirect, floor, hops, selecting, there,
                   result, asked, ran, dated>>

\* `send`: the credentials are kept before anything is sent.
Send(r) ==
    /\ pc = "idle"
    /\ pc' = "exchange"
    /\ request' = r
    /\ signed' = IF r.credentials = None THEN signed ELSE r.credentials
    /\ result' = "none"
    /\ asked' = [tenancy |-> home.tenancy,
                 users   |-> IF r.credentials = None THEN {home.user, signed}
                                                     ELSE {r.credentials},
                 keyed   |-> r.keyed /\ dials]
    /\ ran' = <<>> /\ dated' = <<>>
    /\ UNCHANGED <<home, dials, redirect, floor, hops, selecting, there>>

\* Faulty: the minor of the client's own node, whichever node is asked.
TooOldAtHome(c, minorKnown) ==
    minorKnown /\ request.keyed /\ Minor[home.node] < KEYED_MINOR

\* `requires_minor`, asked by `exchange` of a request that presents keys.
TooOld(c, minorKnown) ==
    minorKnown /\ request.keyed /\ Minor[c.node] < KEYED_MINOR

RefuseHome ==
    /\ pc = "exchange" /\ TooOld(home, dials)
    /\ Finish("too_old")
    /\ UNCHANGED <<home, dials, signed, asked, ran, dated>>

Ran(c, d, o) == IF o.ran THEN Append(ran, Session(d, c.tenancy)) ELSE ran

\* `exchange` on the client's own connection.
AskHome(o) ==
    /\ pc = "exchange" /\ ~TooOld(home, dials)
    /\ Possible(home, request.credentials, o)
    /\ home' = After(home, request.credentials,
                     Using(home.tenancy, request.use), o)
    /\ ran' = Ran(home, home', o)
    /\ \/ /\ o.kind = "elsewhere" /\ dials
          /\ pc' = "context"
          /\ redirect' \in Redirects
          /\ UNCHANGED <<request, floor, hops, selecting, there, result>>
       \/ /\ o.kind = "elsewhere" /\ ~dials
          /\ Finish("redirected")
       \/ /\ o.kind # "elsewhere"
          /\ Finish(o.kind)
    /\ UNCHANGED <<dials, signed, asked, dated>>

\* `self.context()` and `selection`: which tenancy the session has here.
AskContext(o) ==
    /\ pc = "context"
    /\ Possible(home, signed, o)
    /\ home' = After(home, signed, home.tenancy, o)
    /\ \/ /\ o.kind = "answers"
          /\ \A w \in Words : home.tenancy[w] \in Plain \cup {None}
          /\ selecting' = home.tenancy
          /\ pc' = "loop"
          /\ UNCHANGED <<request, redirect, floor, hops, there, result>>
       \/ /\ o.kind = "answers"
          /\ \E w \in Words : home.tenancy[w] \in Quoted
          /\ Finish("not_followable")
       \/ /\ o.kind = "elsewhere"
          /\ Finish("redirected")
       \/ /\ o.kind \notin {"answers", "elsewhere"}
          /\ Finish(o.kind)
    /\ UNCHANGED <<dials, signed, asked, ran, dated>>

\* Faulty: no count.
NeverCounted == hops

\* `followed`'s loop: the count of the redirects sent on, and when it gives up.

Counted == hops + 1
Looping == hops >= MOST_HOPS
Stale   == redirect.epoch < floor

GiveUpLooping ==
    /\ pc = "loop" /\ Looping
    /\ Finish("redirect_loop")
    /\ UNCHANGED <<home, dials, signed, asked, ran, dated>>

GiveUpStale ==
    /\ pc = "loop" /\ ~Looping /\ Stale
    /\ Finish("stale_redirect")
    /\ UNCHANGED <<home, dials, signed, asked, ran, dated>>

\* Dial the address of the redirect: some node answers there, or none does.
Dial ==
    /\ pc = "loop" /\ ~Looping /\ ~Stale
    /\ dated' = IF Len(dated) <= MOST_HOPS THEN Append(dated, redirect.epoch)
                                           ELSE dated
    /\ \/ /\ \E n \in Nodes : there' = Fresh(n)
          /\ floor' = redirect.epoch
          /\ pc' = "arrive"
          /\ UNCHANGED <<request, redirect, hops, selecting, result>>
       \/ Finish("unreachable")
    /\ UNCHANGED <<home, dials, signed, asked, ran>>

\* `there.context()`: the node that answered must say it is the one named; a
\* node may also not say who it is.
NodeNamed(said) == said = redirect.node

Arrive(o) ==
    /\ pc = "arrive"
    /\ Possible(there, signed, o)
    /\ \/ /\ o.kind = "answers"
          /\ NodeNamed(there.node)
          /\ there' = After(there, signed, there.tenancy, o)
          /\ pc' = IF selecting = Nothing THEN "ask" ELSE "select"
          /\ UNCHANGED <<request, redirect, floor, hops, selecting, result>>
       \/ /\ o.kind = "answers"
          /\ \E said \in {there.node, None} : ~NodeNamed(said)
          /\ Finish("wrong_node")
       \/ /\ o.kind = "elsewhere"
          /\ Finish("redirected")
       \/ /\ o.kind \notin {"answers", "elsewhere"}
          /\ Finish(o.kind)
    /\ UNCHANGED <<home, dials, signed, asked, ran, dated>>

\* The USE that selects the session's tenancy on the other node.
SelectThere(o) ==
    /\ pc = "select"
    /\ Possible(there, signed, o)
    /\ \/ /\ o.kind = "answers"
          /\ there' = After(there, signed, Selected(there.tenancy, selecting), o)
          /\ pc' = "ask"
          /\ UNCHANGED <<request, redirect, floor, hops, selecting, result>>
       \/ /\ o.kind = "elsewhere"
          /\ Finish("redirected")
       \/ /\ o.kind \notin {"answers", "elsewhere"}
          /\ Finish(o.kind)
    /\ UNCHANGED <<home, dials, signed, asked, ran, dated>>

RefuseThere ==
    /\ pc = "ask" /\ TooOld(there, TRUE)
    /\ Finish("too_old")
    /\ UNCHANGED <<home, dials, signed, asked, ran, dated>>

\* Faulty: the client moves before it has the answer.
MovedEarly(then, o) == IF redirect.settlement = "settled" THEN then ELSE home

\* The client's connection after the exchange `o` left the other one at `then`.
Settled(then, o) ==
    IF o.kind = "answers" /\ redirect.settlement = "settled" THEN then ELSE home

\* Faulty: a lost exchange is tried again.
TriedAgain(o) ==
    IF o.kind = "lost"
    THEN /\ pc' = "loop" /\ there' = None
         /\ UNCHANGED <<request, redirect, floor, hops, selecting, result>>
    ELSE Finish(o.kind)

\* An exchange that is not redirected ends the send, whatever it came to.
Returned(o) == Finish(o.kind)

\* The request on the other node.  An answer ends the send, on that connection
\* if the redirect is settled; another redirect is followed in turn.
AskThere(o) ==
    /\ pc = "ask" /\ ~TooOld(there, TRUE)
    /\ Possible(there, request.credentials, o)
    /\ LET then == After(there, request.credentials,
                         Using(there.tenancy, request.use), o)
       IN  ran' = Ran(there, then, o) /\ home' = Settled(then, o)
    /\ \/ /\ o.kind = "elsewhere"
          /\ redirect' \in Redirects
          /\ hops' = Counted
          /\ there' = None
          /\ pc' = "loop"
          /\ UNCHANGED <<request, floor, selecting, result>>
       \/ /\ o.kind # "elsewhere"
          /\ Returned(o)
    /\ UNCHANGED <<dials, signed, asked, dated>>

-------------------------------------------------------------------------------
\* What the client does by itself once a request is in hand.
Step ==
    \/ RefuseHome
    \/ \E o \in Outcomes : AskHome(o)
    \/ \E o \in Outcomes : AskContext(o)
    \/ GiveUpLooping
    \/ GiveUpStale
    \/ Dial
    \/ \E o \in Outcomes : Arrive(o)
    \/ \E o \in Outcomes : SelectThere(o)
    \/ RefuseThere
    \/ \E o \in Outcomes : AskThere(o)

Next ==
    \/ Reconnect
    \/ \E r \in Requests : Send(r)
    \/ Step

Safety == Init /\ [][Next]_vars

\* A caller awaits the future it was given, and every exchange with a node ends:
\* in a reply, or in a connection the operating system reports lost.
Spec == Safety /\ WF_vars(Step)

-------------------------------------------------------------------------------
(* Properties.                                                             *)

\* The values of every variable, and where each local of `followed` is set.
TypeOK ==
    /\ home \in Connections
    /\ dials \in BOOLEAN
    /\ signed \in Users \cup {None}
    /\ pc \in Stages
    /\ request \in Requests \cup {NoRequest}
    /\ redirect \in Redirects \cup {NoRedirect}
    /\ floor \in Epochs \cup {0}
    /\ hops \in 0 .. 3
    /\ selecting \in [Words -> Plain \cup {None}]
    /\ there \in Connections \cup {None}
    /\ result \in Results
    /\ asked \in [tenancy : Tenancies,
                  users   : SUBSET (Users \cup {None}),
                  keyed   : BOOLEAN]
    /\ ran \in Seq(Sessions)
    /\ dated \in Seq(Epochs)

\* A request runs in the caller's session wherever it runs: under the namespace
\* and database the client had selected when it was sent, and as the user it
\* carries, or else as the user that connection had or the one the client was
\* last given (client/follow.rs, `followed`).
RunsInTheCallersSession ==
    \A i \in 1 .. Len(ran) :
        /\ ran[i].tenancy = asked.tenancy
        /\ ran[i].user \in asked.users

\* A script that needs its keys never runs on a node that would read past them,
\* on whichever node the redirects end (client.rs, `exchange`).  A client handed
\* its stream does not know its node's minor and makes no such promise.
KeysAreRead ==
    \A i \in 1 .. Len(ran) :
        asked.keyed => Minor[ran[i].node] >= KEYED_MINOR

\* The other node is given the caller's names and the request only after it
\* said it is the node the redirect being followed names.
OnlyTheNodeNamed == pc \in {"select", "ask"} => there.node = redirect.node

\* No more than three redirects are dialled for a request, and the leaderships
\* that date them never go backwards.
RedirectsAdvance ==
    /\ Len(dated) <= 3
    /\ \A i, j \in 1 .. Len(dated) : i < j => dated[i] <= dated[j]

\* RedirectsAreChecked: wherever redirects send a request, it runs on a node that reads
\* all of it; nothing of it is sent before the node said it is the one named; and the
\* redirects followed are few and never go back to an older leadership (the checks of
\* `followed` and of `exchange`, each on the node asked then).
RedirectsAreChecked == KeysAreRead /\ OnlyTheNodeNamed /\ RedirectsAdvance

\* A request that fails while another node is being asked leaves the client on
\* the connection it had, with the session it had.
FailureStays ==
    [][(pc \in Following /\ result' # "answers") => (home' = home)]_vars

\* Once answered, the client is on the node that answered if the redirect
\* followed last settled it there, and where it was if not; and what the
\* request selected with USE is in force on a connection it moved to.
AnswerSettles ==
    [][pc = "ask" /\ result' = "answers" =>
          IF redirect.settlement = "settled"
          THEN /\ home'.node = redirect.node
               /\ home'.tenancy = Using(home.tenancy, request.use)
          ELSE home' = home]_vars

\* MovesWhenSettled: the client leaves its connection for another exactly when a node
\* that a settled redirect named has answered (the end of `followed`).
MovesWhenSettled == FailureStays /\ AnswerSettles

\* `send` promises what OneAnswer states: a request is run at most once, and the
\* verdict the caller gets is right about it.
Promise == INSTANCE OneAnswer WITH
    open    <- pc # "idle",
    runs    <- Len(ran),
    verdict <- IF result = "answers" THEN "answers"
               ELSE IF result \in NothingRan THEN "nothing_ran" ELSE "unsure"

ImplementsOneAnswer == Promise!Safety

\* Every send returns: redirects cannot keep a request going round.
EverySendReturns == (pc # "idle") ~> (pc = "idle")
==============================================================================
