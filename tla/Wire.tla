--------------------------------- MODULE Wire ---------------------------------
(***************************************************************************)
(* One connection to a node: the greeting, the frames, the calls of a      *)
(* Client on it and the Feed it may become (wire/frame.rs, client.rs,      *)
(* feed.rs).                                                               *)
(*                                                                         *)
(* What the node sent and the client has not read is a sequence of units:  *)
(* the header of a frame, its body, or the stub of a header that broke     *)
(* off.  `read` takes a header and then its body, and each of the two      *)
(* awaits more bytes; an error between them leaves the body unread, and    *)
(* the next call on the connection then takes it for a header.  The calls  *)
(* of a client are numbered, and a reply's body says which it answers, so  *)
(* the model can tell a reply read by the wrong call.  Nothing in a frame  *)
(* says so to the client.                                                  *)
(***************************************************************************)
EXTENDS Naturals, Sequences

CONSTANTS
    Calls,       \* how often a caller asks
    Changes,     \* how many changes a feed is sent
    Minors,      \* the minors nodes greet with
    Oddities,    \* how many frames a node sends that it should not
    Reused,      \* the errors after which a caller goes on with its client
    None

Needed == [run |-> 0, keyed |-> 7, vault |-> 2, follow |-> 0, narrowed |-> 4]
Ops    == {"run", "keyed", "vault"}
Feeds  == {"follow", "narrowed"}

Kinds == {"Request", "Answer", "Refusal", "Subscribe", "Change", "Elsewhere",
          "Vault", "Progress"}

\* Kinds, and the tag of a frame this build does not have.
Tags == Kinds \cup {"unknown"}

Errors == {"refusal", "malformed", "too_old", "not_sent", "unknown_frame",
           "too_large", "truncated", "lost"}
Results == {"none", "answers", "elsewhere", "ended", "change", "progress"} \cup Errors

ASSUME ConstantsAssumption ==
    /\ Calls \in Nat /\ Changes \in Nat /\ Oddities \in Nat
    /\ Minors \subseteq Nat
    /\ Reused \subseteq Errors
    /\ None \notin Nat

VARIABLES
    inbound,     \* the units the node sent that the client has not read
    open,        \* the node's end of the connection
    owed,        \* the calls the node has read and not answered
    changes,     \* how many changes it sent on a feed
    feed,        \* whether it read a subscription
    oddities,    \* how many of Oddities it sent
    minor,       \* the minor it greeted with
    peer_minor,  \* what the client knows of it
    pc,          \* where the call under way is
    op,          \* which call it is
    calls,       \* how many were made, and so the number of this one
    kind,        \* the kind in the header just read
    finished,    \* whether the feed has ended
    result,      \* what the last call returned
    \* History, read by the properties only.
    answered,    \* the call whose reply the last call returned
    cut          \* whether the connection ended inside a frame

node   == <<inbound, open, owed, changes, feed, oddities, minor>>
client == <<peer_minor, pc, op, calls, kind, finished, result>>
vars   == <<node, client, answered, cut>>

Stages == {"new", "idle", "header", "body", "feed", "gone"}

Header(k, over)  == [unit |-> "header", kind |-> k, over |-> over]
Body(of, good)   == [unit |-> "body", of |-> of, good |-> good]
Stub             == [unit |-> "stub"]
Frame(k, of)     == <<Header(k, FALSE), Body(of, TRUE)>>

-------------------------------------------------------------------------------
(* The node.                                                               *)

\* It answers what it owes, in the order it was asked.
Reply ==
    /\ open /\ owed # <<>>
    /\ \E k \in {"Answer", "Refusal", "Elsewhere"} :
          inbound' = inbound \o Frame(k, Head(owed))
    /\ owed' = Tail(owed)
    /\ UNCHANGED <<open, changes, feed, oddities, minor, client, answered, cut>>

\* Frames this client cannot use: of a kind it lacks or does not expect, larger
\* than it reads, or with a body that does not decode.
Unusable(kinds) == [kind : {"unknown", "Vault"}, over : {FALSE}, good : {TRUE}]
                   \cup [kind : kinds, over : {TRUE}, good : {TRUE}]
                   \cup [kind : kinds, over : {FALSE}, good : {FALSE}]

Sent(f, of) == inbound' = inbound \o <<Header(f.kind, f.over), Body(of, f.good)>>

\* Such a frame for a reply, or one of a kind the client lacks that answers
\* nothing.
Odd ==
    /\ open /\ ~feed /\ oddities < Oddities
    /\ oddities' = oddities + 1
    /\ \/ /\ owed # <<>> /\ owed' = Tail(owed)
          /\ \E f \in Unusable({"Answer", "Elsewhere"}) : Sent(f, Head(owed))
       \/ /\ Sent([kind |-> "unknown", over |-> FALSE, good |-> TRUE], 0)
          /\ UNCHANGED owed
    /\ UNCHANGED <<open, changes, feed, minor, client, answered, cut>>

\* It sends a change, or says how far it read, or refuses the subscription.
Push ==
    /\ open /\ feed /\ changes < Changes
    /\ changes' = changes + 1
    /\ \/ /\ \E k \in {"Change", "Progress", "Refusal"} :
                inbound' = inbound \o Frame(k, changes')
          /\ UNCHANGED oddities
       \/ /\ oddities < Oddities /\ oddities' = oddities + 1
          /\ \E f \in Unusable({"Change", "Progress"}) : Sent(f, changes')
    /\ UNCHANGED <<open, owed, feed, minor, client, answered, cut>>

\* The connection ends; what was under way may be lost, wherever it broke off.
HangUp ==
    /\ open /\ open' = FALSE
    /\ \E n \in 0 .. Len(inbound) :
          \/ /\ inbound' = SubSeq(inbound, 1, n)
             /\ cut' = (n < Len(inbound) /\ inbound[n + 1].unit = "body")
          \/ /\ inbound' = Append(SubSeq(inbound, 1, n), Stub)
             /\ cut' = TRUE
    /\ UNCHANGED <<owed, changes, feed, oddities, minor, client, answered>>

-------------------------------------------------------------------------------
(* The client.                                                             *)

\* `connect` on a node of some minor, or `with_stream`, which knows no minor.
Init ==
    /\ inbound = <<>> /\ open = TRUE /\ owed = <<>>
    /\ changes = 0 /\ feed = FALSE /\ oddities = 0
    /\ minor \in Minors
    /\ peer_minor = None
    /\ pc \in {"new", "idle"}
    /\ op = "run" /\ calls = 0 /\ kind = "Request" /\ finished = FALSE
    /\ result = "none" /\ answered = 0 /\ cut = FALSE

Return(what, of) ==
    /\ result' = what
    /\ answered' = of
    /\ pc' = IF op \in Feeds THEN "feed" ELSE "idle"
    /\ UNCHANGED <<peer_minor, op, calls, kind, cut>>

\* `greet`: the peer's magic and its major, then its minor; or an error, and
\* there is no client.
Greet ==
    /\ pc = "new"
    /\ \/ open /\ pc' = "idle" /\ peer_minor' = minor /\ UNCHANGED result
       \/ pc' = "gone" /\ result' = "lost" /\ UNCHANGED peer_minor
    /\ UNCHANGED <<node, op, calls, kind, finished, answered, cut>>

\* Callers go on after an answer or an arrival, and after the errors in Reused.
GoesOn == result \in Reused \/ result \notin Errors
Usable == pc = "idle" /\ GoesOn

\* `requires_minor`, and the same question in `vault_frame` and `follow`.
TooOld(o) == peer_minor # None /\ peer_minor < Needed[o]

\* A call that ends before anything is sent: the node is too old for it, or the
\* frame would be larger than a peer reads.
NotSent(o) ==
    /\ Usable /\ calls < Calls
    /\ \/ TooOld(o) /\ result' = "too_old"
       \/ ~TooOld(o) /\ result' = "not_sent"
    /\ calls' = calls + 1
    /\ op' = o
    /\ answered' = 0
    /\ UNCHANGED <<node, peer_minor, pc, kind, finished, cut>>

\* The frame is written: `exchange` or `vault_frame` goes on to read its reply.
Ask(o) ==
    /\ Usable /\ calls < Calls /\ ~TooOld(o) /\ open
    /\ calls' = calls + 1
    /\ owed' = Append(owed, calls')
    /\ pc' = "header"
    /\ op' = o
    /\ result' = "none" /\ answered' = 0
    /\ UNCHANGED <<inbound, open, changes, feed, oddities, minor, peer_minor, kind,
                   finished, cut>>

\* The client becomes a feed, which reads when it is asked for the next arrival.
\* Refused or not written, the client is gone.
Follow(o) ==
    /\ Usable
    /\ op' = o
    /\ \/ /\ ~TooOld(o) /\ open
          /\ pc' = "feed" /\ feed' = TRUE
          /\ result' = "none"
       \/ /\ TooOld(o) \/ ~open
          /\ pc' = "gone" /\ result' = IF TooOld(o) THEN "too_old" ELSE "lost"
          /\ UNCHANGED feed
    /\ answered' = 0
    /\ UNCHANGED <<inbound, open, owed, changes, oddities, minor, peer_minor, calls,
                   kind, finished, cut>>

\* Faulty: a feed that ended reads on.
ReadOn == FALSE
Ended == finished

\* `Feed::next`.  A feed that ended may be asked again, whatever ended it; and one
\* whose change did not decode has not ended.
NextArrival ==
    /\ pc = "feed" /\ (finished \/ GoesOn)
    /\ IF Ended
       THEN Return("ended", answered)
       ELSE /\ pc' = "header" /\ result' = "none"
            /\ UNCHANGED <<peer_minor, op, calls, kind, answered, cut>>
    /\ UNCHANGED <<node, finished>>

\* Writing fails, or the caller drops the call it awaits, at any point of it.
Lost ==
    /\ (Usable /\ ~open) \/ pc \in {"header", "body"}
    /\ Return("lost", 0)
    /\ UNCHANGED <<node, finished>>

Take == inbound' = Tail(inbound)
NodeElse == UNCHANGED <<open, owed, changes, feed, oddities, minor>>

\* Faulty: only what broke off is an end.
BrokenOff == inbound # <<>> /\ Head(inbound) = Stub

AtEnd == IF inbound = <<>> THEN ~open ELSE Head(inbound) = Stub

\* Faulty: an end where a body should be is like one where a header should.
AnyEnd ==
    /\ pc \in {"header", "body"} /\ AtEnd
    /\ IF inbound = <<>> /\ op \in Feeds
       THEN Return("ended", 0) /\ finished' = TRUE
       ELSE Return("truncated", 0) /\ UNCHANGED finished
    /\ UNCHANGED node

\* `read` finds the end: between frames a call is cut short and a feed is over,
\* and anywhere else both are cut short.
EndOfStream ==
    /\ pc \in {"header", "body"} /\ AtEnd
    /\ IF pc = "header" /\ inbound = <<>> /\ op \in Feeds
       THEN Return("ended", 0) /\ finished' = TRUE
       ELSE Return("truncated", 0) /\ UNCHANGED finished
    /\ UNCHANGED node

\* A header as it was sent; but the bytes of a body that was left unread are
\* taken for a header too, and mean anything.
Headers(u) ==
    IF u.unit = "header" THEN {u}
    ELSE [unit : {"header"}, kind : Tags, over : BOOLEAN]

\* Faulty: a frame of a kind this build lacks is one that does not decode.
JudgedMalformed(h) == IF h.kind = "unknown" THEN "malformed"
                      ELSE IF h.over THEN "too_large" ELSE "read"

\* What `read` makes of a header: its tag is judged, then its length.
Judged(h) == IF h.kind = "unknown" THEN "unknown_frame"
             ELSE IF h.over THEN "too_large" ELSE "read"

\* `read` takes a header, and leaves the body of a frame it refuses where it is.
ReadHeader ==
    /\ pc = "header" /\ inbound # <<>> /\ Head(inbound) # Stub
    /\ \E h \in Headers(Head(inbound)) :
          \/ /\ Judged(h) # "read"
             /\ Return(Judged(h), 0)
             /\ Take
          \/ /\ Judged(h) = "read"
             /\ pc' = "body" /\ kind' = h.kind
             /\ inbound' = IF h = Head(inbound) THEN Tail(inbound) ELSE inbound
             /\ UNCHANGED <<peer_minor, op, calls, result, answered, cut>>
    /\ NodeElse /\ UNCHANGED finished

\* A redirect is followed for a request, and unknown in answer to a vault frame.
Redirects(o) == IF o = "vault" THEN {} ELSE {"Elsewhere"}

\* What `exchange` and `vault_frame` make of a frame.
Answered(good, of) ==
    \/ kind = "Answer" /\ good /\ Return("answers", of)
    \/ kind = "Refusal" /\ Return("refusal", of)
    \/ kind \in Redirects(op) /\ good /\ Return("elsewhere", of)
    \/ kind \in {"Answer"} \cup Redirects(op) /\ ~good /\ Return("malformed", of)
    \/ kind \notin {"Answer", "Refusal"} \cup Redirects(op) /\ Return("unknown_frame", 0)

\* Faulty: a change that does not decode is passed over.
PassedOver(good, of) ==
    /\ IF good THEN Return("change", of)
               ELSE pc' = "header" /\ UNCHANGED <<peer_minor, op, calls, kind, result,
                                                  answered, cut>>
    /\ UNCHANGED finished

\* What `Feed::next` makes of one.
Arrived(good, of) ==
    \/ kind = "Change" /\ good /\ Return("change", of) /\ UNCHANGED finished
    \/ kind = "Progress" /\ good /\ Return("progress", of) /\ UNCHANGED finished
    \/ kind \in {"Change", "Progress"} /\ ~good /\ Return("malformed", of)
       /\ UNCHANGED finished
    \/ kind = "Refusal" /\ Return("refusal", of) /\ finished' = TRUE
    \/ kind \notin {"Change", "Progress", "Refusal"} /\ Return("unknown_frame", 0)
       /\ finished' = TRUE

\* `read` takes the body the header announced: all of it, before it is decoded.
ReadBody ==
    /\ pc = "body" /\ inbound # <<>> /\ Head(inbound) # Stub
    /\ LET b == Head(inbound)
       IN  \E good \in (IF b.unit = "body" THEN {b.good} ELSE BOOLEAN) :
              LET of == IF b.unit = "body" THEN b.of ELSE 0
              IN  IF op \in Feeds THEN Arrived(good, of)
                                  ELSE Answered(good, of) /\ UNCHANGED finished
    /\ Take /\ NodeElse

-------------------------------------------------------------------------------
Node == Reply \/ Odd \/ Push \/ HangUp

\* What the client does by itself once a call is under way.
Reading == EndOfStream \/ ReadHeader \/ ReadBody

Next ==
    \/ Node \/ Reading
    \/ Greet
    \/ \E o \in Ops : NotSent(o) \/ Ask(o)
    \/ \E o \in Feeds : Follow(o)
    \/ NextArrival \/ Lost

Safety == Init /\ [][Next]_vars

\* Bytes that have arrived are read; and a node answers what it owes, or is
\* gone.  A feed may wait for ever: there may be nothing to tell.
Spec == Safety /\ WF_vars(Reading) /\ WF_vars(Reply)

-------------------------------------------------------------------------------
(* Properties.                                                             *)

Units == {Stub} \cup [unit : {"header"}, kind : Tags, over : BOOLEAN]
         \cup [unit : {"body"}, of : Nat, good : BOOLEAN]

\* The values of every variable, and when the node can have what it has: it owes
\* only calls that were made, and a feed that ended reads no more.
TypeOK ==
    /\ inbound \in Seq(Units)
    /\ open \in BOOLEAN /\ feed \in BOOLEAN /\ finished \in BOOLEAN
    /\ owed \in Seq(1 .. calls)
    /\ changes \in 0 .. Changes /\ oddities \in 0 .. Oddities /\ calls \in 0 .. Calls
    /\ minor \in Minors /\ peer_minor \in Minors \cup {None}
    /\ pc \in Stages /\ op \in Ops \cup Feeds /\ kind \in Kinds
    /\ result \in Results /\ answered \in Nat /\ cut \in BOOLEAN
    /\ finished => pc = "feed"

\* A reply returned to a caller is the reply to its own call.  "The connection
\* is finished rather than the frame skipped": what an unknown frame leaves on
\* the connection is never taken for the answer to a later call.
RepliesBelong ==
    result \in {"answers", "elsewhere", "refusal", "malformed"} /\ op \in Ops =>
        answered = calls

\* A feed hands over what the node sent in its order, each once and none passed
\* over, as long as its caller goes on.
FeedMissesNothing ==
    [][pc = "body" /\ op \in Feeds /\ result' \in {"change", "progress"} =>
          answered' = answered + 1]_vars

\* A feed that ends, rather than fails, ended between two frames: a subscriber that
\* stops at the errors not in Reused is never told of an orderly end when what it was
\* being sent was cut off (the `None` of `Feed::next`, and `read`'s "clean goodbye").
CutShortIsNoEnd ==
    [][~finished /\ finished' /\ result' = "ended" => ~cut]_vars

\* Every call on a connection whose node answers, or goes away, returns.
EveryCallReturns ==
    (pc \in {"header", "body"} /\ op \in Ops) ~> (pc = "idle")
==============================================================================
