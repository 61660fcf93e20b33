-------------------------------- MODULE Dialogue --------------------------------
(***************************************************************************)
(* One question of a caller, from the record of what it asks to the bytes  *)
(* of a frame, to what the node makes of them, and what the node answers   *)
(* to what the call returns (client.rs, vault.rs, feed.rs, cache.rs, over  *)
(* Messages, Query and CacheCalls).                                        *)
(*                                                                         *)
(* Wire has the order of frames on a connection, and takes a frame for its *)
(* kind; here is one frame each way, byte for byte.                        *)
(***************************************************************************)
EXTENDS Node

CONSTANTS
    Questions,   \* what callers ask
    Nodes,       \* the nodes they ask: their minor and how many of the fields
                 \* appended to records they have
    Replies,     \* for each kind of question, what nodes mean to answer
    Refusals,    \* and what they may refuse it with,
    Redirects,   \* or where they may send it
    Probes       \* bytes that a value's may be changed to

VARIABLES
    question,    \* what the caller asks
    node,        \* whom
    stage,       \* how far it is
    frame,       \* the body the client sent
    heard,       \* what the node made of it
    kind,        \* the kind of frame the node answered with
    meant,       \* what it meant to say
    reply,       \* the body it sent
    got          \* what the call returned

vars == <<question, node, stage, frame, heard, kind, meant, reply, got>>

-------------------------------------------------------------------------------
(* Asking.                                                                 *)

NeededMinor(q) ==
    CASE q.is = "follow" -> IF q.condition = <<>> THEN 0 ELSE 4
      [] q.is = "act"    -> IF q.act[1] \in {"DeclareKeyed", "ChangeKey"} THEN 7
                            ELSE IF q.act[1] = "Declare" THEN 6 ELSE 2
      [] OTHER           -> IF q.keys = <<>> THEN 0 ELSE 7

TooOld(q, minor) == minor < NeededMinor(q)

Scripted(q) == IF q.is \in CacheOps THEN CacheStatement(q) ELSE Build(q)

\* The credentials and keys of a request are words; its parameters have names.
RequestOf(q) ==
    LET built == Scripted(q)
    IN [script      |-> Spell(built.text),
        credentials |-> [i \in DOMAIN q.as |-> [name     |-> Text(q.as[i].name),
                                                password |-> Text(q.as[i].password)]],
        parameters  |-> [t \in Texts(DOMAIN built.parameters) |-> built.parameters[Words[t[1]]]],
        keys        |-> [i \in DOMAIN q.keys |->
                           [namespace |-> Text(q.keys[i].namespace),
                            database  |-> Text(q.keys[i].database),
                            vault     |-> Text(q.keys[i].vault),
                            key       |-> q.keys[i].key]]]

PlaceOf(q) ==
    [i \in DOMAIN q.place |-> [namespace |-> Text(q.place[i].namespace),
                               database  |-> Text(q.place[i].database),
                               vault     |-> Text(q.place[i].vault)]]

BodyOf(q) ==
    CASE q.is = "follow" -> EncodeFollow(q)
      [] q.is = "act"    -> VaultBody(q.act, PlaceOf(q))
      [] OTHER           -> EncodeRequest(RequestOf(q))

\* A vault's handle is made from names, which are checked then.
Unbuilt(q) ==
    CASE q.is = "follow" -> FALSE
      [] q.is = "act"    -> \E i \in DOMAIN q.place :
                               \E part \in DOMAIN q.place[i] : ~IsName(q.place[i][part])
      [] q.is \in CacheOps -> CacheRefused(q)
      [] OTHER           -> Refused(q)

NotAsked ==
    /\ stage = "asked"
    /\ \/ Unbuilt(question) /\ got' = Fault("build")
       \/ ~Unbuilt(question) /\ TooOld(question, node.minor) /\ got' = Fault("too_old")
       \/ /\ ~Unbuilt(question) /\ ~TooOld(question, node.minor)
          /\ TooLarge(BodyOf(question)) /\ got' = Fault("too_large")
    /\ stage' = "returned"
    /\ UNCHANGED <<question, node, frame, heard, kind, meant, reply>>

Ask ==
    /\ stage = "asked"
    /\ ~Unbuilt(question) /\ ~TooOld(question, node.minor) /\ ~TooLarge(BodyOf(question))
    /\ frame' = BodyOf(question)
    /\ stage' = "sent"
    /\ UNCHANGED <<question, node, heard, kind, meant, reply, got>>

-------------------------------------------------------------------------------
(* The node.                                                               *)

Hear ==
    /\ stage = "sent"
    /\ heard' = CASE question.is = "follow" -> HearFollow(frame, node.minor)
                  [] question.is = "act"    -> HearAct(frame)
                  [] OTHER                  -> HearRequest(frame, node.minor)
    /\ stage' = "heard"
    /\ UNCHANGED <<question, node, frame, kind, meant, reply, got>>

\* What was stored, as an object with the fields the node heard of.
Stored(statement) ==
    ObjectOf([f \in DOMAIN statement.fields |-> statement.fields[f]])

Outcome(o) ==
    IF o[1] = "Created"
    THEN <<"Records", [o[2] EXCEPT !.records = <<<<Text("id"), Stored(heard.got.statement)>>>>]>>
    ELSE o

ReplyBody(m) ==
    LET One(v) == AnswerBody(<<<<"Value", v, <<>>>>>>, node.fields)
    IN CASE question.is = "follow"     -> ArrivalBody(m)
         [] question.is = "act"        -> One(StatusValue(m, node.fields))
         [] question.is = "audit"      -> One(AuditValue(m))
         [] question.is = "list"       -> One(PageValue(m, node.fields))
         [] question.is = "reveal"     -> One(<<"Object", m>>)
         [] question.is = "recipients" -> One(RecipientsValue(m))
         [] question.is \in CacheOps ->
              AnswerBody(<<<<"Done">>, <<"Done">>, CacheOutcome(question.is, m)>>, node.fields)
         [] OTHER                      -> AnswerBody(m, node.fields)

Answer ==
    /\ stage = "heard" /\ heard.ok
    /\ \E m \in Replies[question.is] :
          meant' = IF question.is \in Builder THEN [i \in DOMAIN m |-> Outcome(m[i])] ELSE m
    /\ kind' = "Answer"
    /\ reply' = ReplyBody(meant')
    /\ stage' = "answered"
    /\ UNCHANGED <<question, node, frame, heard, got>>

\* What it does not read, it refuses.
Unread == [class |-> "Invalid", message |-> Text("two words")]

Refuse ==
    /\ stage = "heard"
    /\ kind' = "Refusal"
    /\ meant' \in (IF heard.ok THEN Refusals[question.is] ELSE {Unread})
    /\ reply' = RefusalBody(meant', node.minor)
    /\ stage' = "answered"
    /\ UNCHANGED <<question, node, frame, heard, got>>

Redirect ==
    /\ stage = "heard" /\ heard.ok
    /\ kind' = "Elsewhere"
    /\ meant' \in Redirects[question.is]
    /\ reply' = RedirectBody(meant')
    /\ stage' = "answered"
    /\ UNCHANGED <<question, node, frame, heard, got>>

-------------------------------------------------------------------------------
(* Reading.                                                                *)

Whole(taken) == IF taken.ok THEN Result(taken.got) ELSE taken

\* What is made of the value a call asked for.
Settled(v) ==
    CASE question.is = "act"        -> StatusOf(v)
      [] question.is = "audit"      -> AuditOf(v)
      [] question.is = "list"       -> PageOf(v)
      [] question.is = "reveal"     -> RevealedOf(v)
      [] question.is = "recipients" -> RecipientsOf(v)

\* What an arrival on a feed, and what an answer to a call, comes to.
Arrived == Whole(IF meant[1] = "Progress" THEN DecodeProgress(reply) ELSE DecodeChange(reply))
Answered ==
    Then(DecodeAnswers(reply), LAMBDA answers, rest :
           CASE question.is \in {"act", "audit", "list", "reveal", "recipients"} ->
                  Then(LastValue(answers), LAMBDA v, none : Settled(v))
             [] question.is \in CacheOps -> CacheResult(question, answers)
             [] OTHER -> Whole(Got(answers, rest)))

\* Only an exchange can be sent elsewhere.
Exchanges == question.is \notin {"follow", "act"}

Returned ==
    CASE kind = "Answer"  -> IF question.is = "follow" THEN Arrived ELSE Answered
      [] kind = "Refusal" -> DecodeRefusal(reply)
      [] OTHER            -> IF Exchanges THEN Whole(DecodeRedirect(reply)) ELSE Fault("UnknownFrame")

Read ==
    /\ stage = "answered"
    /\ got' = Returned
    /\ stage' = "returned"
    /\ UNCHANGED <<question, node, frame, heard, kind, meant, reply>>

None == <<>>

Init ==
    /\ question \in Questions /\ node \in Nodes
    /\ stage = "asked"
    /\ kind = "None"
    /\ frame = None /\ heard = None /\ meant = None /\ reply = None /\ got = None

Next == NotAsked \/ Ask \/ Hear \/ Answer \/ Refuse \/ Redirect \/ Read

Spec == Init /\ [][Next]_vars

-------------------------------------------------------------------------------
(* Properties.                                                             *)

\* How deep the deepest value inside a value is.
RECURSIVE ShapeDepth(_)
ShapeDepth(g) ==
    IF g[1] = "Collection" THEN Max({0} \cup {1 + ShapeDepth(g[2][i]) : i \in DOMAIN g[2]}) ELSE 0

RECURSIVE Depth(_)
Depth(v) ==
    LET End(b)    == IF b[1] = "Unbounded" THEN {} ELSE {Depth(b[2])}
        inside    == CASE v[1] \in {"Array", "Set", "Object"} -> {Depth(v[2][i]) : i \in DOMAIN v[2]}
                       [] v[1] = "Range"    -> End(v[2]) \cup End(v[3])
                       [] v[1] = "Geometry" -> {ShapeDepth(v[2])}
                       [] OTHER             -> {}
    IN IF inside = {} THEN 0 ELSE 1 + Max(inside)

Fits(v) == Depth(v) <= MaxDepth

\* What a cache handle's call asks: a lock is a value stored where there is none, and
\* calls that differ in what they make of the answer ask the same.
ToldOfKey(q) ==
    LET place == [namespace |-> q.namespace, database |-> q.database, space |-> q.space]
        Each(part, Of(_)) == [i \in DOMAIN part |-> Of(part[i])]
        Lasts(t)          == <<"Duration">> \o t
        Held(when)        == [is |-> "set", key |-> String(q.key), value |-> String(q.holder),
                              when |-> when, ttl |-> Each(q.ttl, Lasts)]
        Pair(p)           == <<String(p[1]), IF q.is = "scores_add" THEN Float(p[2]) ELSE p[2]>>
        ToldPart(part) ==
          CASE part = "is" -> CASE q.is \in {"hash_get_all", "members_all"} -> "get"
                                [] q.is = "list_pop_many" -> "list_pop"
                                [] q.is = "set_if"        -> "set"
                                [] OTHER                  -> q.is
            [] part \in {"key", "member", "holder"} -> String(q[part])
            [] part \in {"start", "stop"}           -> Integer(q[part])
            [] part = "by"    -> IF q.is = "scores_incr" THEN Float(q.by) ELSE Integer(q.by)
            [] part = "prefix"           -> Each(SelectSeq(q.prefix, LAMBDA p : p # <<>>), String)
            [] part = "after"            -> Each(q.after, String)
            [] part = "count"            -> Each(q.count, Integer)
            [] part \in {"low", "high"}  -> Each(q[part], Float)
            [] part = "ttl"              -> Each(q.ttl, Lasts)
            [] part = "limit"            -> ToString(q.limit)
            [] part = "values" -> CASE q.is \in {"hash_set", "scores_add"}       -> Each(q.values, Pair)
                                    [] q.is \in {"hash_remove", "scores_remove"} -> Each(q.values, String)
                                    [] OTHER                                     -> q.values
            [] OTHER -> q[part]
    IN place @@ CASE q.is = "lock"   -> Held(<<"ABSENT">>)
                  [] q.is = "extend" -> Held(<<"=", String(q.holder)>>)
                  [] OTHER -> [part \in DOMAIN q \ {"as", "keys"} |-> ToldPart(part)]

\* What a question asks of a node, without what only the client needs to know.
Told(q) ==
    CASE q.is = "follow" ->
           [from |-> q.from, table |-> q.table, cursor |-> q.cursor,
            narrow |-> [i \in DOMAIN q.condition |-> <<q.condition[i], <<"Object", q.parameters>>>>]]
      [] q.is = "act"    -> [act |-> q.act, place |-> q.place]
      [] q.is \in CacheOps -> [statement |-> ToldOfKey(q), as |-> q.as, keys |-> q.keys]
      [] OTHER ->
           [statement |->
              [part \in DOMAIN q \ {"as", "keys"} |->
                 CASE q.is = "list" /\ part = "limit"      -> [i \in DOMAIN q.limit |-> ToString(q.limit[i])]
                   [] q.is = "reveal" /\ part = "fields"   -> Sorted(q.fields)
                   [] part = "name"                        -> <<"String", q.name>>
                   [] part = "key"                         -> <<"Bytes", q.key>>
                   [] OTHER                                -> q[part]],
            as |-> q.as, keys |-> q.keys]

\* Every value of a question that goes beside its text.
Carried(q) ==
    CASE q.is = "follow" -> IF q.condition = <<>> THEN {} ELSE {<<"Object", q.parameters>>}
      [] q.is = "act"    -> {}
      [] OTHER           -> Range(Scripted(q).parameters)

\* HeardAsAsked: a node, of whatever minor, reads in what the client sends it what
\* the caller asked: the same statement with each value where it was given, under the
\* same credentials and with the same keys; the same subscription; the same act on the
\* same vault.  It refuses only values nested too deep (EncodeRequest, EncodeFollow,
\* VaultBody, the statements, the version checks).
HeardAsAsked ==
    heard # None =>
      IF \A v \in Carried(question) : Fits(v)
      THEN heard.ok /\ heard.got = Told(question)
      ELSE ~heard.ok

\* What a client of this build can know of an outcome of a node with so many of the
\* appended fields: what a node does not say is not given a value, but for notes and
\* `only`, where silence is one.
Known(o, fields) ==
    CASE o[1] = "Newer"   -> <<"Unknown">>
      [] o[1] = "Records" ->
           <<"Records", [path |-> IF o[2].path = "newer" THEN "scan" ELSE o[2].path,
                         names |-> o[2].names, records |-> o[2].records,
                         notes |-> IF fields >= 1 THEN o[2].notes ELSE <<>>,
                         only  |-> fields >= 2 /\ o[2].only,
                         exact |-> IF fields >= 3 THEN <<o[2].exact>> ELSE <<>>,
                         suggestion |-> IF fields >= 4 /\ o[2].suggestion[1] # "Newer"
                                        THEN <<o[2].suggestion>> ELSE <<>>]>>
      [] OTHER            -> o

\* The values an answer delivers, each encoded by itself.
Delivered ==
    LET InOutcome(o) == CASE o[1] = "Records" -> {r[2] : r \in ToSet(o[2].records)}
                          [] o[1] = "Value"   -> {o[2]}
                          [] OTHER            -> {}
    IN CASE kind # "Answer" -> {}
         [] question.is = "follow" ->
              IF meant[1] = "Change" /\ meant[2].became[1] = "Written"
              THEN {meant[2].became[2]} ELSE {}
         [] question.is = "act"    -> {}
         [] question.is = "audit"  -> {AuditValue(meant)}
         [] question.is = "list"   -> {PageValue(meant, node.fields)}
         [] question.is = "reveal" -> {<<"Object", meant>>}
         [] question.is = "recipients" -> {}
         [] question.is \in CacheOps -> InOutcome(CacheOutcome(question.is, meant))
         [] OTHER                  -> UNION {InOutcome(o) : o \in ToSet(meant)}

\* What a call on a key returns: a container that is not there is an empty one.
OfKeyReturned(is, m) ==
    CASE is \in Silent     -> TRUE
      [] is \in Measured   -> IF m = <<>> THEN 0 ELSE m[1]
      [] is = "delete_key" -> m # <<>>
      [] is = "keys"       -> [i \in DOMAIN m |-> m[i][2]]
      [] is \in Elements \cup Ranked \cup {"hash_get_all", "members_all"} ->
           IF m = <<>> THEN <<>> ELSE m[1]
      [] OTHER -> m

\* What a call returns for what a node means: where it is sent is not for a feed or an
\* act, and a settlement that is none is not taken for one.
Understood ==
    CASE kind = "Refusal"   -> RefusedWith(IF node.minor < ClassMinor THEN <<>> ELSE <<meant.class>>,
                                           IF IsText(meant.message) THEN meant.message ELSE Unreadable)
      [] kind = "Elsewhere" -> CASE ~Exchanges                 -> Fault("UnknownFrame")
                                 [] meant.settlement = "Newer" -> Fault("Malformed")
                                 [] OTHER                      -> Result(meant)
      [] question.is \in CacheOps -> Result(OfKeyReturned(question.is, meant))
      [] question.is \in {"follow", "act", "audit", "list", "reveal", "recipients"} -> Result(meant)
      [] OTHER -> Result([i \in DOMAIN meant |-> Known(meant[i], node.fields)])

\* AnswersAreRead: a call returns what the node meant, as far as a client of this
\* build can know it, whatever the node's age and whatever stands beside it: an outcome
\* or a suggestion the client has no word for takes nothing else along, a field an
\* older node does not have is not one with a value, and a refusal keeps its words
\* with or without a class (decode_answers, decode_one, Change::decode,
\* Progress::decode, refusal::read, Redirect::decode, the vault's and the cache's
\* readers).
AnswersAreRead ==
    stage = "returned" /\ kind # "None" =>
      IF \A v \in Delivered : Fits(v)
      THEN got = Understood
      ELSE ~got.ok

\* ValuesComeBack: the fields a caller creates a record with are the fields it is
\* given back, with the same types, numbers, names and order, or it is told that they
\* could not be sent or read; and it is told so only of what is nested too deep or too
\* long for a frame, or that the node would not (Encode, Decode, the writers' and
\* readers' parts, TooLarge).
ValuesComeBack ==
    stage = "returned" /\ question.is = "create" /\ ~Unbuilt(question)
    /\ ~(heard # None /\ heard.ok /\ kind # "Answer") =>
      LET value == ObjectOf(question.fields)
      IN IF got.ok
         THEN \A o \in ToSet(got.got) : o[1] = "Records" => o[2].records[1][2] = value
         ELSE ~Fits(value) \/ TooLarge(BodyOf(question))

\* OnlyWholeValues: a value cut short, one with a byte to spare, and one nested deeper
\* than the reader goes are refused; bytes that are changed are refused, or are those
\* of a value a node could have sent, which is read the same when written again.
OnlyWholeValues ==
    stage = "asked" /\ question.is = "create" =>
      \A v \in Range(question.fields) :
        LET bytes   == Encode(v)
            cut     == {SubSeq(bytes, 1, n) : n \in 0 .. Len(bytes) - 1}
            longer  == {Append(bytes, b) : b \in Probes}
            changed == {[bytes EXCEPT ![i] = b] : i \in DOMAIN bytes, b \in Probes}
            Again(r) == r.ok => Decode(Encode(r.got)) = r
        IN Len(bytes) <= Ceiling =>
             /\ Decode(bytes).ok <=> Fits(v)
             /\ \A b \in cut \cup longer : ~Decode(b).ok
             /\ \A b \in changed : Again(Decode(b))
==============================================================================
