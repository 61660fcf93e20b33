---------------------------------- MODULE Http ----------------------------------
(***************************************************************************)
(* Handles on a node's HTTP surface and the node behind them               *)
(* (http/mod.rs, http/object.rs, http/series.rs, http/reply.rs).           *)
(*                                                                         *)
(* A call is a request on a connection of its own, its answer read to the  *)
(* end, and, for the calls that may, the same again when the connection    *)
(* was lost.  The node may execute a request whose sender has given up on  *)
(* it, at any later time.  A handle presents a password or, once it holds  *)
(* one, a token; a token ends with its time, with the node, or with the    *)
(* password it was got for.                                                *)
(*                                                                         *)
(* One user, one file, and batches each handed to one call of `append`.    *)
(***************************************************************************)
EXTENDS Naturals, FiniteSets

CONSTANTS
    Handles,     \* `Operations`, and the clones buckets and series hold
    Attempts,    \* what `attempts` was given
    Passwords,
    Contents,    \* what files are written with
    Batches,     \* what series are appended
    Slots,       \* how many sessions the node holds at once
    Chunks,      \* how many writes to the sink a backup takes
    Calls,       \* how many calls are begun
    Changes,     \* how often sessions end, or the password changes elsewhere
    None

Tokens == 1 .. Calls

ASSUME ConstantsAssumption ==
    /\ Attempts \in Nat \ {0} /\ Slots \in Nat /\ Chunks \in Nat \ {0}
    /\ Calls \in Nat /\ Changes \in Nat
    /\ Passwords \cap Nat = {}
    /\ None \notin Nat \cup Passwords \cup Contents \cup Batches

VARIABLES
    \* The node.
    password,    \* the user's
    tokens,      \* the sessions it holds
    minted,      \* how many it ever opened
    file,        \* the file's content, None without one
    landed,      \* how often each batch was appended
    late,        \* requests whose senders have given up on them
    changes,     \* how many of Changes have happened
    \* The handles.
    credential,  \* the password a handle was given
    session,     \* the token it holds
    stage,       \* where its call is
    call,        \* the call it makes, or made last
    made,        \* attempts made of it
    reply,       \* the answer on its way back
    sink,        \* how much a backup wrote
    told,        \* what the step told a caller: whom, what came of the call, what it read
    \* History.
    calls,       \* how many calls were begun
    handed,      \* the batches given to a call
    seen,        \* what the file held during the handle's call
    excused      \* whether a handle cannot know that what it presents is good

node    == <<password, tokens, minted, file, landed>>
handles == <<credential, session>>
calling == <<stage, call, made, reply, sink>>
vars    == <<node, late, changes, handles, calling, told, calls, handed, seen, excused>>

Reads     == {"get"}
Writes    == {"put", "delete"}
FileCalls == Reads \cup Writes

\* Faulty: as the documentation of `attempts` has it.
ThreeExempt == {"open", "password", "backup"}

\* Calls of `exchange` and `stream_into`, which make one attempt.
Exempt == {"open", "close", "password", "append", "backup"}

Kinds == Reads \cup Writes \cup {"open", "close", "password", "append", "backup"}

ValuesOf(kind) ==
    CASE kind = "put"      -> Contents
      [] kind = "append"   -> Batches
      [] kind = "password" -> Passwords
      [] OTHER             -> {None}

Calling == UNION {[kind : {kind}, value : ValuesOf(kind)] : kind \in Kinds}

\* What a handle presents: a password to the two routes that refuse a token, and
\* its token, if it holds one, to the others.
PasswordOnly == {"open", "password"}

Presents(h, kind) ==
    IF kind \notin PasswordOnly /\ session[h] # None THEN session[h] ELSE credential[h]

Request(h) ==
    [kind |-> call[h].kind, value |-> call[h].value, presents |-> Presents(h, call[h].kind)]

Requests == UNION {[kind : {kind}, value : ValuesOf(kind),
                    presents : Passwords \cup Tokens \cup {None}] : kind \in Kinds}

\* What a call makes of an answer: the status it looks at, and what it carries.
Replies == [status : {"done", "unauthorized", "refused"},
            value : Tokens \cup Contents \cup {None}]

ASSUME NoneAssumption == None \notin Replies

Init ==
    /\ password \in Passwords /\ tokens = {} /\ minted = 0 /\ file = None
    /\ landed = [b \in Batches |-> 0] /\ late = {} /\ changes = 0
    /\ credential = [h \in Handles |-> None] /\ session = [h \in Handles |-> None]
    /\ stage = [h \in Handles |-> "idle"] /\ call = [h \in Handles |-> None]
    /\ made = [h \in Handles |-> 0] /\ reply = [h \in Handles |-> None]
    /\ told = None /\ sink = [h \in Handles |-> 0]
    /\ calls = 0 /\ handed = {} /\ seen = [h \in Handles |-> {}]
    /\ excused = [h \in Handles |-> FALSE]

-------------------------------------------------------------------------------
(* The node.                                                               *)

\* Closing a session is answered alike whatever is presented.
Known(r) ==
    \/ r.presents = password \/ r.kind = "close"
    \/ r.kind \notin PasswordOnly /\ r.presents \in tokens

\* A request is executed.
Does(r) ==
    /\ r.kind = "open" => Cardinality(tokens) < Slots
    /\ password' = IF r.kind = "password" THEN r.value ELSE password
    /\ tokens' = CASE r.kind = "password" -> {}
                   [] r.kind = "open"     -> tokens \cup {minted + 1}
                   [] r.kind = "close"    -> tokens \ {r.presents}
                   [] OTHER               -> tokens
    /\ minted' = IF r.kind = "open" THEN minted + 1 ELSE minted
    /\ file' = IF r.kind \in Writes THEN r.value ELSE file
    /\ landed' = IF r.kind = "append" THEN [landed EXCEPT ![r.value] = @ + 1] ELSE landed

\* What the answer to it carries.
Carried(r) == CASE r.kind = "open" -> minted + 1 [] r.kind = "get" -> file [] OTHER -> None

\* Whose password or token it ends.
Ended(r) ==
    CASE r.kind = "password" -> Handles
      [] r.kind = "close"    -> {h \in Handles : session[h] = r.presents}
      [] OTHER               -> {}

\* Calls on the file see what becomes of it.
See ==
    seen' = [h \in Handles |-> IF seen[h] = {} THEN {} ELSE seen[h] \cup {file'}]

Answers(h, status, value) ==
    /\ stage' = [stage EXCEPT ![h] = "answered"]
    /\ reply' = [reply EXCEPT ![h] = [status |-> status, value |-> value]]

\* The handle that changes its own password will know, if the answer comes.  A
\* request may be refused for reasons of the node's own.
Execute(h) ==
    LET r == Request(h)
    IN  /\ stage[h] = "asking"
        /\ \/ /\ Known(r) /\ Does(r) /\ Answers(h, "done", Carried(r))
              /\ excused' = [g \in Handles |-> IF g = h THEN excused[h] /\ r.kind # "password"
                                               ELSE excused[g] \/ g \in Ended(r)]
           \/ ~Known(r) /\ Answers(h, "unauthorized", None) /\ UNCHANGED <<node, excused>>
           \/ Known(r) /\ Answers(h, "refused", None) /\ UNCHANGED <<node, excused>>
        /\ See
        /\ UNCHANGED <<late, changes, handles, call, made, sink, calls, handed>>

\* Attempts of a call are alike: where there may be several, so may executions.
ExecuteLate(r) ==
    /\ r \in late
    /\ late' \in {late \ {r}} \cup (IF r.kind \in Exempt THEN {} ELSE {late})
    /\ Known(r) /\ Does(r)
    /\ excused' = [g \in Handles |-> excused[g] \/ g \in Ended(r)]
    /\ See
    /\ UNCHANGED <<changes, handles, calling, calls, handed>>

\* A session's time is over, or the node was started again.
EndSession(t) ==
    /\ t \in tokens /\ changes < Changes /\ changes' = changes + 1
    /\ tokens' = tokens \ {t}
    /\ excused' = [h \in Handles |-> \/ excused[h] \/ session[h] = t
                                     \/ reply[h] # None /\ reply[h].value = t]
    /\ UNCHANGED <<password, minted, file, landed, late, handles, calling, calls, handed, seen>>

\* The user's record is changed by somebody else.
ChangeElsewhere(p) ==
    /\ changes < Changes /\ changes' = changes + 1
    /\ password' = p /\ tokens' = {}
    /\ excused' = [h \in Handles |-> TRUE]
    /\ UNCHANGED <<minted, file, landed, late, handles, calling, calls, handed, seen>>

-------------------------------------------------------------------------------
(* The handle.                                                             *)

\* `as_user`: a session open here was somebody else's.
AsUser(h, p) ==
    /\ stage[h] = "idle"
    /\ credential' = [credential EXCEPT ![h] = p]
    /\ session' = [session EXCEPT ![h] = None]
    /\ excused' = [excused EXCEPT ![h] = p # password]
    /\ UNCHANGED <<node, late, changes, calling, calls, handed, seen>>

\* `bucket` and `series`: another handle, as this one is now.
Clone(h, g) ==
    /\ stage[h] = "idle" /\ stage[g] = "idle" /\ h # g
    /\ credential' = [credential EXCEPT ![g] = credential[h]]
    /\ session' = [session EXCEPT ![g] = session[h]]
    /\ excused' = [excused EXCEPT ![g] = excused[h]]
    /\ UNCHANGED <<node, late, changes, calling, calls, handed, seen>>

\* Faulty: a token is kept when its password is gone.
SessionKept(h, outcome) ==
    CASE call[h].kind = "close"                        -> None
      [] call[h].kind = "open" /\ outcome = "ok"       -> reply[h].value
      [] OTHER                                         -> session[h]

\* The session a handle holds when its call has ended: none after a session was
\* given back, whatever came of it, or the password it was got for was changed.
SessionAfter(h, outcome) ==
    CASE call[h].kind = "close"                        -> None
      [] call[h].kind = "password" /\ outcome = "ok"   -> None
      [] call[h].kind = "open" /\ outcome = "ok"       -> reply[h].value
      [] OTHER                                         -> session[h]

Tells(h, outcome, read) == [handle |-> h, outcome |-> outcome, read |-> read]

\* A call ends.  What came of a change of password is not known without an answer.
Finish(h, outcome, read) ==
    /\ stage' = [stage EXCEPT ![h] = "idle"]
    /\ call' = [call EXCEPT ![h] = None]
    /\ made' = [made EXCEPT ![h] = 0]
    /\ sink' = [sink EXCEPT ![h] = 0]
    /\ seen' = [seen EXCEPT ![h] = {}]
    /\ reply' = [reply EXCEPT ![h] = None]
    /\ told' = Tells(h, outcome, read)
    /\ session' = [session EXCEPT ![h] = SessionAfter(h, outcome)]
    /\ credential' = [credential EXCEPT ![h] =
                         IF call[h].kind = "password" /\ outcome = "ok" THEN call[h].value ELSE @]
    /\ excused' = [excused EXCEPT ![h] =
                      @ \/ (call[h].kind = "password" /\ outcome \in {"lost", "unread"})]

\* A call ends before anything is sent: there is no password to spend, or no session
\* to give back.
EndsAtOnce(h, c) ==
    \/ c.kind \in PasswordOnly /\ credential[h] = None
    \/ c.kind = "close" /\ session[h] = None

Begin(h, c) ==
    /\ stage[h] = "idle" /\ calls < Calls /\ calls' = calls + 1
    /\ ~EndsAtOnce(h, c)
    /\ c.kind = "append" => c.value \notin handed
    /\ handed' = IF c.kind = "append" THEN handed \cup {c.value} ELSE handed
    /\ stage' = [stage EXCEPT ![h] = "asking"]
    /\ call' = [call EXCEPT ![h] = c]
    /\ made' = [made EXCEPT ![h] = 1]
    /\ seen' = [seen EXCEPT ![h] = IF c.kind \in FileCalls THEN {file} ELSE {}]
    /\ UNCHANGED <<node, late, changes, handles, reply, sink, excused>>

BeginAndEnd(h, c) ==
    /\ stage[h] = "idle" /\ EndsAtOnce(h, c)
    /\ told' = Tells(h, IF c.kind = "close" THEN "ok" ELSE "no_credential", None)
    /\ UNCHANGED <<node, late, changes, handles, stage, call, made, reply, sink, calls, handed,
                   seen, excused>>

\* Faulty: one attempt too many.
RetriedOnceMore(h) == call[h].kind \notin Exempt /\ made[h] <= Attempts

\* Whether a call whose exchange was not completed is made again.
Retried(h) == call[h].kind \notin Exempt /\ made[h] < Attempts

\* Requests that would do something if they were executed late.
Effects(h) == {Request(h) : k \in {call[h].kind} \ (Reads \cup {"backup"})}

\* The connection is refused or lost, with the request sent or not, or ends inside
\* the answer: the call is made again, or fails.
Lose(h) ==
    /\ stage[h] # "idle"
    /\ late' \in {late} \cup (IF stage[h] = "asking" THEN {late \cup Effects(h)} ELSE {})
    /\ IF Retried(h)
         THEN /\ stage' = [stage EXCEPT ![h] = "asking"]
              /\ made' = [made EXCEPT ![h] = @ + 1]
              /\ reply' = [reply EXCEPT ![h] = None]
              /\ told' = None
              /\ UNCHANGED <<call, sink, seen, handles, excused>>
         ELSE Finish(h, "lost", None)
    /\ UNCHANGED <<node, changes, calls, handed>>

\* An answer that is not one this client reads.
Misread(h) ==
    /\ stage[h] = "answered"
    /\ Finish(h, "unread", None)
    /\ UNCHANGED <<node, late, changes, calls, handed>>

\* Faulty: a file is written whatever the node says.
AnyStatus(h) == reply[h].status = "done" \/ call[h].kind = "put"

\* The status a call insists on.
Succeeded(h) == reply[h].status = "done"

\* The answer is read, and judged.
Judge(h) ==
    /\ stage[h] = "answered"
    /\ call[h].kind = "backup" => ~Succeeded(h)
    /\ IF Succeeded(h)
         THEN Finish(h, "ok", IF call[h].kind = "get" THEN reply[h].value ELSE None)
         ELSE Finish(h, reply[h].status, None)
    /\ UNCHANGED <<node, late, changes, calls, handed>>

\* A successful body is written to the sink as it comes, and then flushed.
Copy(h) ==
    /\ stage[h] \in {"answered", "copying"}
    /\ call[h].kind = "backup" /\ Succeeded(h)
    /\ IF sink[h] < Chunks
         THEN /\ sink' = [sink EXCEPT ![h] = @ + 1]
              /\ stage' = [stage EXCEPT ![h] = "copying"]
              /\ told' = None
              /\ UNCHANGED <<call, made, reply, seen, handles, excused>>
         ELSE Finish(h, "ok", None)
    /\ UNCHANGED <<node, late, changes, calls, handed>>

-------------------------------------------------------------------------------
\* Steps that tell no caller anything.
Silent ==
    \/ \E h \in Handles :
          \/ Execute(h)
          \/ \E c \in Calling : Begin(h, c)
          \/ \E p \in Passwords : AsUser(h, p)
          \/ \E g \in Handles : Clone(h, g)
    \/ \E r \in late : ExecuteLate(r)
    \/ \E t \in tokens : EndSession(t)
    \/ \E p \in Passwords : ChangeElsewhere(p)

Next ==
    \/ Silent /\ told' = None
    \/ \E h \in Handles :
          \/ Lose(h) \/ Misread(h) \/ Judge(h) \/ Copy(h)
          \/ \E c \in Calling : BeginAndEnd(h, c)

Spec == Init /\ [][Next]_vars

-------------------------------------------------------------------------------
(* Properties.                                                             *)

\* The values of every variable; an attempt is counted while a call is made.
TypeOK ==
    /\ password \in Passwords /\ tokens \subseteq 1 .. minted /\ minted \in 0 .. Calls
    /\ Cardinality(tokens) <= Slots
    /\ file \in Contents \cup {None} /\ landed \in [Batches -> Nat]
    /\ late \subseteq Requests /\ changes \in 0 .. Changes
    /\ credential \in [Handles -> Passwords \cup {None}]
    /\ session \in [Handles -> 1 .. minted \cup {None}]
    /\ stage \in [Handles -> {"idle", "asking", "answered", "copying"}]
    /\ call \in [Handles -> Calling \cup {None}]
    /\ made \in [Handles -> 0 .. Attempts]
    /\ \A h \in Handles : stage[h] = "idle" <=> made[h] = 0
    /\ reply \in [Handles -> Replies \cup {None}]
    /\ told \in [handle : Handles,
                 outcome : {"ok", "no_credential", "unauthorized", "refused", "lost", "unread"},
                 read : Contents \cup {None}] \cup {None}
    /\ sink \in [Handles -> 0 .. Chunks]
    /\ calls \in 0 .. Calls /\ seen \in [Handles -> SUBSET (Contents \cup {None})]
    /\ excused \in [Handles -> BOOLEAN] /\ handed \subseteq Batches

Ends(h, outcome) == stage[h] # "idle" /\ told' # None /\ told'.handle = h /\ told'.outcome = outcome

\* A call on the file that succeeded tells the truth of some moment of the call: a
\* `put` was there, a `delete` left nothing there, and a `get` read what was there,
\* whatever was retried, lost or executed late.
FilesAreRegular ==
    [][\A h \in Handles :
          Ends(h, "ok") =>
              /\ call[h].kind \in Writes => call[h].value \in seen[h]
              /\ call[h].kind \in Reads => told'.read \in seen[h]]_vars

\* What may not happen twice does not: a batch lands once at most and has landed if
\* `append` says so; a backup that succeeded is one whole copy, and nothing was
\* written for one that was refused.
NothingTwice ==
    [][/\ \A b \in Batches : landed'[b] <= 1
       /\ \A h \in Handles :
             /\ Ends(h, "ok") /\ call[h].kind = "append" => landed[call[h].value] = 1
             /\ Ends(h, "ok") /\ call[h].kind = "backup" => sink[h] = Chunks
             /\ Ends(h, "unauthorized") \/ Ends(h, "refused") => sink[h] = 0]_vars

\* A handle is told that it is nobody only when somebody else's doing, the node's
\* clock or an answer that never came made what it presents stale: never by the
\* calls it made itself and saw succeed.
RefusedForCause ==
    \A h \in Handles :
        reply[h] # None /\ reply[h].status = "unauthorized" => excused[h] \/ credential[h] = None
==============================================================================
