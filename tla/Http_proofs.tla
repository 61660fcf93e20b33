------------------------------ MODULE Http_proofs ------------------------------
(* Proofs about Http. *)
EXTENDS Http, FiniteSetTheorems, TLAPS

-------------------------------------------------------------------------------
(* The invariant.                                                          *)

\* The stages of a call: what a handle keeps of one, and when an answer.
Staged ==
    \A h \in Handles :
        /\ stage[h] = "idle" => call[h] = None /\ reply[h] = None /\ seen[h] = {}
        /\ stage[h] # "idle" => call[h] \in Calling
        /\ stage[h] = "asking" => reply[h] = None
        /\ stage[h] \in {"answered", "copying"} => reply[h] \in Replies
        /\ stage[h] # "copying" => sink[h] = 0
        /\ stage[h] = "copying" => call[h].kind = "backup" /\ reply[h].status = "done"

\* The node executed the handle's call, and the handle has not read so yet.
Done(h, kinds) ==
    stage[h] = "answered" /\ call[h].kind \in kinds /\ reply[h].status = "done"

Opening   == {h \in Handles : stage[h] = "asking" /\ call[h].kind = "open"}
LateOpens == {r \in late : r.kind = "open"}

\* A session is opened at most once for each call that asks for one.
OpensAreCalls ==
    /\ IsFiniteSet(Opening) /\ IsFiniteSet(LateOpens)
    /\ minted + Cardinality(Opening) + Cardinality(LateOpens) <= calls

\* The token in an answer to `open` is a session's, and nobody has heard of it yet.
TokensAreFresh ==
    /\ \A r \in late : r.presents \in Passwords \cup 1 .. minted \cup {None}
    /\ \A h \in Handles : Done(h, {"open"}) =>
          /\ reply[h].value \in 1 .. minted
          /\ \A g \in Handles : session[g] # reply[h].value
          /\ \A g \in Handles \ {h} : Done(g, {"open"}) => reply[g].value # reply[h].value
          /\ \A r \in late : r.presents # reply[h].value

\* A call on the file has seen what the file is, and what its answer says it was.
SeesTheFile ==
    \A h \in Handles :
        /\ stage[h] # "idle" /\ call[h].kind \in FileCalls => file \in seen[h]
        /\ Done(h, Writes) => call[h].value \in seen[h]
        /\ Done(h, Reads) => reply[h].value \in seen[h]

Appends(h, b) == stage[h] = "asking" /\ call[h].kind = "append" /\ call[h].value = b
LateAppends(b) == {r \in late : r.kind = "append" /\ r.value = b}

\* A batch is in one place at most: asked for by one handle, on its way, or landed.
OnePlace ==
    \A b \in Batches :
        /\ landed[b] \in {0, 1}
        /\ b \notin handed \/ landed[b] = 1 =>
              LateAppends(b) = {} /\ \A h \in Handles : ~Appends(h, b)
        /\ b \notin handed => landed[b] = 0
        /\ \A h \in Handles : Appends(h, b) =>
              LateAppends(b) = {} /\ \A g \in Handles : Appends(g, b) => g = h
        /\ \A r, q \in LateAppends(b) : r = q
        /\ \A h \in Handles : Done(h, {"append"}) /\ call[h].value = b => landed[b] = 1

\* What a handle that is not excused presents is good: its password, but while it
\* has yet to read that it changed it, and its token, unless it has given it back.
Good ==
    \A h \in Handles : ~excused[h] =>
        /\ IF Done(h, {"password"}) THEN call[h].value = password
                                    ELSE credential[h] \in {None, password}
        /\ ~Done(h, {"password", "close"}) => session[h] \in tokens \cup {None}
        /\ Done(h, {"open"}) => reply[h].value \in tokens

Inductive ==
    /\ TypeOK
    /\ Staged
    /\ OpensAreCalls
    /\ TokensAreFresh
    /\ SeesTheFile
    /\ OnePlace
    /\ Good
    /\ RefusedForCause

-------------------------------------------------------------------------------
(* Calls and requests.                                                     *)

\* A call is of a kind, with a value of that kind.
LEMMA CallTyped ==
    ASSUME NEW c \in Calling
    PROVE  /\ c.kind \in Kinds /\ c.value \in ValuesOf(c.kind)
           /\ c.kind = "append" => c.value \in Batches
           /\ c.kind = "password" => c.value \in Passwords
           /\ c.kind \in Writes => c.value \in Contents \cup {None}
  <1>1. PICK kind \in Kinds : c \in [kind : {kind}, value : ValuesOf(kind)]
    BY DEF Calling
  <1>2. c.kind \in Kinds /\ c.value \in ValuesOf(c.kind)
    BY <1>1
  <1>3. QED
    BY <1>2 DEF ValuesOf, Writes

\* So is a request, and what it presents is a password or a token, or nothing.
LEMMA RequestTyped ==
    ASSUME NEW r \in Requests
    PROVE  /\ r.kind \in Kinds /\ r.value \in ValuesOf(r.kind)
           /\ r.presents \in Passwords \cup Tokens \cup {None}
           /\ r.kind = "append" => r.value \in Batches
           /\ r.kind = "password" => r.value \in Passwords
           /\ r.kind \in Writes => r.value \in Contents \cup {None}
  <1>1. PICK kind \in Kinds : r \in [kind : {kind}, value : ValuesOf(kind),
                                     presents : Passwords \cup Tokens \cup {None}]
    BY DEF Requests
  <1>2. /\ r.kind \in Kinds /\ r.value \in ValuesOf(r.kind)
        /\ r.presents \in Passwords \cup Tokens \cup {None}
    BY <1>1
  <1>3. QED
    BY <1>2 DEF ValuesOf, Writes

\* A session is one of the tokens.
LEMMA SessionTyped ==
    ASSUME TypeOK, NEW h \in Handles
    PROVE  /\ session[h] \in Tokens \cup {None}
           /\ session[h] # None => session[h] \in 1 .. minted
  BY ConstantsAssumption DEF TypeOK, Tokens

\* What a handle sends for its call.
LEMMA RequestMade ==
    ASSUME TypeOK, Staged, NEW h \in Handles, stage[h] # "idle"
    PROVE  /\ Request(h) \in Requests
           /\ Request(h).kind = call[h].kind /\ Request(h).value = call[h].value
           /\ Request(h).presents \in {session[h], credential[h]}
  <1>1. call[h].kind \in Kinds /\ call[h].value \in ValuesOf(call[h].kind)
    BY CallTyped DEF Staged
  <1>2. /\ Presents(h, call[h].kind) \in Passwords \cup Tokens \cup {None}
        /\ Presents(h, call[h].kind) \in {session[h], credential[h]}
    BY SessionTyped DEF TypeOK, Presents
  <1>3. Request(h) = [kind |-> call[h].kind, value |-> call[h].value,
                      presents |-> Presents(h, call[h].kind)]
    BY DEF Request
  <1>4. Request(h) \in [kind : {call[h].kind}, value : ValuesOf(call[h].kind),
                        presents : Passwords \cup Tokens \cup {None}]
    BY <1>1, <1>2, <1>3
  <1>5. Request(h) \in Requests
    BY <1>1, <1>4 DEF Requests
  <1>6. QED
    BY <1>2, <1>3, <1>5

\* The sessions a node holds are finitely many.
LEMMA TokensFinite == ASSUME TypeOK PROVE IsFiniteSet(tokens)
  <1>1. tokens \in SUBSET (1 .. minted) /\ minted \in Int
    BY ConstantsAssumption DEF TypeOK
  <1>2. IsFiniteSet(1 .. minted)
    BY <1>1, FS_Interval
  <1>3. QED
    BY <1>1, <1>2, FS_Subset

\* What the node is after a request.
LEMMA DoesTyped ==
    ASSUME TypeOK, NEW r \in Requests, Does(r), r.kind = "open" => minted < Calls
    PROVE  /\ password' \in Passwords
           /\ tokens' \subseteq 1 .. minted' /\ minted' \in 0 .. Calls
           /\ minted' = IF r.kind = "open" THEN minted + 1 ELSE minted
           /\ Cardinality(tokens') <= Slots
           /\ file' \in Contents \cup {None} /\ landed' \in [Batches -> Nat]
  <1>1. /\ tokens \subseteq 1 .. minted /\ minted \in 0 .. Calls /\ Calls \in Nat
        /\ Slots \in Nat /\ minted' = IF r.kind = "open" THEN minted + 1 ELSE minted
    BY ConstantsAssumption DEF TypeOK, Does
  <1>2. minted' \in 0 .. Calls
    BY <1>1
  <1>3. IsFiniteSet(tokens) /\ Cardinality(tokens) \in Nat /\ Cardinality(tokens) <= Slots
    BY TokensFinite, FS_CardinalityType DEF TypeOK
  <1>4. tokens' \subseteq 1 .. minted' /\ Cardinality(tokens') <= Slots
    <2>1. CASE r.kind = "open"
      <3>1. tokens' = tokens \cup {minted + 1} /\ Cardinality(tokens) < Slots
        BY <2>1 DEF Does
      <3>2. /\ IsFiniteSet(tokens \cup {minted + 1})
            /\ Cardinality(tokens \cup {minted + 1})
                = IF minted + 1 \in tokens THEN Cardinality(tokens)
                                           ELSE Cardinality(tokens) + 1
        BY <1>3, FS_AddElement
      <3>3. Cardinality(tokens') <= Slots
        BY <1>1, <1>3, <3>1, <3>2
      <3>4. QED
        BY <1>1, <2>1, <3>1, <3>3
    <2>2. CASE r.kind # "open"
      <3>1. tokens' \in SUBSET tokens /\ minted' = minted
        BY <1>1, <2>2 DEF Does
      <3>2. Cardinality(tokens') <= Cardinality(tokens) /\ Cardinality(tokens') \in Nat
        BY <1>3, <3>1, FS_Subset, FS_CardinalityType
      <3>3. QED
        BY <1>1, <1>3, <3>1, <3>2
    <2>3. QED
      BY <2>1, <2>2
  <1>5. /\ password' \in Passwords /\ file' \in Contents \cup {None}
        /\ landed' \in [Batches -> Nat]
    BY RequestTyped DEF TypeOK, Does
  <1>6. QED
    BY <1>1, <1>2, <1>4, <1>5

-------------------------------------------------------------------------------
(* The node's own steps.                                                   *)

\* A refusal for want of a good name stays excused: what excuses it is not taken
\* back, and its handle has no call but this one.
LEMMA RefusedKept ==
    ASSUME Inductive, reply' = reply, credential' = credential,
           \A h \in Handles : reply[h] # None /\ excused[h] => excused'[h]
    PROVE  RefusedForCause'
  BY DEF Inductive, RefusedForCause

\* Some of what the node held is gone: those it was good for are excused.
LEMMA LosesTokens ==
    ASSUME Inductive, told' = None,
           tokens' \in SUBSET tokens, password' \in Passwords, changes' \in 0 .. Changes,
           excused' \in [Handles -> BOOLEAN],
           \A h \in Handles : ~excused'[h] =>
               /\ ~excused[h]
               /\ password' = password
               /\ session[h] \in tokens => session[h] \in tokens'
               /\ Done(h, {"open"}) => reply[h].value \in tokens',
           UNCHANGED <<minted, file, landed, late, handles, calling, calls, handed, seen>>
    PROVE  Inductive'
  <1>1. TypeOK
    BY DEF Inductive
  <1>2. Cardinality(tokens') <= Slots
    <2>1. IsFiniteSet(tokens)
      BY <1>1, TokensFinite
    <2>2. /\ Cardinality(tokens') <= Cardinality(tokens)
          /\ Cardinality(tokens') \in Nat /\ Cardinality(tokens) \in Nat
      BY <2>1, FS_Subset, FS_CardinalityType
    <2>3. QED
      BY <1>1, <2>2, ConstantsAssumption DEF TypeOK
  <1>3. TypeOK'
    BY <1>1, <1>2 DEF TypeOK, handles, calling
  <1>4. Staged' /\ OpensAreCalls' /\ TokensAreFresh'
    BY DEF Inductive, Staged, OpensAreCalls, Opening, LateOpens, TokensAreFresh, Done,
           handles, calling
  <1>5. SeesTheFile' /\ OnePlace'
    BY DEF Inductive, SeesTheFile, OnePlace, Appends, LateAppends, Done, handles, calling
  <1>6. Good'
    BY DEF Inductive, Good, Done, handles, calling
  <1>7. RefusedForCause'
    BY <1>1, RefusedKept DEF TypeOK, handles, calling
  <1>8. QED
    BY <1>3, <1>4, <1>5, <1>6, <1>7 DEF Inductive

\* A session's time is over: its holder, and who is being told of it, are excused.
LEMMA EndSessionInductive ==
    ASSUME Inductive, NEW t \in tokens, EndSession(t), told' = None PROVE Inductive'
  <1>1. /\ changes < Changes /\ changes' = changes + 1
        /\ tokens' = tokens \ {t}
        /\ excused' = [h \in Handles |-> \/ excused[h] \/ session[h] = t
                                         \/ reply[h] # None /\ reply[h].value = t]
        /\ UNCHANGED <<password, minted, file, landed, late, handles, calling, calls,
                       handed, seen>>
    BY DEF EndSession
  <1>2. /\ excused \in [Handles -> BOOLEAN] /\ changes \in 0 .. Changes
        /\ password \in Passwords
    BY DEF Inductive, TypeOK
  <1>3. excused' \in [Handles -> BOOLEAN]
    BY <1>1
  <1>4. changes' \in 0 .. Changes
    BY <1>1, <1>2, ConstantsAssumption
  <1>5. ASSUME NEW h \in Handles, ~excused'[h]
        PROVE  /\ ~excused[h]
               /\ session[h] \in tokens => session[h] \in tokens'
               /\ Done(h, {"open"}) => reply[h].value \in tokens'
    <2>1. ~excused[h] /\ session[h] # t /\ (reply[h] # None => reply[h].value # t)
      BY <1>1, <1>5
    <2>2. ASSUME Done(h, {"open"}) PROVE reply[h].value \in tokens /\ reply[h] # None
      BY <2>1, <2>2, NoneAssumption DEF Inductive, Good, Staged, Done
    <2>3. QED
      BY <1>1, <2>1, <2>2
  <1>6. password' = password /\ password' \in Passwords /\ tokens' \in SUBSET tokens
    BY <1>1, <1>2
  <1>7. QED
    BY <1>1, <1>3, <1>4, <1>5, <1>6, LosesTokens

\* The user's record is changed by somebody else: nobody can know.
LEMMA ChangeElsewhereInductive ==
    ASSUME Inductive, NEW p \in Passwords, ChangeElsewhere(p), told' = None
    PROVE  Inductive'
  <1>1. /\ changes < Changes /\ changes' = changes + 1
        /\ password' = p /\ tokens' = {}
        /\ excused' = [h \in Handles |-> TRUE]
        /\ UNCHANGED <<minted, file, landed, late, handles, calling, calls, handed, seen>>
    BY DEF ChangeElsewhere
  <1>2. changes' \in 0 .. Changes
    BY <1>1, ConstantsAssumption DEF Inductive, TypeOK
  <1>3. excused' \in [Handles -> BOOLEAN] /\ \A h \in Handles : excused'[h]
    BY <1>1
  <1>4. tokens' \in SUBSET tokens /\ password' \in Passwords
    BY <1>1
  <1>5. QED
    BY <1>1, <1>2, <1>3, <1>4, LosesTokens

-------------------------------------------------------------------------------
(* A handle between calls.                                                 *)

\* A handle that makes no call is given what to present: good, or it is excused.
LEMMA GivenInductive ==
    ASSUME Inductive, NEW h \in Handles, stage[h] = "idle", told' = None,
           NEW c \in Passwords \cup {None}, NEW t \in 1 .. minted \cup {None}, NEW e \in BOOLEAN,
           credential' = [credential EXCEPT ![h] = c],
           session' = [session EXCEPT ![h] = t],
           excused' = [excused EXCEPT ![h] = e],
           ~e => c \in {None, password} /\ t \in tokens \cup {None},
           \A g \in Handles : Done(g, {"open"}) => t # reply[g].value,
           UNCHANGED <<node, late, changes, calling, calls, handed, seen>>
    PROVE  Inductive'
  <1>1. TypeOK
    BY DEF Inductive
  <1>2. /\ credential' \in [Handles -> Passwords \cup {None}]
        /\ session' \in [Handles -> 1 .. minted \cup {None}]
        /\ excused' \in [Handles -> BOOLEAN]
    BY <1>1 DEF TypeOK
  <1>3. TypeOK'
    BY <1>1, <1>2 DEF TypeOK, node, calling
  <1>4. Staged' /\ OpensAreCalls'
    BY DEF Inductive, Staged, OpensAreCalls, Opening, LateOpens, calling, node
  <1>5. \A g \in Handles \ {h} : /\ credential'[g] = credential[g]
                                 /\ session'[g] = session[g] /\ excused'[g] = excused[g]
    BY <1>1 DEF TypeOK
  <1>6. credential'[h] = c /\ session'[h] = t /\ excused'[h] = e
    BY <1>1 DEF TypeOK
  <1>7. TokensAreFresh'
    BY <1>5, <1>6 DEF Inductive, TokensAreFresh, Done, calling, node
  <1>8. SeesTheFile' /\ OnePlace'
    BY DEF Inductive, SeesTheFile, OnePlace, Appends, LateAppends, Done, calling, node
  <1>9. Good'
    BY <1>5, <1>6 DEF Inductive, Good, Done, calling, node
  <1>10. RefusedForCause'
    BY <1>5 DEF Inductive, Staged, RefusedForCause, calling
  <1>11. QED
    BY <1>3, <1>4, <1>7, <1>8, <1>9, <1>10 DEF Inductive

LEMMA AsUserInductive ==
    ASSUME Inductive, NEW h \in Handles, NEW p \in Passwords, AsUser(h, p), told' = None
    PROVE  Inductive'
  <1>1. ASSUME NEW g \in Handles, Done(g, {"open"}) PROVE None # reply[g].value
    BY <1>1, ConstantsAssumption DEF Inductive, TypeOK, TokensAreFresh
  <1> DEFINE e == p # password
  <1>2. /\ stage[h] = "idle" /\ e \in BOOLEAN
        /\ credential' = [credential EXCEPT ![h] = p]
        /\ session' = [session EXCEPT ![h] = None]
        /\ excused' = [excused EXCEPT ![h] = e]
        /\ ~e => p \in {None, password}
        /\ UNCHANGED <<node, late, changes, calling, calls, handed, seen>>
    BY DEF AsUser
  <1> HIDE DEF e
  <1>3. p \in Passwords \cup {None} /\ None \in 1 .. minted \cup {None}
    OBVIOUS
  <1>4. QED
    BY <1>1, <1>2, <1>3, GivenInductive

LEMMA CloneInductive ==
    ASSUME Inductive, NEW h \in Handles, NEW g \in Handles, Clone(h, g), told' = None
    PROVE  Inductive'
  <1>1. /\ stage[h] = "idle" /\ stage[g] = "idle"
        /\ credential' = [credential EXCEPT ![g] = credential[h]]
        /\ session' = [session EXCEPT ![g] = session[h]]
        /\ excused' = [excused EXCEPT ![g] = excused[h]]
        /\ UNCHANGED <<node, late, changes, calling, calls, handed, seen>>
    BY DEF Clone
  <1>2. /\ credential[h] \in Passwords \cup {None} /\ session[h] \in 1 .. minted \cup {None}
        /\ excused[h] \in BOOLEAN
    BY DEF Inductive, TypeOK
  <1>3. ~excused[h] => credential[h] \in {None, password} /\ session[h] \in tokens \cup {None}
    BY <1>1 DEF Inductive, Good, Done
  <1>4. \A f \in Handles : Done(f, {"open"}) => session[h] # reply[f].value
    BY DEF Inductive, TokensAreFresh
  <1>5. QED
    BY <1>1, <1>2, <1>3, <1>4, GivenInductive

-------------------------------------------------------------------------------
(* A call begins and ends.                                                 *)

\* A call begun is one more; a batch is handed to it that no call was given.
LEMMA BeginInductive ==
    ASSUME Inductive, NEW h \in Handles, NEW c \in Calling, Begin(h, c), told' = None
    PROVE  Inductive'
  <1>1. /\ stage[h] = "idle" /\ calls < Calls /\ calls' = calls + 1
        /\ c.kind = "append" => c.value \notin handed
        /\ handed' = IF c.kind = "append" THEN handed \cup {c.value} ELSE handed
        /\ stage' = [stage EXCEPT ![h] = "asking"]
        /\ call' = [call EXCEPT ![h] = c]
        /\ made' = [made EXCEPT ![h] = 1]
        /\ seen' = [seen EXCEPT ![h] = IF c.kind \in FileCalls THEN {file} ELSE {}]
        /\ UNCHANGED <<node, late, changes, handles, reply, sink, excused>>
    BY DEF Begin
  <1>2. /\ TypeOK /\ reply[h] = None /\ sink[h] = 0
        /\ c.kind = "append" => c.value \in Batches
    BY <1>1, CallTyped DEF Inductive, Staged
  <1>3. /\ stage'[h] = "asking" /\ call'[h] = c
        /\ \A g \in Handles \ {h} : /\ stage'[g] = stage[g] /\ call'[g] = call[g]
                                    /\ made'[g] = made[g] /\ seen'[g] = seen[g]
        /\ made'[h] = 1 /\ seen'[h] = IF c.kind \in FileCalls THEN {file} ELSE {}
    BY <1>1, <1>2 DEF TypeOK
  <1>4. TypeOK'
    <2>1. /\ calls' \in 0 .. Calls /\ handed' \subseteq Batches
          /\ seen' \in [Handles -> SUBSET (Contents \cup {None})]
          /\ stage' \in [Handles -> {"idle", "asking", "answered", "copying"}]
          /\ call' \in [Handles -> Calling \cup {None}]
      BY <1>1, <1>2, ConstantsAssumption DEF TypeOK
    <2>2. /\ made' \in [Handles -> 0 .. Attempts]
          /\ \A g \in Handles : stage'[g] = "idle" <=> made'[g] = 0
      BY <1>1, <1>2, <1>3, ConstantsAssumption DEF TypeOK
    <2>3. QED
      BY <1>1, <1>2, <2>1, <2>2 DEF TypeOK, node, handles
  <1>5. Staged'
    BY <1>1, <1>2, <1>3 DEF Inductive, Staged
  <1>6. \A kinds : \A g \in Handles : Done(g, kinds)' <=> Done(g, kinds)
    BY <1>1, <1>3 DEF Done
  <1>7. OpensAreCalls'
    <2>1. LateOpens' = LateOpens /\ minted' = minted
      BY <1>1 DEF LateOpens, node
    <2>2. /\ IsFiniteSet(Opening) /\ IsFiniteSet(LateOpens)
          /\ minted + Cardinality(Opening) + Cardinality(LateOpens) <= calls
      BY DEF Inductive, OpensAreCalls
    <2>3. /\ IsFiniteSet(Opening \cup {h})
          /\ Cardinality(Opening \cup {h})
              = IF h \in Opening THEN Cardinality(Opening) ELSE Cardinality(Opening) + 1
      BY <2>2, FS_AddElement
    <2>4. Opening' \in SUBSET (Opening \cup {h})
      BY <1>3 DEF Opening
    <2>5. /\ IsFiniteSet(Opening')
          /\ Cardinality(Opening') <= Cardinality(Opening \cup {h})
      BY <2>3, <2>4, FS_Subset
    <2>6. minted \in Nat /\ calls \in Nat
      BY <1>2, ConstantsAssumption DEF TypeOK
    <2>7. /\ Cardinality(Opening') \in Nat /\ Cardinality(Opening \cup {h}) \in Nat
          /\ Cardinality(Opening) \in Nat /\ Cardinality(LateOpens) \in Nat
      BY <2>2, <2>3, <2>5, FS_CardinalityType
    <2>8. QED
      BY <1>1, <2>1, <2>2, <2>3, <2>5, <2>6, <2>7 DEF OpensAreCalls
  <1>8. TokensAreFresh' /\ Good'
    BY <1>1, <1>3, <1>6 DEF Inductive, TokensAreFresh, Good, Done, node, handles
  <1>9. SeesTheFile'
    BY <1>1, <1>3, <1>6 DEF Inductive, SeesTheFile, Done, node, FileCalls
  <1>10. OnePlace'
    <2>1. \A b \in Batches : LateAppends(b)' = LateAppends(b)
      BY <1>1 DEF LateAppends
    <2>2. \A b \in Batches, g \in Handles :
              Appends(g, b)' <=> IF g = h THEN c.kind = "append" /\ c.value = b
                                          ELSE Appends(g, b)
      BY <1>3 DEF Appends
    <2>3. QED
      BY <1>1, <1>2, <1>3, <1>6, <2>1, <2>2 DEF Inductive, OnePlace, Done, node
  <1>11. RefusedForCause'
    BY <1>1, RefusedKept DEF handles
  <1>12. QED
    BY <1>4, <1>5, <1>7, <1>8, <1>9, <1>10, <1>11 DEF Inductive

\* A call that ends before anything is sent tells its caller so.
LEMMA BeginAndEndInductive ==
    ASSUME Inductive, NEW h \in Handles, NEW c \in Calling, BeginAndEnd(h, c)
    PROVE  Inductive'
  <1>1. /\ told' = Tells(h, IF c.kind = "close" THEN "ok" ELSE "no_credential", None)
        /\ UNCHANGED <<node, late, changes, handles, calling, calls, handed, seen, excused>>
    BY DEF BeginAndEnd, calling
  <1>2. TypeOK'
    BY <1>1 DEF Inductive, TypeOK, Tells, node, handles, calling
  <1>3. Staged' /\ OpensAreCalls' /\ TokensAreFresh' /\ SeesTheFile'
    BY <1>1 DEF Inductive, Staged, OpensAreCalls, Opening, LateOpens, TokensAreFresh,
                SeesTheFile, Done, node, handles, calling
  <1>4. OnePlace' /\ Good' /\ RefusedForCause'
    BY <1>1 DEF Inductive, OnePlace, Appends, LateAppends, Good, RefusedForCause, Done, node,
                handles, calling
  <1>5. QED
    BY <1>2, <1>3, <1>4 DEF Inductive

\* What may be left behind by a call that ends or is made again.
LeftBehind(h) == IF stage[h] = "asking" THEN Effects(h) ELSE {}

\* The request of the call and no other, asked for as the call does.
LEMMA LeftBehindIsOwn ==
    ASSUME TypeOK, Staged, NEW h \in Handles, stage[h] # "idle", NEW r \in LeftBehind(h)
    PROVE  /\ r = Request(h) /\ r \in Requests /\ stage[h] = "asking"
           /\ r.kind = call[h].kind /\ r.value = call[h].value
           /\ r.presents \in {session[h], credential[h]}
  <1>1. r = Request(h) /\ stage[h] = "asking"
    BY DEF LeftBehind, Effects
  <1>2. QED
    BY <1>1, RequestMade

\* A token nobody has heard of is in no request.
LEMMA RequestIsStale ==
    ASSUME TypeOK, Staged, TokensAreFresh, NEW h \in Handles, stage[h] # "idle"
    PROVE  /\ Request(h).presents \in Passwords \cup 1 .. minted \cup {None}
           /\ \A g \in Handles : Done(g, {"open"}) => Request(h).presents # reply[g].value
  <1>1. Request(h).presents \in {session[h], credential[h]}
    BY RequestMade
  <1>2. session[h] \in 1 .. minted \cup {None} /\ credential[h] \in Passwords \cup {None}
    BY DEF TypeOK
  <1>3. ASSUME NEW g \in Handles, Done(g, {"open"}) PROVE Request(h).presents # reply[g].value
    <2>1. reply[g].value \in 1 .. minted /\ session[h] # reply[g].value
      BY <1>3 DEF TokensAreFresh
    <2>2. reply[g].value \in Nat
      BY <2>1, ConstantsAssumption DEF TypeOK
    <2>3. QED
      BY <1>1, <1>2, <2>1, <2>2, ConstantsAssumption
  <1>4. QED
    BY <1>1, <1>2, <1>3

\* Nor in one that is left behind.
LEMMA LateIsStale ==
    ASSUME TypeOK, Staged, TokensAreFresh, NEW h \in Handles, stage[h] # "idle",
           late' \subseteq late \cup LeftBehind(h), NEW r \in late'
    PROVE  /\ r.presents \in Passwords \cup 1 .. minted \cup {None}
           /\ \A g \in Handles : Done(g, {"open"}) => r.presents # reply[g].value
  <1>1. CASE r \in late
    BY <1>1 DEF TokensAreFresh
  <1>2. CASE r \in LeftBehind(h)
    BY <1>2, LeftBehindIsOwn, RequestIsStale
  <1>3. QED
    BY <1>1, <1>2

\* A request left behind takes the place of the call.
LEMMA OpensKept ==
    ASSUME TypeOK, Staged, OpensAreCalls, NEW h \in Handles, stage[h] # "idle",
           late' \subseteq late \cup LeftBehind(h), minted' = minted, calls' = calls,
           Opening' \in SUBSET (Opening \ {h})
    PROVE  OpensAreCalls'
  <1>1. /\ IsFiniteSet(Opening) /\ IsFiniteSet(LateOpens)
        /\ minted + Cardinality(Opening) + Cardinality(LateOpens) <= calls
    BY DEF OpensAreCalls
  <1>2. /\ IsFiniteSet(Opening \ {h})
        /\ Cardinality(Opening \ {h})
            = IF h \in Opening THEN Cardinality(Opening) - 1 ELSE Cardinality(Opening)
    BY <1>1, FS_RemoveElement
  <1>3. IsFiniteSet(Opening') /\ Cardinality(Opening') <= Cardinality(Opening \ {h})
    BY <1>2, FS_Subset
  <1>4. /\ IsFiniteSet(LateOpens \cup {Request(h)})
        /\ Cardinality(LateOpens \cup {Request(h)})
            = IF Request(h) \in LateOpens THEN Cardinality(LateOpens)
                                          ELSE Cardinality(LateOpens) + 1
    BY <1>1, FS_AddElement
  <1>5. LateOpens' \in SUBSET (IF h \in Opening THEN LateOpens \cup {Request(h)} ELSE LateOpens)
    BY LeftBehindIsOwn DEF LateOpens, Opening
  <1>6. /\ IsFiniteSet(LateOpens')
        /\ Cardinality(LateOpens') <= IF h \in Opening
                                        THEN Cardinality(LateOpens \cup {Request(h)})
                                        ELSE Cardinality(LateOpens)
    BY <1>1, <1>4, <1>5, FS_Subset
  <1>7. /\ Cardinality(Opening') \in Nat /\ Cardinality(Opening \ {h}) \in Nat
        /\ Cardinality(Opening) \in Nat /\ Cardinality(LateOpens) \in Nat
        /\ Cardinality(LateOpens') \in Nat
        /\ Cardinality(LateOpens \cup {Request(h)}) \in Nat
    BY <1>1, <1>2, <1>3, <1>4, <1>6, FS_CardinalityType
  <1>8. minted \in Nat /\ calls \in Nat
    BY ConstantsAssumption DEF TypeOK
  <1>9. QED
    BY <1>1, <1>2, <1>3, <1>4, <1>6, <1>7, <1>8 DEF OpensAreCalls

\* So it does with a batch.
LEMMA PlacesKept ==
    ASSUME TypeOK, Staged, OnePlace, NEW h \in Handles, stage[h] # "idle",
           late' \subseteq late \cup LeftBehind(h), landed' = landed, handed' = handed,
           \A b \in Batches : /\ ~Appends(h, b)'
                              /\ \A g \in Handles : Appends(g, b)' => Appends(g, b),
           \A g \in Handles : Done(g, {"append"})' => Done(g, {"append"}) /\ call'[g] = call[g]
    PROVE  OnePlace'
  <1>1. ASSUME NEW b \in Batches, NEW r \in LateAppends(b)'
        PROVE  r \in LateAppends(b) \/ (Appends(h, b) /\ r = Request(h))
    BY <1>1, LeftBehindIsOwn DEF LateAppends, Appends
  <1>2. ASSUME NEW b \in Batches
        PROVE  /\ landed[b] \in {0, 1}
               /\ b \notin handed \/ landed[b] = 1 =>
                     LateAppends(b)' = {} /\ \A g \in Handles : ~Appends(g, b)'
               /\ b \notin handed => landed[b] = 0
               /\ \A g \in Handles : Appends(g, b)' =>
                     LateAppends(b)' = {} /\ \A f \in Handles : Appends(f, b)' => f = g
               /\ \A r, q \in LateAppends(b)' : r = q
               /\ \A g \in Handles : Done(g, {"append"})' /\ call'[g].value = b => landed[b] = 1
    BY <1>1 DEF OnePlace
  <1>3. QED
    BY <1>2 DEF OnePlace

\* A call that has ended, well only if its answer was, leaves its handle with what it
\* knows to be good, or excused.
LEMMA FinishInductive ==
    ASSUME Inductive, NEW h \in Handles, stage[h] # "idle",
           NEW outcome \in {"ok", "unauthorized", "refused", "lost", "unread"},
           NEW read \in Contents \cup {None}, Finish(h, outcome, read),
           late' \subseteq late \cup LeftBehind(h),
           outcome = "ok" => stage[h] \in {"answered", "copying"} /\ reply[h].status = "done",
           outcome \in {"unauthorized", "refused"} =>
               stage[h] = "answered" /\ reply[h].status # "done",
           UNCHANGED <<node, changes, calls, handed>>
    PROVE  Inductive'
  <1>1. TypeOK /\ Staged
    BY DEF Inductive
  <1>2. /\ stage' = [stage EXCEPT ![h] = "idle"]
        /\ call' = [call EXCEPT ![h] = None]
        /\ made' = [made EXCEPT ![h] = 0]
        /\ sink' = [sink EXCEPT ![h] = 0]
        /\ seen' = [seen EXCEPT ![h] = {}]
        /\ reply' = [reply EXCEPT ![h] = None]
        /\ told' = [handle |-> h, outcome |-> outcome, read |-> read]
        /\ session' = [session EXCEPT ![h] = SessionAfter(h, outcome)]
        /\ credential' = [credential EXCEPT ![h] =
                            IF call[h].kind = "password" /\ outcome = "ok" THEN call[h].value ELSE @]
        /\ excused' = [excused EXCEPT ![h] =
                         @ \/ (call[h].kind = "password" /\ outcome \in {"lost", "unread"})]
        /\ UNCHANGED <<password, tokens, minted, file, landed, changes, calls, handed>>
    BY DEF Finish, Tells, node
  <1>3. \A g \in Handles \ {h} :
            /\ stage'[g] = stage[g] /\ call'[g] = call[g] /\ made'[g] = made[g]
            /\ sink'[g] = sink[g] /\ seen'[g] = seen[g] /\ reply'[g] = reply[g]
            /\ session'[g] = session[g] /\ credential'[g] = credential[g]
            /\ excused'[g] = excused[g]
    BY <1>1, <1>2 DEF TypeOK
  <1>4. /\ stage'[h] = "idle" /\ call'[h] = None /\ made'[h] = 0 /\ sink'[h] = 0
        /\ seen'[h] = {} /\ reply'[h] = None /\ session'[h] = SessionAfter(h, outcome)
        /\ credential'[h] = IF call[h].kind = "password" /\ outcome = "ok"
                              THEN call[h].value ELSE credential[h]
    BY <1>1, <1>2 DEF TypeOK
  <1>5. excused'[h] <=> excused[h] \/ (call[h].kind = "password" /\ outcome \in {"lost", "unread"})
    BY <1>1, <1>2 DEF TypeOK
  <1>6. call[h] \in Calling /\ (call[h].kind = "password" => call[h].value \in Passwords)
    BY <1>1, CallTyped DEF Staged
  <1>7. call[h].kind \in {"open", "password", "close"} /\ outcome = "ok" => Done(h, {call[h].kind})
    BY <1>1 DEF Staged, Done
  <1>8. SessionAfter(h, outcome) \in 1 .. minted \cup {None}
    BY <1>1, <1>7 DEF Inductive, TypeOK, TokensAreFresh, SessionAfter, Done
  <1>9. TypeOK'
    <2>1. late' \subseteq Requests
      BY <1>1, LeftBehindIsOwn DEF TypeOK
    <2>2. /\ session' \in [Handles -> 1 .. minted \cup {None}]
          /\ credential' \in [Handles -> Passwords \cup {None}]
      BY <1>1, <1>2, <1>6, <1>8 DEF TypeOK
    <2>3. excused' \in [Handles -> BOOLEAN]
      BY <1>1, <1>2 DEF TypeOK
    <2>4. /\ made' \in [Handles -> 0 .. Attempts]
          /\ \A g \in Handles : stage'[g] = "idle" <=> made'[g] = 0
      BY <1>1, <1>2, <1>3, <1>4, ConstantsAssumption DEF TypeOK
    <2>5. sink' \in [Handles -> 0 .. Chunks]
      BY <1>1, <1>2, ConstantsAssumption DEF TypeOK
    <2>6. QED
      BY <1>1, <1>2, <2>1, <2>2, <2>3, <2>4, <2>5 DEF TypeOK
  <1>10. Staged'
    BY <1>1, <1>3, <1>4 DEF Staged
  <1>11. \A kinds : \A g \in Handles : Done(g, kinds)' <=> g # h /\ Done(g, kinds)
    BY <1>3, <1>4 DEF Done
  <1>12. OpensAreCalls'
    BY <1>1, <1>2, <1>3, <1>4, OpensKept DEF Inductive, Opening
  <1>13. TokensAreFresh'
    <2>1. ASSUME NEW g \in Handles, Done(g, {"open"})', NEW f \in Handles \ {g}
          PROVE  session'[f] # reply'[g].value
      <3>1. /\ g # h /\ Done(g, {"open"}) /\ reply'[g] = reply[g]
            /\ reply[g].value \in 1 .. minted /\ session[f] # reply[g].value
        BY <1>3, <1>11, <2>1 DEF Inductive, TokensAreFresh
      <3>2. CASE f # h
        BY <1>3, <3>1, <3>2
      <3>3. CASE f = h
        <4>1. CASE call[h].kind = "open" /\ outcome = "ok"
          BY <1>4, <1>7, <3>1, <3>3, <4>1 DEF Inductive, TokensAreFresh, SessionAfter
        <4>2. CASE ~(call[h].kind = "open" /\ outcome = "ok")
          <5>1. session'[h] \in {None, session[h]}
            BY <1>4, <4>2 DEF SessionAfter
          <5>2. reply[g].value # None
            BY <1>1, <3>1, ConstantsAssumption DEF TypeOK
          <5>3. QED
            BY <3>1, <3>3, <5>1, <5>2
        <4>3. QED
          BY <4>1, <4>2
      <3>4. QED
        BY <3>2, <3>3
    <2>2. \A g \in Handles : Done(g, {"open"})' => session'[g] # reply'[g].value
      BY <1>3, <1>11 DEF Inductive, TokensAreFresh
    <2>3. \A r \in late' : /\ r.presents \in Passwords \cup 1 .. minted \cup {None}
                           /\ \A g \in Handles : Done(g, {"open"}) => r.presents # reply[g].value
      BY <1>1, LateIsStale DEF Inductive
    <2>4. QED
      BY <1>2, <1>3, <1>11, <2>1, <2>2, <2>3 DEF Inductive, TokensAreFresh
  <1>14. SeesTheFile'
    BY <1>2, <1>3, <1>4, <1>11 DEF Inductive, SeesTheFile
  <1>15. OnePlace'
    BY <1>1, <1>2, <1>3, <1>4, <1>11, PlacesKept DEF Inductive, Appends
  <1>16. Good'
    <2>1. ASSUME NEW g \in Handles \ {h}, ~excused'[g]
          PROVE  /\ IF Done(g, {"password"})' THEN call'[g].value = password'
                                              ELSE credential'[g] \in {None, password'}
                 /\ ~Done(g, {"password", "close"})' => session'[g] \in tokens' \cup {None}
                 /\ Done(g, {"open"})' => reply'[g].value \in tokens'
      BY <1>2, <1>3, <1>11, <2>1 DEF Inductive, Good
    <2>2. ASSUME ~excused'[h]
          PROVE  credential'[h] \in {None, password'} /\ session'[h] \in tokens' \cup {None}
      <3>1. ~excused[h] /\ (call[h].kind = "password" /\ outcome # "ok" => ~Done(h, {"password"}))
        BY <1>5, <2>2 DEF Done
      <3>2. credential'[h] \in {None, password'}
        BY <1>2, <1>4, <1>7, <3>1 DEF Inductive, Good, Done
      <3>3. CASE call[h].kind = "close" \/ (call[h].kind = "password" /\ outcome = "ok")
        BY <1>4, <3>2, <3>3 DEF SessionAfter
      <3>4. CASE call[h].kind = "open" /\ outcome = "ok"
        BY <1>2, <1>4, <1>7, <3>1, <3>2, <3>4 DEF Inductive, Good, SessionAfter
      <3>5. CASE /\ call[h].kind # "close" /\ ~(call[h].kind = "password" /\ outcome = "ok")
                 /\ ~(call[h].kind = "open" /\ outcome = "ok")
        <4>1. session'[h] = session[h] /\ ~Done(h, {"password", "close"})
          BY <1>4, <3>1, <3>5 DEF SessionAfter, Done
        <4>2. QED
          BY <1>2, <3>1, <3>2, <4>1 DEF Inductive, Good
      <3>6. QED
        BY <3>3, <3>4, <3>5
    <2>3. QED
      BY <1>11, <2>1, <2>2 DEF Good
  <1>17. RefusedForCause'
    BY <1>3, <1>4, <1>5 DEF Inductive, RefusedForCause
  <1>18. QED
    BY <1>9, <1>10, <1>12, <1>13, <1>14, <1>15, <1>16, <1>17 DEF Inductive

\* A call made again is one on the file: it leaves what the handle presents alone.
LEMMA LoseInductive ==
    ASSUME Inductive, NEW h \in Handles, Lose(h) PROVE Inductive'
  <1>1. TypeOK /\ Staged
    BY DEF Inductive
  <1>2. /\ stage[h] # "idle" /\ late' \subseteq late \cup LeftBehind(h)
        /\ UNCHANGED <<node, changes, calls, handed>>
    BY DEF Lose, LeftBehind
  <1>3. CASE Retried(h)
    <2>1. /\ stage' = [stage EXCEPT ![h] = "asking"]
          /\ made' = [made EXCEPT ![h] = @ + 1]
          /\ reply' = [reply EXCEPT ![h] = None]
          /\ told' = None
          /\ UNCHANGED <<call, sink, seen, handles, excused>>
          /\ UNCHANGED <<password, tokens, minted, file, landed>>
      BY <1>2, <1>3 DEF Lose, node
    <2>2. /\ stage'[h] = "asking" /\ reply'[h] = None /\ made'[h] = made[h] + 1
          /\ \A g \in Handles \ {h} : /\ stage'[g] = stage[g] /\ reply'[g] = reply[g]
                                      /\ made'[g] = made[g]
      BY <1>1, <2>1 DEF TypeOK
    <2>3. /\ call[h] \in Calling /\ call[h].kind \in FileCalls /\ made[h] \in 1 .. Attempts
          /\ made[h] < Attempts
      <3>1. call[h] \in Calling /\ call[h].kind \in Kinds
        BY <1>1, <1>2, CallTyped DEF Staged
      <3>2. made[h] \in 0 .. Attempts /\ made[h] # 0
        BY <1>1, <1>2 DEF TypeOK
      <3>3. QED
        BY <1>3, <3>1, <3>2, ConstantsAssumption
        DEF Retried, Kinds, Exempt, FileCalls, Reads, Writes
    <2>4. TypeOK'
      <3>1. made' \in [Handles -> 0 .. Attempts]
        BY <1>1, <2>1, <2>3, ConstantsAssumption DEF TypeOK
      <3>2. \A g \in Handles : stage'[g] = "idle" <=> made'[g] = 0
        BY <1>1, <2>2, <2>3, ConstantsAssumption DEF TypeOK
      <3>3. late' \subseteq Requests
        BY <1>1, <1>2, LeftBehindIsOwn DEF TypeOK
      <3>4. QED
        BY <1>1, <1>2, <2>1, <3>1, <3>2, <3>3 DEF TypeOK, handles
    <2>5. Staged'
      BY <1>1, <1>2, <2>1, <2>2, <2>3 DEF Staged, FileCalls, Reads, Writes
    <2>6. \A kinds : \A g \in Handles : Done(g, kinds)' <=> g # h /\ Done(g, kinds)
      BY <2>1, <2>2 DEF Done
    <2>7. OpensAreCalls'
      <3>1. Opening' \in SUBSET (Opening \ {h})
        BY <2>1, <2>2, <2>3 DEF Opening, FileCalls, Reads, Writes
      <3>2. QED
        BY <1>1, <1>2, <2>1, <3>1, OpensKept DEF Inductive
    <2>8. TokensAreFresh'
      <3>1. \A r \in late' : /\ r.presents \in Passwords \cup 1 .. minted \cup {None}
                             /\ \A g \in Handles : Done(g, {"open"}) => r.presents # reply[g].value
        BY <1>1, <1>2, LateIsStale DEF Inductive
      <3>2. QED
        BY <2>1, <2>2, <2>6, <3>1 DEF Inductive, TokensAreFresh, handles
    <2>9. SeesTheFile'
      BY <1>2, <2>1, <2>2, <2>6 DEF Inductive, SeesTheFile
    <2>10. OnePlace'
      <3>1. \A b \in Batches : /\ ~Appends(h, b)'
                               /\ \A g \in Handles : Appends(g, b)' => Appends(g, b)
        BY <2>1, <2>2, <2>3 DEF Appends, FileCalls, Reads, Writes
      <3>2. QED
        BY <1>1, <1>2, <2>1, <2>6, <3>1, PlacesKept DEF Inductive
    <2>11. Good'
      <3>1. \A kinds \in {{"password"}, {"password", "close"}, {"open"}} : ~Done(h, kinds)
        BY <2>3 DEF Done, FileCalls, Reads, Writes
      <3>2. QED
        BY <2>1, <2>2, <2>6, <3>1 DEF Inductive, Good, handles
    <2>12. RefusedForCause'
      BY <2>1, <2>2 DEF Inductive, RefusedForCause, handles
    <2>13. QED
      BY <2>4, <2>5, <2>7, <2>8, <2>9, <2>10, <2>11, <2>12 DEF Inductive
  <1>4. CASE ~Retried(h)
    <2>1. Finish(h, "lost", None)
      BY <1>4 DEF Lose
    <2>2. QED
      BY <1>2, <2>1, FinishInductive
  <1>5. QED
    BY <1>3, <1>4

LEMMA MisreadInductive ==
    ASSUME Inductive, NEW h \in Handles, Misread(h) PROVE Inductive'
  BY FinishInductive DEF Misread

\* What a `get` tells is what the answer holds, which is what the file was.
LEMMA JudgeInductive ==
    ASSUME Inductive, NEW h \in Handles, Judge(h) PROVE Inductive'
  <1>1. /\ stage[h] = "answered" /\ reply[h] \in Replies /\ late' = late
        /\ UNCHANGED <<node, changes, calls, handed>>
    BY DEF Judge, Inductive, Staged
  <1>2. CASE Succeeded(h)
    <2> DEFINE read == IF call[h].kind = "get" THEN reply[h].value ELSE None
    <2>1. Finish(h, "ok", read) /\ reply[h].status = "done"
      BY <1>2 DEF Judge, Succeeded
    <2>2. read \in Contents \cup {None}
      <3>1. call[h].kind = "get" => Done(h, Reads)
        BY <1>1, <2>1 DEF Done, Reads
      <3>2. QED
        BY <3>1 DEF Inductive, SeesTheFile, TypeOK
    <2> HIDE DEF read
    <2>3. QED
      BY <1>1, <2>1, <2>2, FinishInductive
  <1>3. CASE ~Succeeded(h)
    <2>1. Finish(h, reply[h].status, None) /\ reply[h].status # "done"
      BY <1>3 DEF Judge, Succeeded
    <2>2. reply[h].status \in {"unauthorized", "refused"}
      BY <1>1, <2>1 DEF Replies
    <2>3. QED
      BY <1>1, <2>1, <2>2, FinishInductive
  <1>4. QED
    BY <1>2, <1>3

\* A copy under way is of one answer.
LEMMA CopyInductive ==
    ASSUME Inductive, NEW h \in Handles, Copy(h) PROVE Inductive'
  <1>1. TypeOK /\ Staged
    BY DEF Inductive
  <1>2. /\ stage[h] \in {"answered", "copying"} /\ stage[h] # "idle"
        /\ call[h].kind = "backup" /\ reply[h].status = "done" /\ late' = late
        /\ UNCHANGED <<node, changes, calls, handed>>
    BY DEF Copy, Succeeded
  <1>3. CASE sink[h] < Chunks
    <2>1. /\ sink' = [sink EXCEPT ![h] = @ + 1]
          /\ stage' = [stage EXCEPT ![h] = "copying"]
          /\ told' = None
          /\ UNCHANGED <<call, made, reply, seen, handles, excused>>
          /\ UNCHANGED <<password, tokens, minted, file, landed>>
      BY <1>2, <1>3 DEF Copy, node
    <2>2. /\ stage'[h] = "copying"
          /\ \A g \in Handles \ {h} : stage'[g] = stage[g] /\ sink'[g] = sink[g]
      BY <1>1, <2>1 DEF TypeOK
    <2>3. TypeOK'
      <3>1. sink' \in [Handles -> 0 .. Chunks]
        BY <1>1, <1>3, <2>1, ConstantsAssumption DEF TypeOK
      <3>2. stage' \in [Handles -> {"idle", "asking", "answered", "copying"}]
        BY <1>1, <2>1 DEF TypeOK
      <3>3. \A g \in Handles : stage'[g] = "idle" <=> made'[g] = 0
        BY <1>1, <1>2, <2>1, <2>2 DEF TypeOK
      <3>4. QED
        BY <1>1, <1>2, <2>1, <3>1, <3>2, <3>3 DEF TypeOK, handles
    <2>4. Staged'
      BY <1>1, <1>2, <2>1, <2>2 DEF Staged
    <2>5. \A g \in Handles : /\ (stage'[g] = "idle") = (stage[g] = "idle")
                             /\ (stage'[g] = "asking") = (stage[g] = "asking")
      BY <1>2, <2>2
    <2>6. \A kinds : "backup" \notin kinds => \A g \in Handles : Done(g, kinds)' <=> Done(g, kinds)
      BY <1>2, <2>1, <2>2 DEF Done
    <2>7. OpensAreCalls'
      <3>1. Opening' = Opening /\ LateOpens' = LateOpens
        BY <1>2, <2>1, <2>5 DEF Opening, LateOpens
      <3>2. QED
        BY <1>2, <2>1, <3>1 DEF Inductive, OpensAreCalls
    <2>8. \A g \in Handles : /\ Done(g, {"open"})' <=> Done(g, {"open"})
                             /\ Done(g, {"append"})' <=> Done(g, {"append"})
                             /\ Done(g, {"password"})' <=> Done(g, {"password"})
                             /\ Done(g, {"password", "close"})' <=> Done(g, {"password", "close"})
                             /\ Done(g, Reads)' <=> Done(g, Reads)
                             /\ Done(g, Writes)' <=> Done(g, Writes)
      BY <2>6 DEF Reads, Writes
    <2>9. TokensAreFresh' /\ Good' /\ SeesTheFile'
      BY <1>2, <2>1, <2>5, <2>8 DEF Inductive, TokensAreFresh, Good, SeesTheFile, handles
    <2>10. OnePlace'
      BY <1>2, <2>1, <2>5, <2>8 DEF Inductive, OnePlace, Appends, LateAppends
    <2>11. RefusedForCause'
      BY <2>1, RefusedKept DEF handles
    <2>12. QED
      BY <2>3, <2>4, <2>7, <2>9, <2>10, <2>11 DEF Inductive
  <1>4. CASE ~(sink[h] < Chunks)
    <2>1. Finish(h, "ok", None)
      BY <1>4 DEF Copy
    <2>2. QED
      BY <1>2, <2>1, FinishInductive
  <1>5. QED
    BY <1>3, <1>4

-------------------------------------------------------------------------------
(* A request is executed.                                                  *)

\* What the calls on the file have seen grows by what it is now.
LEMMA SeeGrows ==
    ASSUME TypeOK, See, file' \in Contents \cup {None}
    PROVE  /\ seen' \in [Handles -> SUBSET (Contents \cup {None})]
           /\ \A h \in Handles : /\ seen[h] = {} => seen'[h] = {}
                                 /\ seen[h] \subseteq seen'[h]
                                 /\ seen[h] # {} => file' \in seen'[h]
  BY DEF TypeOK, See

\* Who is not excused afterwards presents what the request did not end.
LEMMA SparesTheRest ==
    ASSUME Inductive, NEW r \in Requests, Does(r), NEW g \in Handles, ~excused[g],
           g \notin Ended(r), \A f \in Handles : Done(f, {"open"}) => r.presents # reply[f].value
    PROVE  /\ r.kind # "password" /\ password' = password
           /\ session[g] \in tokens \cup {None} => session[g] \in tokens' \cup {None}
           /\ Done(g, {"open"}) => reply[g].value \in tokens'
  <1>1. r.kind # "password" /\ (r.kind = "close" => session[g] # r.presents)
    BY DEF Ended
  <1>2. Done(g, {"open"}) => reply[g].value \in tokens
    BY DEF Inductive, Good
  <1>3. QED
    BY <1>1, <1>2 DEF Does

\* The request is answered to the handle that asked, if one did and is still there.
AnsweredTo(own, r) ==
    /\ own \in SUBSET Handles /\ \A g, h \in own : g = h
    /\ \A h \in own :
          /\ stage[h] = "asking" /\ call[h].kind = r.kind /\ call[h].value = r.value
          /\ stage'[h] = "answered"
          /\ reply'[h] = [status |-> "done", value |-> Carried(r)]
          /\ excused'[h] <=> excused[h] /\ r.kind # "password"
    /\ \A g \in Handles \ own :
          /\ stage'[g] = stage[g] /\ reply'[g] = reply[g]
          /\ excused'[g] <=> excused[g] \/ g \in Ended(r)

\* What an execution leaves of the conjuncts that say nothing of batches or of how many
\* sessions there are.
LEMMA ExecutedKeeps ==
    ASSUME Inductive, NEW r \in Requests, Does(r), See, r.kind = "open" => minted < Calls,
           late' \subseteq late, credential' = credential, session' = session, call' = call,
           r.presents \in Passwords \cup 1 .. minted \cup {None},
           \A f \in Handles : Done(f, {"open"}) => r.presents # reply[f].value,
           NEW own, AnsweredTo(own, r)
    PROVE  TokensAreFresh' /\ SeesTheFile' /\ Good' /\ RefusedForCause'
  <1> USE DEF AnsweredTo
  <1>1. TypeOK /\ Staged
    BY DEF Inductive
  <1>2. /\ minted \in Nat /\ minted' \in Nat
        /\ minted' = IF r.kind = "open" THEN minted + 1 ELSE minted
        /\ file' \in Contents \cup {None}
    BY <1>1, DoesTyped, ConstantsAssumption DEF TypeOK
  <1>3. ASSUME NEW h \in own
        PROVE  /\ \A kinds : Done(h, kinds)' <=> r.kind \in kinds
               /\ \A kinds : ~Done(h, kinds)
               /\ reply'[h].value = Carried(r)
    BY <1>3 DEF Done
  <1>4. \A g \in Handles \ own : \A kinds : Done(g, kinds)' <=> Done(g, kinds)
    BY DEF Done
  <1>5. TokensAreFresh'
    <2>1. \A q \in late' : q.presents \in Passwords \cup 1 .. minted' \cup {None}
      BY <1>2 DEF Inductive, TokensAreFresh
    <2>2. ASSUME NEW g \in Handles \ own, Done(g, {"open"})
          PROVE  /\ reply'[g] = reply[g]
                 /\ reply[g].value \in 1 .. minted /\ reply[g].value \in 1 .. minted'
                 /\ \A f \in Handles : session'[f] # reply[g].value
                 /\ \A q \in late' : q.presents # reply[g].value
                 /\ \A f \in Handles \ {g} : Done(f, {"open"}) => reply[f].value # reply[g].value
      BY <1>2, <2>2 DEF Inductive, TokensAreFresh
    <2>3. ASSUME NEW h \in own, r.kind = "open"
          PROVE  /\ reply'[h].value = minted + 1 /\ minted + 1 \in 1 .. minted'
                 /\ \A f \in Handles : session'[f] # minted + 1
                 /\ \A q \in late' : q.presents # minted + 1
      <3>1. reply'[h].value = minted + 1 /\ minted + 1 \in 1 .. minted'
        BY <1>2, <1>3, <2>3 DEF Carried
      <3>2. \A f \in Handles : session'[f] # minted + 1
        BY <1>1, <1>2, ConstantsAssumption DEF TypeOK
      <3>3. \A q \in late' : q.presents # minted + 1
        BY <1>2, ConstantsAssumption DEF Inductive, TokensAreFresh
      <3>4. QED
        BY <3>1, <3>2, <3>3
    <2>4. ASSUME NEW g \in Handles, Done(g, {"open"})'
          PROVE  /\ reply'[g].value \in 1 .. minted'
                 /\ \A f \in Handles : session'[f] # reply'[g].value
                 /\ \A f \in Handles \ {g} : Done(f, {"open"})' => reply'[f].value # reply'[g].value
                 /\ \A q \in late' : q.presents # reply'[g].value
      <3>1. CASE g \in own
        <4>1. r.kind = "open"
          BY <1>3, <2>4, <3>1
        <4>2. \A f \in Handles \ {g} : Done(f, {"open"})' => reply'[f].value \in 1 .. minted
          BY <1>4, <2>2, <3>1
        <4>3. QED
          BY <1>2, <2>3, <3>1, <4>1, <4>2
      <3>2. CASE g \notin own
        <4>1. Done(g, {"open"})
          BY <1>4, <2>4, <3>2
        <4>2. ASSUME NEW f \in Handles \ {g}, Done(f, {"open"})'
              PROVE  reply'[f].value # reply'[g].value
          <5>1. CASE f \in own
            BY <1>2, <1>3, <2>2, <2>3, <3>2, <4>1, <4>2, <5>1
          <5>2. CASE f \notin own
            BY <1>4, <2>2, <3>2, <4>1, <4>2, <5>2
          <5>3. QED
            BY <5>1, <5>2
        <4>3. QED
          BY <2>2, <3>2, <4>1, <4>2
      <3>3. QED
        BY <3>1, <3>2
    <2>5. QED
      BY <2>1, <2>4 DEF TokensAreFresh
  <1>6. SeesTheFile'
    <2>1. ASSUME NEW g \in Handles, stage'[g] # "idle", call'[g].kind \in FileCalls
          PROVE  file' \in seen'[g] /\ seen[g] \subseteq seen'[g]
      <3>1. stage[g] # "idle" /\ call[g].kind \in FileCalls
        BY <2>1
      <3>2. seen[g] # {}
        BY <3>1 DEF Inductive, SeesTheFile
      <3>3. QED
        BY <1>1, <1>2, <3>2, SeeGrows
    <2>2. ASSUME NEW g \in Handles, Done(g, Writes)' PROVE call'[g].value \in seen'[g]
      <3>1. stage'[g] # "idle" /\ call'[g].kind \in FileCalls
        BY <2>2 DEF Done, FileCalls
      <3>2. CASE g \in own
        BY <1>3, <2>1, <2>2, <3>1, <3>2 DEF Does
      <3>3. CASE g \notin own
        BY <1>4, <2>1, <2>2, <3>1, <3>3 DEF Inductive, SeesTheFile
      <3>4. QED
        BY <3>2, <3>3
    <2>3. ASSUME NEW g \in Handles, Done(g, Reads)' PROVE reply'[g].value \in seen'[g]
      <3>1. stage'[g] # "idle" /\ call'[g].kind \in FileCalls
        BY <2>3 DEF Done, FileCalls
      <3>2. CASE g \in own
        <4>1. r.kind = "get"
          BY <1>3, <2>3, <3>2 DEF Reads
        <4>2. Carried(r) = file /\ file' = file
          BY <4>1 DEF Carried, Does, Writes
        <4>3. QED
          BY <1>3, <2>1, <3>1, <3>2, <4>2
      <3>3. CASE g \notin own
        BY <1>4, <2>1, <2>3, <3>1, <3>3 DEF Inductive, SeesTheFile
      <3>4. QED
        BY <3>2, <3>3
    <2>4. QED
      BY <2>1, <2>2, <2>3 DEF SeesTheFile
  <1>7. Good'
    <2>1. ASSUME NEW g \in Handles, ~excused'[g]
          PROVE  /\ IF Done(g, {"password"})' THEN call'[g].value = password'
                                              ELSE credential'[g] \in {None, password'}
                 /\ ~Done(g, {"password", "close"})' => session'[g] \in tokens' \cup {None}
                 /\ Done(g, {"open"})' => reply'[g].value \in tokens'
      <3>1. CASE g \in own /\ r.kind = "password"
        BY <1>3, <3>1 DEF Does
      <3>2. CASE g \in own /\ r.kind # "password"
        <4>1. ~excused[g] /\ password' = password
          BY <2>1, <3>2 DEF Does
        <4>2. credential[g] \in {None, password} /\ session[g] \in tokens \cup {None}
          BY <1>3, <3>2, <4>1 DEF Inductive, Good
        <4>3. r.kind # "close" => tokens \subseteq tokens'
          BY <3>2 DEF Does
        <4>4. r.kind = "open" => Carried(r) \in tokens'
          BY DEF Does, Carried
        <4>5. QED
          BY <1>3, <3>2, <4>1, <4>2, <4>3, <4>4
      <3>3. CASE g \notin own
        <4>1. ~excused[g] /\ g \notin Ended(r) /\ reply'[g] = reply[g]
          BY <2>1, <3>3
        <4>2. /\ password' = password
              /\ session[g] \in tokens \cup {None} => session[g] \in tokens' \cup {None}
              /\ Done(g, {"open"}) => reply[g].value \in tokens'
          BY <4>1, SparesTheRest
        <4>3. /\ IF Done(g, {"password"}) THEN call[g].value = password
                                          ELSE credential[g] \in {None, password}
              /\ ~Done(g, {"password", "close"}) => session[g] \in tokens \cup {None}
          BY <4>1 DEF Inductive, Good
        <4>4. QED
          BY <1>4, <3>3, <4>1, <4>2, <4>3
      <3>4. QED
        BY <3>1, <3>2, <3>3
    <2>2. QED
      BY <2>1 DEF Good
  <1>8. RefusedForCause'
    <2>1. ASSUME NEW g \in Handles, reply'[g] # None, reply'[g].status = "unauthorized"
          PROVE  excused'[g] \/ credential'[g] = None
      <3>1. g \notin own /\ reply'[g] = reply[g]
        BY <2>1
      <3>2. QED
        BY <2>1, <3>1 DEF Inductive, RefusedForCause
    <2>2. QED
      BY <2>1 DEF RefusedForCause
  <1>9. QED
    BY <1>5, <1>6, <1>7, <1>8

\* Whoever asks to open a session, there is one more to be opened.
LEMMA OneMore ==
    ASSUME TypeOK, OpensAreCalls, Opening # {} \/ LateOpens # {} PROVE minted < Calls
  <1>1. /\ IsFiniteSet(Opening) /\ IsFiniteSet(LateOpens)
        /\ minted + Cardinality(Opening) + Cardinality(LateOpens) <= calls
    BY DEF OpensAreCalls
  <1>2. Cardinality(Opening) \in Nat /\ Cardinality(LateOpens) \in Nat
    BY <1>1, FS_CardinalityType
  <1>3. Cardinality(Opening) # 0 \/ Cardinality(LateOpens) # 0
    BY <1>1, FS_EmptySet
  <1>4. minted \in Nat /\ calls \in Nat /\ calls <= Calls
    BY ConstantsAssumption DEF TypeOK
  <1>5. QED
    BY <1>1, <1>2, <1>3, <1>4, ConstantsAssumption

\* A handle is refused as nobody only when what it presents is not good.
LEMMA RefusalInductive ==
    ASSUME Inductive, NEW h \in Handles, stage[h] = "asking", told' = None,
           NEW status \in {"unauthorized", "refused"}, Answers(h, status, None), See,
           status = "unauthorized" => ~Known(Request(h)),
           UNCHANGED <<node, late, changes, handles, call, made, sink, calls, handed, excused>>
    PROVE  Inductive'
  <1>1. TypeOK /\ Staged
    BY DEF Inductive
  <1>2. UNCHANGED <<password, tokens, minted, file, landed, credential, session>>
    BY DEF node, handles
  <1>3. /\ stage'[h] = "answered" /\ reply'[h] = [status |-> status, value |-> None]
        /\ stage' = [stage EXCEPT ![h] = "answered"]
        /\ reply' = [reply EXCEPT ![h] = [status |-> status, value |-> None]]
        /\ \A g \in Handles \ {h} : stage'[g] = stage[g] /\ reply'[g] = reply[g]
    BY <1>1 DEF TypeOK, Answers
  <1>4. reply'[h] \in Replies /\ reply'[h].status = status /\ status # "done"
    BY <1>3 DEF Replies
  <1>5. file' \in Contents \cup {None}
    BY <1>1, <1>2 DEF TypeOK
  <1>6. /\ seen' \in [Handles -> SUBSET (Contents \cup {None})]
        /\ \A g \in Handles : /\ seen[g] = {} => seen'[g] = {}
                              /\ seen[g] \subseteq seen'[g]
    BY <1>1, <1>5, SeeGrows
  <1>7. TypeOK'
    <2>1. reply' \in [Handles -> Replies \cup {None}]
      BY <1>1, <1>3, <1>4 DEF TypeOK
    <2>2. stage' \in [Handles -> {"idle", "asking", "answered", "copying"}]
      BY <1>1, <1>3 DEF TypeOK
    <2>3. \A g \in Handles : stage'[g] = "idle" <=> made'[g] = 0
      BY <1>1, <1>3 DEF TypeOK
    <2>4. QED
      BY <1>1, <1>2, <1>6, <2>1, <2>2, <2>3 DEF TypeOK
  <1>8. Staged'
    BY <1>1, <1>3, <1>4, <1>6 DEF Staged
  <1>9. \A kinds : \A g \in Handles : Done(g, kinds)' <=> Done(g, kinds)
    BY <1>3, <1>4 DEF Done
  <1>10. OpensAreCalls'
    <2>1. Opening' \in SUBSET (Opening \ {h})
      BY <1>3 DEF Opening
    <2>2. QED
      BY <1>1, <1>2, <2>1, OpensKept DEF Inductive
  <1>11. TokensAreFresh' /\ Good'
    BY <1>2, <1>3, <1>9 DEF Inductive, TokensAreFresh, Good, Done
  <1>12. SeesTheFile'
    BY <1>2, <1>3, <1>6, <1>9 DEF Inductive, SeesTheFile, Done
  <1>13. OnePlace'
    <2>1. \A b \in Batches : /\ ~Appends(h, b)'
                             /\ \A g \in Handles : Appends(g, b)' => Appends(g, b)
      BY <1>3 DEF Appends
    <2>2. QED
      BY <1>1, <1>2, <1>9, <2>1, PlacesKept DEF Inductive
  <1>14. RefusedForCause'
    <2>1. ASSUME status = "unauthorized" PROVE excused[h] \/ credential[h] = None
      <3>1. ~Known(Request(h))
        BY <2>1
      <3>2. Request(h).kind = call[h].kind /\ Request(h).presents = Presents(h, call[h].kind)
        BY DEF Request
      <3>3. ~excused[h] => /\ credential[h] \in {None, password}
                           /\ session[h] \in tokens \cup {None}
        BY DEF Inductive, Good, Done
      <3>4. QED
        BY <3>1, <3>2, <3>3 DEF Known, Presents
    <2>2. ASSUME NEW g \in Handles, reply'[g] # None, reply'[g].status = "unauthorized"
          PROVE  excused'[g] \/ credential'[g] = None
      BY <1>2, <1>3, <1>4, <2>1, <2>2 DEF Inductive, RefusedForCause
    <2>3. QED
      BY <2>2 DEF RefusedForCause
  <1>15. QED
    BY <1>7, <1>8, <1>10, <1>11, <1>12, <1>13, <1>14 DEF Inductive

\* A handle's request is executed.
LEMMA ExecutionInductive ==
    ASSUME Inductive, NEW h \in Handles, stage[h] = "asking", told' = None,
           Does(Request(h)), Answers(h, "done", Carried(Request(h))), See,
           excused' = [g \in Handles |-> IF g = h THEN excused[h] /\ Request(h).kind # "password"
                                                  ELSE excused[g] \/ g \in Ended(Request(h))],
           UNCHANGED <<late, changes, handles, call, made, sink, calls, handed>>
    PROVE  Inductive'
  <1> DEFINE r == Request(h)
  <1>1. TypeOK /\ Staged /\ OpensAreCalls
    BY DEF Inductive
  <1>2. r \in Requests /\ r.kind = call[h].kind /\ r.value = call[h].value
    BY <1>1, RequestMade
  <1>3. /\ r.presents \in Passwords \cup 1 .. minted \cup {None}
        /\ \A f \in Handles : Done(f, {"open"}) => r.presents # reply[f].value
    BY <1>1, RequestIsStale DEF Inductive
  <1>4. credential' = credential /\ session' = session
    BY DEF handles
  <1>5. /\ Does(r) /\ stage' = [stage EXCEPT ![h] = "answered"]
        /\ reply' = [reply EXCEPT ![h] = [status |-> "done", value |-> Carried(r)]]
        /\ \A g \in Handles : excused'[g] <=> IF g = h THEN excused[h] /\ r.kind # "password"
                                                       ELSE excused[g] \/ g \in Ended(r)
        /\ excused' \in [Handles -> BOOLEAN]
    BY <1>1 DEF Answers, TypeOK
  <1>6. r.kind = "open" => h \in Opening /\ minted < Calls
    BY <1>1, <1>2, OneMore DEF Opening
  <1> HIDE DEF r
  <1>7. /\ stage'[h] = "answered" /\ reply'[h] = [status |-> "done", value |-> Carried(r)]
        /\ \A g \in Handles \ {h} : stage'[g] = stage[g] /\ reply'[g] = reply[g]
    BY <1>1, <1>5 DEF TypeOK
  <1>8. /\ password' \in Passwords /\ tokens' \subseteq 1 .. minted' /\ minted' \in 0 .. Calls
        /\ minted' = (IF r.kind = "open" THEN minted + 1 ELSE minted)
        /\ Cardinality(tokens') <= Slots
        /\ file' \in Contents \cup {None} /\ landed' \in [Batches -> Nat]
    BY <1>1, <1>2, <1>5, <1>6, DoesTyped
  <1>9. /\ seen' \in [Handles -> SUBSET (Contents \cup {None})]
        /\ \A g \in Handles : /\ seen[g] = {} => seen'[g] = {}
                              /\ seen[g] \subseteq seen'[g]
    BY <1>1, <1>8, SeeGrows
  <1>10. reply'[h] \in Replies /\ reply'[h].status = "done"
    <2>1. Carried(r) \in Tokens \cup Contents \cup {None}
      BY <1>1, <1>6, ConstantsAssumption DEF Carried, TypeOK, Tokens
    <2>2. QED
      BY <1>7, <2>1 DEF Replies
  <1>11. TypeOK'
    <2>1. session' \in [Handles -> 1 .. minted' \cup {None}]
      <3>1. minted \in Nat /\ minted' \in Nat /\ minted <= minted'
        BY <1>1, <1>8, ConstantsAssumption DEF TypeOK
      <3>2. QED
        BY <1>1, <1>4, <3>1 DEF TypeOK
    <2>2. reply' \in [Handles -> Replies \cup {None}]
      BY <1>1, <1>5, <1>7, <1>10 DEF TypeOK
    <2>3. /\ stage' \in [Handles -> {"idle", "asking", "answered", "copying"}]
          /\ \A g \in Handles : stage'[g] = "idle" <=> made'[g] = 0
      BY <1>1, <1>5, <1>7 DEF TypeOK
    <2>4. QED
      BY <1>1, <1>4, <1>5, <1>8, <1>9, <2>1, <2>2, <2>3 DEF TypeOK
  <1>12. Staged'
    BY <1>1, <1>7, <1>9, <1>10 DEF Staged
  <1>13. OpensAreCalls'
    <2>1. CASE r.kind # "open"
      <3>1. Opening' = Opening /\ LateOpens' = LateOpens /\ minted' = minted
        BY <1>2, <1>7, <1>8, <2>1 DEF Opening, LateOpens
      <3>2. QED
        BY <1>1, <3>1 DEF OpensAreCalls
    <2>2. CASE r.kind = "open"
      <3>1. Opening' = Opening \ {h} /\ LateOpens' = LateOpens /\ minted' = minted + 1
        BY <1>7, <1>8, <2>2 DEF Opening, LateOpens
      <3>2. IsFiniteSet(Opening) /\ h \in Opening
        BY <1>1, <1>6, <2>2 DEF OpensAreCalls
      <3>3. /\ IsFiniteSet(Opening \ {h})
            /\ Cardinality(Opening \ {h})
                = IF h \in Opening THEN Cardinality(Opening) - 1 ELSE Cardinality(Opening)
        BY <3>2, FS_RemoveElement
      <3>4. /\ Cardinality(Opening) \in Nat /\ Cardinality(LateOpens) \in Nat
            /\ IsFiniteSet(LateOpens)
            /\ minted + Cardinality(Opening) + Cardinality(LateOpens) <= calls
        BY <1>1, <3>2, FS_CardinalityType DEF OpensAreCalls
      <3>5. minted \in Nat /\ calls \in Nat
        BY <1>1, ConstantsAssumption DEF TypeOK
      <3>6. QED
        BY <3>1, <3>2, <3>3, <3>4, <3>5 DEF OpensAreCalls
    <2>3. QED
      BY <2>1, <2>2
  <1>14. TokensAreFresh' /\ SeesTheFile' /\ Good' /\ RefusedForCause'
    <2>1. AnsweredTo({h}, r)
      BY <1>2, <1>5, <1>7 DEF AnsweredTo
    <2>2. late' \subseteq late /\ call' = call /\ (r.kind = "open" => minted < Calls)
      BY <1>6
    <2>3. QED
      BY <1>2, <1>3, <1>4, <1>5, <2>1, <2>2, ExecutedKeeps
  <1>15. OnePlace'
    <2>1. \A b \in Batches : LateAppends(b)' = LateAppends(b)
      BY DEF LateAppends
    <2>2. \A b \in Batches, g \in Handles : Appends(g, b)' <=> g # h /\ Appends(g, b)
      BY <1>7 DEF Appends
    <2>3. \A b \in Batches : Appends(h, b) <=> r.kind = "append" /\ r.value = b
      BY <1>2 DEF Appends
    <2>4. \A b \in Batches : landed'[b] = IF Appends(h, b) THEN landed[b] + 1 ELSE landed[b]
      BY <1>1, <1>5, <2>3 DEF Does, TypeOK
    <2>5. \A g \in Handles : Done(g, {"append"})' =>
              IF g = h THEN r.kind = "append" ELSE Done(g, {"append"})
      BY <1>2, <1>7 DEF Done
    <2>6. ASSUME NEW b \in Batches
          PROVE  /\ landed'[b] \in {0, 1}
                 /\ b \notin handed \/ landed'[b] = 1 =>
                       LateAppends(b) = {} /\ \A g \in Handles : ~Appends(g, b)'
                 /\ b \notin handed => landed'[b] = 0
                 /\ \A g \in Handles : Appends(g, b)' =>
                       LateAppends(b) = {} /\ \A f \in Handles : Appends(f, b)' => f = g
                 /\ \A q, p \in LateAppends(b) : q = p
                 /\ \A g \in Handles : Done(g, {"append"})' /\ call[g].value = b => landed'[b] = 1
      <3>1. CASE Appends(h, b)
        <4>1. /\ landed[b] = 0 /\ b \in handed /\ LateAppends(b) = {}
              /\ \A g \in Handles : Appends(g, b) => g = h
          BY <3>1 DEF Inductive, OnePlace
        <4>2. QED
          BY <2>2, <2>4, <3>1, <4>1
      <3>2. CASE ~Appends(h, b)
        <4>1. landed'[b] = landed[b]
          BY <2>4, <3>2
        <4>2. \A g \in Handles : Done(g, {"append"})' /\ call[g].value = b => Done(g, {"append"})
          BY <1>2, <2>3, <2>5, <3>2
        <4>3. QED
          BY <2>2, <4>1, <4>2 DEF Inductive, OnePlace
      <3>3. QED
        BY <3>1, <3>2
    <2>7. QED
      BY <2>1, <2>6 DEF OnePlace
  <1>16. QED
    BY <1>11, <1>12, <1>13, <1>14, <1>15 DEF Inductive

LEMMA ExecuteInductive ==
    ASSUME Inductive, NEW h \in Handles, Execute(h), told' = None PROVE Inductive'
  <1>1. CASE Answers(h, "unauthorized", None) /\ ~Known(Request(h)) /\ UNCHANGED <<node, excused>>
    BY <1>1, RefusalInductive DEF Execute
  <1>2. CASE Answers(h, "refused", None) /\ UNCHANGED <<node, excused>>
    BY <1>2, RefusalInductive DEF Execute
  <1>3. CASE /\ Does(Request(h)) /\ Answers(h, "done", Carried(Request(h)))
             /\ excused' = [g \in Handles |->
                              IF g = h THEN excused[h] /\ Request(h).kind # "password"
                                       ELSE excused[g] \/ g \in Ended(Request(h))]
    BY <1>3, ExecutionInductive DEF Execute
  <1>4. QED
    BY <1>1, <1>2, <1>3 DEF Execute

\* A request nobody waits for is executed, and what it alone may do is not done again.
LEMMA ExecuteLateInductive ==
    ASSUME Inductive, NEW r \in late, ExecuteLate(r), told' = None PROVE Inductive'
  <1>1. TypeOK /\ Staged /\ OpensAreCalls /\ r \in Requests
    BY DEF Inductive, TypeOK
  <1>2. /\ Does(r) /\ See /\ late' \subseteq late /\ (r.kind \in Exempt => late' = late \ {r})
        /\ excused' = [g \in Handles |-> excused[g] \/ g \in Ended(r)]
        /\ UNCHANGED <<changes, credential, session, stage, call, made, reply, sink, calls, handed>>
    BY DEF ExecuteLate, handles, calling
  <1>3. r.kind = "open" => r \in LateOpens /\ minted < Calls
    BY <1>1, OneMore DEF LateOpens
  <1>4. /\ password' \in Passwords /\ tokens' \subseteq 1 .. minted' /\ minted' \in 0 .. Calls
        /\ minted' = (IF r.kind = "open" THEN minted + 1 ELSE minted)
        /\ Cardinality(tokens') <= Slots
        /\ file' \in Contents \cup {None} /\ landed' \in [Batches -> Nat]
    BY <1>1, <1>2, <1>3, DoesTyped
  <1>5. /\ seen' \in [Handles -> SUBSET (Contents \cup {None})]
        /\ \A g \in Handles : seen[g] = {} => seen'[g] = {}
    BY <1>1, <1>2, <1>4, SeeGrows
  <1>6. TypeOK'
    <2>1. session' \in [Handles -> 1 .. minted' \cup {None}]
      <3>1. minted \in Nat /\ minted' \in Nat /\ minted <= minted'
        BY <1>1, <1>4, ConstantsAssumption DEF TypeOK
      <3>2. QED
        BY <1>1, <1>2, <3>1 DEF TypeOK
    <2>2. excused' \in [Handles -> BOOLEAN] /\ late' \subseteq Requests
      BY <1>1, <1>2 DEF TypeOK
    <2>3. QED
      BY <1>1, <1>2, <1>4, <1>5, <2>1, <2>2 DEF TypeOK
  <1>7. Staged'
    BY <1>1, <1>2, <1>5 DEF Staged
  <1>8. OpensAreCalls'
    <2>1. Opening' = Opening
      BY <1>2 DEF Opening
    <2>2. CASE r.kind # "open"
      <3>1. LateOpens' \in SUBSET LateOpens /\ minted' = minted
        BY <1>2, <1>4, <2>2 DEF LateOpens
      <3>2. IsFiniteSet(LateOpens') /\ Cardinality(LateOpens') <= Cardinality(LateOpens)
        BY <1>1, <3>1, FS_Subset DEF OpensAreCalls
      <3>3. /\ Cardinality(Opening) \in Nat /\ Cardinality(LateOpens) \in Nat
            /\ Cardinality(LateOpens') \in Nat
        BY <1>1, <3>2, FS_CardinalityType DEF OpensAreCalls
      <3>4. minted \in Nat /\ calls \in Nat /\ calls' = calls
        BY <1>1, <1>2, ConstantsAssumption DEF TypeOK
      <3>5. QED
        BY <1>1, <2>1, <3>1, <3>2, <3>3, <3>4 DEF OpensAreCalls
    <2>3. CASE r.kind = "open"
      <3>1. LateOpens' = LateOpens \ {r} /\ minted' = minted + 1 /\ r \in LateOpens
        BY <1>2, <1>3, <1>4, <2>3 DEF LateOpens, Exempt
      <3>2. /\ IsFiniteSet(LateOpens \ {r})
            /\ Cardinality(LateOpens \ {r})
                = IF r \in LateOpens THEN Cardinality(LateOpens) - 1 ELSE Cardinality(LateOpens)
        BY <1>1, FS_RemoveElement DEF OpensAreCalls
      <3>3. /\ Cardinality(Opening) \in Nat /\ Cardinality(LateOpens) \in Nat
            /\ IsFiniteSet(Opening)
            /\ minted + Cardinality(Opening) + Cardinality(LateOpens) <= calls
        BY <1>1, FS_CardinalityType DEF OpensAreCalls
      <3>4. minted \in Nat /\ calls \in Nat /\ calls' = calls
        BY <1>1, <1>2, ConstantsAssumption DEF TypeOK
      <3>5. QED
        BY <2>1, <3>1, <3>2, <3>3, <3>4 DEF OpensAreCalls
    <2>4. QED
      BY <2>2, <2>3
  <1>9. TokensAreFresh' /\ SeesTheFile' /\ Good' /\ RefusedForCause'
    <2>1. AnsweredTo({}, r)
      BY <1>1, <1>2 DEF AnsweredTo, TypeOK
    <2>2. /\ r.presents \in Passwords \cup 1 .. minted \cup {None}
          /\ \A f \in Handles : Done(f, {"open"}) => r.presents # reply[f].value
      BY DEF Inductive, TokensAreFresh
    <2>3. credential' = credential /\ session' = session /\ call' = call
      BY <1>2
    <2>4. QED
      BY <1>1, <1>2, <1>3, <2>1, <2>2, <2>3, ExecutedKeeps
  <1>10. OnePlace'
    <2>1. \A b \in Batches, g \in Handles : Appends(g, b)' <=> Appends(g, b)
      BY <1>2 DEF Appends
    <2>2. \A b \in Batches : r \in LateAppends(b) <=> r.kind = "append" /\ r.value = b
      BY DEF LateAppends
    <2>3. \A b \in Batches :
              LateAppends(b)' \subseteq IF r \in LateAppends(b) THEN LateAppends(b) \ {r}
                                                                ELSE LateAppends(b)
      BY <1>2 DEF LateAppends, Exempt
    <2>4. \A b \in Batches :
              landed'[b] = IF r \in LateAppends(b) THEN landed[b] + 1 ELSE landed[b]
      BY <1>1, <1>2, <2>2 DEF Does, TypeOK
    <2>5. \A g \in Handles : Done(g, {"append"})' <=> Done(g, {"append"})
      BY <1>2 DEF Done
    <2>6. ASSUME NEW b \in Batches
          PROVE  /\ landed'[b] \in {0, 1}
                 /\ b \notin handed \/ landed'[b] = 1 =>
                       LateAppends(b)' = {} /\ \A g \in Handles : ~Appends(g, b)
                 /\ b \notin handed => landed'[b] = 0
                 /\ \A g \in Handles : Appends(g, b) =>
                       LateAppends(b)' = {} /\ \A f \in Handles : Appends(f, b) => f = g
                 /\ \A q, p \in LateAppends(b)' : q = p
                 /\ \A g \in Handles : Done(g, {"append"}) /\ call[g].value = b => landed'[b] = 1
      <3>1. CASE r \in LateAppends(b)
        <4>1. /\ landed[b] = 0 /\ b \in handed /\ \A q \in LateAppends(b) : q = r
              /\ \A g \in Handles : ~Appends(g, b)
          BY <3>1 DEF Inductive, OnePlace
        <4>2. LateAppends(b)' = {}
          BY <2>3, <3>1, <4>1
        <4>3. QED
          BY <2>4, <3>1, <4>1, <4>2
      <3>2. CASE r \notin LateAppends(b)
        <4>1. landed'[b] = landed[b] /\ LateAppends(b)' \subseteq LateAppends(b)
          BY <2>3, <2>4, <3>2
        <4>2. QED
          BY <4>1 DEF Inductive, OnePlace
      <3>3. QED
        BY <3>1, <3>2
    <2>7. handed' = handed /\ call' = call
      BY <1>2
    <2>8. QED
      BY <2>1, <2>5, <2>6, <2>7 DEF OnePlace
  <1>11. QED
    BY <1>6, <1>7, <1>8, <1>9, <1>10 DEF Inductive

-------------------------------------------------------------------------------
(* The theorems.                                                           *)

LEMMA InitInductive == ASSUME Init PROVE Inductive
  <1>1. TypeOK
    <2>1. Cardinality(tokens) = 0 /\ Cardinality(tokens) <= Slots
      BY FS_EmptySet, ConstantsAssumption DEF Init
    <2>2. QED
      BY <2>1, ConstantsAssumption DEF Init, TypeOK
  <1>2. Staged /\ TokensAreFresh /\ SeesTheFile /\ OnePlace /\ Good /\ RefusedForCause
    BY DEF Init, Staged, TokensAreFresh, SeesTheFile, OnePlace, Good, RefusedForCause, Done,
           Appends, LateAppends
  <1>3. OpensAreCalls
    <2>1. Opening = {} /\ LateOpens = {}
      BY DEF Init, Opening, LateOpens
    <2>2. QED
      BY <2>1, FS_EmptySet DEF Init, OpensAreCalls
  <1>4. QED
    BY <1>1, <1>2, <1>3 DEF Inductive

LEMMA NextInductive == ASSUME Inductive, [Next]_vars PROVE Inductive'
  <1>1. ASSUME Silent, told' = None PROVE Inductive'
    <2>1. ASSUME NEW h \in Handles, Execute(h) PROVE Inductive'
      BY <1>1, <2>1, ExecuteInductive
    <2>2. ASSUME NEW h \in Handles, NEW c \in Calling, Begin(h, c) PROVE Inductive'
      BY <1>1, <2>2, BeginInductive
    <2>3. ASSUME NEW h \in Handles, NEW p \in Passwords, AsUser(h, p) PROVE Inductive'
      BY <1>1, <2>3, AsUserInductive
    <2>4. ASSUME NEW h \in Handles, NEW g \in Handles, Clone(h, g) PROVE Inductive'
      BY <1>1, <2>4, CloneInductive
    <2>5. ASSUME NEW r \in late, ExecuteLate(r) PROVE Inductive'
      BY <1>1, <2>5, ExecuteLateInductive
    <2>6. ASSUME NEW t \in tokens, EndSession(t) PROVE Inductive'
      BY <1>1, <2>6, EndSessionInductive
    <2>7. ASSUME NEW p \in Passwords, ChangeElsewhere(p) PROVE Inductive'
      BY <1>1, <2>7, ChangeElsewhereInductive
    <2>8. QED
      BY <1>1, <2>1, <2>2, <2>3, <2>4, <2>5, <2>6, <2>7 DEF Silent
  <1>2. ASSUME NEW h \in Handles, NEW c \in Calling, BeginAndEnd(h, c) PROVE Inductive'
    BY <1>2, BeginAndEndInductive
  <1>3. CASE UNCHANGED vars
    BY <1>3 DEF vars, node, handles, calling, Inductive, TypeOK, Staged, OpensAreCalls, Opening,
                LateOpens, TokensAreFresh, SeesTheFile, OnePlace, Appends, LateAppends, Good,
                RefusedForCause, Done
  <1>4. QED
    BY <1>1, <1>2, <1>3, LoseInductive, MisreadInductive, JudgeInductive, CopyInductive DEF Next

LEMMA AlwaysInductive == Spec => []Inductive
  BY InitInductive, NextInductive, PTL DEF Spec

\* Every variable keeps to its values: a node never holds more sessions than it has
\* room for, and no call is attempted more often than `attempts` allows.
THEOREM Typed == Spec => []TypeOK
  <1>1. Inductive => TypeOK
    BY DEF Inductive
  <1>2. QED
    BY <1>1, AlwaysInductive, PTL

\* A handle is told that it is nobody only for what others, the node's clock or an
\* answer that never came did to what it presents.
THEOREM RefusedOnlyForCause == Spec => []RefusedForCause
  <1>1. Inductive => RefusedForCause
    BY DEF Inductive
  <1>2. QED
    BY <1>1, AlwaysInductive, PTL

\* A call that ended well was answered so, with what is told, unless it was a backup
\* that is whole; one that was refused was at its answer.
LEMMA EndsAsAnswered ==
    ASSUME Inductive, Next, NEW h \in Handles
    PROVE  /\ Ends(h, "ok") =>
                \/ /\ Done(h, Kinds \ {"backup"})
                   /\ call[h].kind \in Reads => told'.read = reply[h].value
                \/ call[h].kind = "backup" /\ sink[h] = Chunks
           /\ Ends(h, "unauthorized") \/ Ends(h, "refused") => stage[h] = "answered"
  <1>1. ASSUME NEW outcome \in {"ok", "unauthorized", "refused"}, Ends(h, outcome)
        PROVE  /\ outcome = "ok" =>
                    \/ /\ Done(h, Kinds \ {"backup"})
                       /\ call[h].kind \in Reads => told'.read = reply[h].value
                    \/ call[h].kind = "backup" /\ sink[h] = Chunks
               /\ outcome # "ok" => stage[h] = "answered"
    <2>1. PICK g \in Handles : \/ Lose(g) \/ Misread(g) \/ Judge(g) \/ Copy(g)
                               \/ \E c \in Calling : BeginAndEnd(g, c)
      BY <1>1 DEF Next, Ends
    <2>2. /\ stage[h] # "idle" /\ told' # None /\ told'.handle = h /\ told'.outcome = outcome
          /\ call[h] \in Calling /\ call[h].kind \in Kinds /\ sink[h] \in 0 .. Chunks
      BY <1>1, CallTyped DEF Ends, Inductive, Staged, TypeOK
    <2>3. CASE \E c \in Calling : BeginAndEnd(g, c)
      BY <2>2, <2>3 DEF BeginAndEnd, Tells
    <2>4. CASE Lose(g)
      BY <2>2, <2>4 DEF Lose, Finish, Tells
    <2>5. CASE Misread(g)
      BY <2>2, <2>5 DEF Misread, Finish, Tells
    <2>6. CASE Judge(g)
      <3>1. CASE Succeeded(g)
        <4>1. /\ told' = Tells(g, "ok", IF call[g].kind = "get" THEN reply[g].value ELSE None)
              /\ stage[g] = "answered" /\ call[g].kind # "backup" /\ reply[g].status = "done"
          BY <2>6, <3>1 DEF Judge, Finish, Succeeded
        <4>2. g = h /\ outcome = "ok"
          BY <2>2, <4>1 DEF Tells
        <4>3. QED
          BY <2>2, <4>1, <4>2 DEF Tells, Done, Reads
      <3>2. CASE ~Succeeded(g)
        <4>1. /\ told' = Tells(g, reply[g].status, None) /\ stage[g] = "answered"
              /\ reply[g].status # "done" /\ reply[g] \in Replies
          BY <2>6, <3>2 DEF Judge, Finish, Succeeded, Inductive, Staged
        <4>2. g = h /\ outcome = reply[g].status /\ outcome # "ok"
          BY <2>2, <4>1 DEF Tells, Replies
        <4>3. QED
          BY <4>1, <4>2
      <3>3. QED
        BY <3>1, <3>2
    <2>7. CASE Copy(g)
      <3>1. /\ ~(sink[g] < Chunks) /\ told' = Tells(g, "ok", None) /\ call[g].kind = "backup"
        BY <2>2, <2>7 DEF Copy, Finish
      <3>2. g = h /\ outcome = "ok"
        BY <2>2, <3>1 DEF Tells
      <3>3. QED
        BY <2>2, <3>1, <3>2, ConstantsAssumption
    <2>8. QED
      BY <2>1, <2>3, <2>4, <2>5, <2>6, <2>7
  <1>2. QED
    BY <1>1

\* A call on the file that succeeded tells the truth of some moment of the call, for
\* any number of handles, attempts and late requests.
THEOREM FilesRegular == Spec => FilesAreRegular
  <1>1. ASSUME Inductive, Next, NEW h \in Handles, Ends(h, "ok")
        PROVE  /\ call[h].kind \in Writes => call[h].value \in seen[h]
               /\ call[h].kind \in Reads => told'.read \in seen[h]
    BY <1>1, EndsAsAnswered DEF Inductive, SeesTheFile, Done, Reads, Writes
  <1>2. Inductive /\ [Next]_vars =>
            [\A h \in Handles : Ends(h, "ok") =>
                 /\ call[h].kind \in Writes => call[h].value \in seen[h]
                 /\ call[h].kind \in Reads => told'.read \in seen[h]]_vars
    BY <1>1
  <1>3. QED
    BY <1>2, AlwaysInductive, PTL DEF Spec, FilesAreRegular

\* A batch lands once at most, and has if `append` says so; a backup that succeeded is
\* whole, and nothing was written for one that was refused.
THEOREM NothingHappensTwice == Spec => NothingTwice
  <1> DEFINE Once ==
               /\ \A b \in Batches : landed'[b] <= 1
               /\ \A h \in Handles :
                     /\ Ends(h, "ok") /\ call[h].kind = "append" => landed[call[h].value] = 1
                     /\ Ends(h, "ok") /\ call[h].kind = "backup" => sink[h] = Chunks
                     /\ Ends(h, "unauthorized") \/ Ends(h, "refused") => sink[h] = 0
  <1>1. ASSUME Inductive, Next PROVE Once
    <2>1. Inductive'
      BY <1>1, NextInductive
    <2>2. \A b \in Batches : landed'[b] <= 1
      BY <2>1 DEF Inductive, OnePlace
    <2>3. ASSUME NEW h \in Handles
          PROVE  /\ Ends(h, "ok") /\ call[h].kind = "append" => landed[call[h].value] = 1
                 /\ Ends(h, "ok") /\ call[h].kind = "backup" => sink[h] = Chunks
                 /\ Ends(h, "unauthorized") \/ Ends(h, "refused") => sink[h] = 0
      <3>1. /\ Ends(h, "ok") =>
                 Done(h, Kinds \ {"backup"}) \/ (call[h].kind = "backup" /\ sink[h] = Chunks)
            /\ Ends(h, "unauthorized") \/ Ends(h, "refused") => stage[h] = "answered"
        BY <1>1, EndsAsAnswered
      <3>2. ASSUME Done(h, Kinds \ {"backup"}), call[h].kind = "append"
            PROVE  landed[call[h].value] = 1
        <4>1. Done(h, {"append"}) /\ call[h] \in Calling
          BY <1>1, <3>2 DEF Done, Inductive, Staged
        <4>2. call[h].value \in Batches
          BY <3>2, <4>1, CallTyped
        <4>3. QED
          BY <1>1, <4>1, <4>2 DEF Inductive, OnePlace
      <3>3. stage[h] = "answered" => sink[h] = 0
        BY <1>1 DEF Inductive, Staged
      <3>4. QED
        BY <3>1, <3>2, <3>3 DEF Done
    <2>4. QED
      BY <2>2, <2>3
  <1>2. Inductive /\ [Next]_vars => [Once]_vars
    BY <1>1
  <1>3. QED
    BY <1>2, AlwaysInductive, PTL DEF Spec, NothingTwice
=============================================================================
