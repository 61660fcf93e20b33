---------------------------------- MODULE Node ----------------------------------
(***************************************************************************)
(* The node at the other end, as the documentation in src/     *)
(* says it reads and writes: older nodes read past what they do not know,  *)
(* and end their answers before fields they do not have; newer ones append *)
(* fields and have outcomes this client lacks.                             *)
(***************************************************************************)
EXTENDS CacheCalls

KeyedMinor     == 7
ConditionMinor == 4
ClassMinor     == 3

-------------------------------------------------------------------------------
(* Statements.  Names and words are read as they stand, a reference as the *)
(* parameter it names.                                                     *)

Word(b)        == Take(1, b)
AWord(b)       == Made(Word(b), LAMBDA w : w[1])
Skip(words, b) == IF IsPrefix(words, b) THEN Got(words, SubSeq(b, Len(words) + 1, Len(b)))
                  ELSE Fault("Syntax")

\* What follows the words, when they are there.
After(words, b, Read(_)) == Then(Skip(words, b), LAMBDA w, rest : Read(rest))
Optional(words, b, Read(_)) ==
    IF IsPrefix(words, b) THEN Some(After(words, b, Read)) ELSE Got(<<>>, b)
Followed(taken, words) == Then(taken, LAMBDA x, rest : Made(Skip(words, rest), LAMBDA w : x))

\* One or more, with commas between.
Listed(b, One(_)) ==
    LET list[rest \in Seq(STRING)] ==
          Then(One(rest), LAMBDA item, left :
                 IF IsPrefix(<<",">>, left)
                 THEN Made(list[Tail(left)], LAMBDA more : <<item>> \o more)
                 ELSE Got(<<item>>, left))
    IN list[b]

Reference(b, given) ==
    Then(AWord(b), LAMBDA w, rest :
           IF \E name \in DOMAIN given : w = "$" \o name
           THEN Got(given[CHOOSE name \in DOMAIN given : w = "$" \o name], rest)
           ELSE Fault("Syntax"))

\* name is $reference, ...; the names as a script has them become words.
Assigned(b, is, given, NameOf(_)) ==
    LET One(rest) == Both(Followed(Made(AWord(rest), NameOf), <<is>>),
                          LAMBDA left : Reference(left, given))
    IN Made(Listed(b, One), FieldsOf)
Bare(word)     == word
Unquoted(word) == CHOOSE i \in PlainNames : word = Quote(i)

RECURSIVE Condition(_, _)
Condition(b, given) ==
    IF IsPrefix(<<"(">>, b)
    THEN Then(Condition(Tail(b), given), LAMBDA left, rest :
           Then(AWord(rest), LAMBDA how, more :
             Followed(Made(Condition(more, given), LAMBDA right : <<how, left, right>>), <<")">>)))
    ELSE Then(AWord(b), LAMBDA name, rest :
           Then(AWord(rest), LAMBDA how, more :
             Made(Reference(more, given), LAMBDA v : <<"compare", name, how, v>>)))

\* The characters of a span, up to the next word.
Span(b) ==
    LET past == SelectInSeq(b, LAMBDA w : w \in {";", "ANSWERED BY"})
    IN Got(SubSeq(b, 1, past - 1), SubSeq(b, past, Len(b)))

Projection(b) ==
    IF IsPrefix(<<"string::lines">>, b)
    THEN LET part == Also(Also(First(After(<<"string::lines", "(">>, b, AWord)),
                               LAMBDA r : After(<<",">>, r, AWord)),
                          LAMBDA r : After(<<",">>, r, AWord))
         IN Then(Followed(part, <<")", "AS">>), LAMBDA p, rest :
              Then(AWord(rest), LAMBDA name, left :
                IF name = p[1] THEN Got(<<"lines">> \o p, left) ELSE Fault("Syntax")))
    ELSE Typed("field", AWord(b))

Projected(b)   == IF IsPrefix(<<"*">>, b) THEN Got(<<>>, Tail(b)) ELSE Listed(b, Projection)
OrderedBy(b)   == IF IsPrefix(<<"ORDER BY">>, b) THEN Listed(Tail(b), LAMBDA one : Take(2, one))
                  ELSE Got(<<>>, b)

ReadSelect(b, given) ==
    Then(Projected(b),                                                LAMBDA projection, r1 :
    Then(After(<<"FROM">>, r1, AWord),                                LAMBDA table, r2 :
    Then(Optional(<<"WHERE">>, r2, LAMBDA c : Condition(c, given)),   LAMBDA filter, r3 :
    Then(OrderedBy(r3),                                               LAMBDA order, r4 :
    Then(Optional(<<"START">>, r4, AWord),                            LAMBDA start, r5 :
    Then(Optional(<<"LIMIT">>, r5, AWord),                            LAMBDA limit, r6 :
    Then(Optional(<<"STALENESS">>, r6, Span),                         LAMBDA staleness, r7 :
    Made(Optional(<<"ANSWERED BY">>, r7, AWord),                      LAMBDA answered_by :
      [is |-> "select", projection |-> projection, table |-> table, filter |-> filter,
       order |-> order, start |-> start, limit |-> limit, staleness |-> staleness,
       answered_by |-> answered_by]))))))))

\* table:$reference
Target(b, given) ==
    Both(Followed(AWord(b), <<":">>), LAMBDA rest : Reference(rest, given))

ReadCreate(b, given) ==
    LET named  == Target(b, given)
        target == IF named.ok THEN Made(named, LAMBDA t : <<t[1], <<t[2]>>>>)
                  ELSE Made(AWord(b), LAMBDA table : <<table, <<>>>>)
    IN Then(target, LAMBDA t, rest :
         Made(After(<<"=", "{">>, rest, LAMBDA c : Followed(Assigned(c, ":", given, Bare), <<"}">>)),
              LAMBDA fields : [is |-> "create", table |-> t[1], id |-> t[2], fields |-> fields]))

ReadUpdate(b, given) ==
    Then(Target(b, given), LAMBDA t, rest :
      Made(After(<<"SET">>, rest, LAMBDA c : Assigned(c, "=", given, Bare)), LAMBDA fields :
           [is |-> "update", table |-> t[1], id |-> <<t[2]>>, fields |-> fields]))

ReadDelete(b, given) ==
    Made(Target(b, given), LAMBDA d : [is |-> "delete", table |-> d[1], id |-> <<d[2]>>])

\* A vault's statements, after the database they are in.
ReadVault(b, given) ==
    LET AtRecord(r) == Target(r, given)
        Fields(r)   == IF IsPrefix(<<"*">>, r) THEN Got(<<>>, Tail(r))
                       ELSE Made(Listed(r, AWord), LAMBDA ws : [i \in DOMAIN ws |-> Unquoted(ws[i])])
        OfVault(is, target) == [is |-> is, vault |-> target[1], id |-> target[2]]
    IN CASE IsPrefix(<<"INFO FOR AUDIT">>, b) ->
              Made(Optional(<<"BY">>, Tail(b), AWord), LAMBDA by : [is |-> "audit", by |-> by])
         [] IsPrefix(<<"INFO FOR VAULT">>, b) ->
              Then(Followed(AWord(Tail(b)), <<"RECORDS">>), LAMBDA vault, rest :
                LET after == Optional(<<"AFTER", vault, ":">>, rest, LAMBDA r : Reference(r, given))
                IN Made(Both(after, LAMBDA r : Optional(<<"LIMIT">>, r, AWord)), LAMBDA l :
                     [is |-> "list", vault |-> vault, after |-> l[1], limit |-> l[2]]))
         [] IsPrefix(<<"REVEAL">>, b) ->
              Made(Both(Fields(Tail(b)), LAMBDA r : After(<<"FROM">>, r, AtRecord)), LAMBDA f :
                   OfVault("reveal", f[2]) @@ [fields |-> f[1]])
         [] IsPrefix(<<"UPSERT">>, b) ->
              Made(Both(AtRecord(Tail(b)), LAMBDA r :
                     After(<<"MERGE", "{">>, r, LAMBDA c : Followed(Assigned(c, ":", given, Unquoted), <<"}">>))),
                   LAMBDA w : OfVault("write", w[1]) @@ [fields |-> w[2]])
         [] IsPrefix(<<"INFO FOR RECIPIENTS OF">>, b) ->
              Made(AtRecord(Tail(b)), LAMBDA t : OfVault("recipients", t))
         [] IsPrefix(<<"ADD RECIPIENT">>, b) ->
              Then(Reference(Tail(b), given), LAMBDA name, rest :
                Made(Both(After(<<"TO">>, rest, AtRecord),
                          LAMBDA r : After(<<"KEY">>, r, LAMBDA k : Reference(k, given))),
                     LAMBDA a : OfVault("add_recipient", a[1]) @@ [name |-> name, key |-> a[2]]))
         [] IsPrefix(<<"REMOVE RECIPIENT">>, b) ->
              Then(Reference(Tail(b), given), LAMBDA name, rest :
                Made(After(<<"FROM">>, rest, AtRecord), LAMBDA t :
                     OfVault("remove_recipient", t) @@ [name |-> name]))
         [] OTHER -> Fault("Syntax")

\* A cache handle's statements: words as they stand, and a word in small letters
\* for each part.
OfKey == <<"space", ":", "key">>
Call(name, arguments) == <<"RETURN", name, "(", "GET">> \o OfKey \o arguments \o <<")">>
Forms ==
    [get |-> <<"GET">> \o OfKey, set |-> <<"SET">> \o OfKey \o <<"=", "value", "when", "ttl">>,
     delete_key |-> <<"DELETE">> \o OfKey \o <<"RETURN", "BEFORE">>,
     incr |-> <<"INCR">> \o OfKey \o <<"BY", "by">>, ttl |-> <<"RETURN", "TTL">> \o OfKey,
     expire |-> <<"EXPIRE">> \o OfKey \o <<"its ttl">>, persist |-> <<"PERSIST">> \o OfKey,
     release |-> <<"SET">> \o OfKey \o <<"=", "'free'", "IF", "=", "holder", "EXPIRE", "1ms">>,
     keys |-> <<"KEYS", "FROM", "space", "prefix", "after", "LIMIT", "limit">>,
     list_push |-> <<"LIST", "PUSH">> \o OfKey \o <<"end", "values">>,
     list_pop |-> <<"LIST", "POP">> \o OfKey \o <<"end", "count">>,
     list_remove |-> <<"LIST", "REMOVE">> \o OfKey \o <<"value", "count">>,
     list_trim |-> <<"LIST", "TRIM">> \o OfKey \o <<"FROM", "start", "TO", "stop">>,
     list_range |-> Call("array::slice", <<",", "start", ",", "its count">>),
     list_at |-> Call("array::at", <<",", "start">>), list_len |-> Call("array::len", <<>>),
     hash_set |-> <<"HASH", "SET">> \o OfKey \o <<"values">>,
     hash_remove |-> <<"HASH", "REMOVE">> \o OfKey \o <<"values">>,
     hash_incr |-> <<"HASH", "INCR">> \o OfKey \o <<"member", "BY", "by">>,
     hash_get |-> Call("object::get", <<",", "member">>), hash_len |-> Call("object::len", <<>>),
     members_add |-> <<"MEMBERS", "ADD">> \o OfKey \o <<"values">>,
     members_remove |-> <<"MEMBERS", "REMOVE">> \o OfKey \o <<"values">>,
     members_has |-> <<"RETURN", "value", "IN", "GET">> \o OfKey,
     members_len |-> Call("set::len", <<>>),
     scores_add |-> <<"SCORES", "ADD">> \o OfKey \o <<"values">>,
     scores_remove |-> <<"SCORES", "REMOVE">> \o OfKey \o <<"values">>,
     scores_incr |-> <<"SCORES", "INCR">> \o OfKey \o <<"member", "BY", "by">>,
     scores_score |-> Call("scores::score", <<",", "member">>),
     scores_rank |-> Call("scores::rank", <<",", "member">>),
     scores_range |-> Call("scores::range", <<",", "start", ",", "stop">>),
     scores_between |-> Call("scores::between", <<",", "low", ",", "high">>)]

ReadPart(part, b, given) ==
    LET Ref(r)     == Reference(r, given)
        Item(r)    == Then(Ref(r), LAMBDA x, rest :
                        IF IsPrefix(<<"=">>, rest) THEN Made(Ref(Tail(rest)), LAMBDA y : <<x, y>>)
                        ELSE Got(x, rest))
        Behind(words) == Optional(words, b, Ref)
    IN CASE part \in {"space", "end", "limit"} -> AWord(b)
         [] part = "values"                    -> Listed(b, Item)
         [] part \in {"its ttl", "its count"}  -> Some(Ref(b))
         [] part = "count"                     -> Behind(<<"LIMIT">>)
         [] part = "ttl"                       -> Behind(<<"EXPIRE">>)
         [] part = "prefix"                    -> Behind(<<"PREFIX">>)
         [] part = "after"                     -> Behind(<<"AFTER">>)
         [] part \in {"low", "high"}           -> IF IsPrefix(<<"NONE">>, b) THEN Got(<<>>, Tail(b))
                                                  ELSE Some(Ref(b))
         [] part = "when" -> IF IsPrefix(<<"IF", "=">>, b)
                             THEN Typed("=", Ref(SubSeq(b, 3, Len(b))))
                             ELSE Optional(<<"IF">>, b, AWord)
         [] OTHER         -> Ref(b)

Parts == {"space", "key", "value", "values", "when", "ttl", "its ttl", "by", "holder", "prefix",
          "after", "limit", "end", "count", "its count", "start", "stop", "member", "low", "high"}

InForm(form, b, given) ==
    LET Named(part)       == CASE part = "its ttl"   -> "ttl"
                               [] part = "its count" -> "count"
                               [] OTHER              -> part
        Next(taken, part) ==
          IF part \notin Parts THEN Followed(taken, <<part>>)
          ELSE Then(taken, LAMBDA held, rest :
                 Made(ReadPart(part, rest, given), LAMBDA x : [p \in {Named(part)} |-> x] @@ held))
    IN FoldLeft(Next, Got([is |-> form], b), Forms[form])

ReadCache(b, given) ==
    LET Reads(form) == LET read == InForm(form, b, given) IN read.ok /\ read.rest = <<";">>
    IN IF \E form \in DOMAIN Forms : Reads(form)
       THEN InForm(CHOOSE form \in DOMAIN Forms : Reads(form), b, given)
       ELSE Fault("Syntax")

\* A statement of either kind of handle, after the database it is in.
ReadWithin(b, given) == LET read == ReadVault(b, given) IN IF read.ok THEN read ELSE ReadCache(b, given)

ReadStatement(b, given) ==
    Followed(
      CASE IsPrefix(<<"SELECT">>, b) -> ReadSelect(Tail(b), given)
        [] IsPrefix(<<"CREATE">>, b) -> ReadCreate(Tail(b), given)
        [] IsPrefix(<<"UPDATE">>, b) -> ReadUpdate(Tail(b), given)
        [] IsPrefix(<<"DELETE">>, b) -> ReadDelete(Tail(b), given)
        [] IsPrefix(<<"USE NAMESPACE">>, b) ->
             Then(Both(Followed(AWord(Tail(b)), <<";">>),
                       LAMBDA r : After(<<"USE DATABASE">>, r, LAMBDA d : Followed(AWord(d), <<";">>))),
                  LAMBDA within, rest : Made(ReadWithin(rest, given), LAMBDA v :
                    v @@ [namespace |-> within[1], database |-> within[2]]))
        [] OTHER -> Fault("Syntax"),
      <<";">>)

-------------------------------------------------------------------------------
(* Frames a node reads.                                                    *)

Lexed(text) == [i \in DOMAIN text |-> Words[text[i]]]
Lex(taken)  == Then(taken, LAMBDA text, rest :
                 IF \A i \in DOMAIN text : text[i] \in DOMAIN Words
                 THEN Got(Lexed(text), rest) ELSE Fault("Syntax"))
OneWord(b)  == Made(Lex(TakeText(b)), LAMBDA words : words[1])

\* A byte says whether it follows.
Flagged(b, Read(_)) ==
    Then(TakeU8(b), LAMBDA flag, rest : IF flag = 0 THEN Got(<<>>, rest) ELSE Some(Read(rest)))

Credentials(b) == Made(Both(OneWord(b), OneWord), LAMBDA c : [name |-> c[1], password |-> c[2]])
Parameter(b)   == Both(OneWord(b), TakeDecoded)
Place(b) ==
    Made(Also(Both(OneWord(b), OneWord), OneWord),
         LAMBDA p : [namespace |-> p[1], database |-> p[2], vault |-> p[3]])
PresentedKey(b) == Made(Both(Place(b), LAMBDA r : Take(2, r)), LAMBDA k : k[1] @@ [key |-> k[2]])

TakeKeys(b, minor) ==
    IF minor < KeyedMinor \/ b = <<>> THEN Got(<<>>, b)
    ELSE Then(TakeU8(b), LAMBDA stream, rest :
           Appended(rest, <<>>, LAMBDA left : TakeMany(left, PresentedKey)))

TakeRequest(body, minor) ==
    Then(Lex(TakeText(body)),       LAMBDA script, r1 :
    Then(Flagged(r1, Credentials),  LAMBDA credentials, r2 :
    Then(TakeMany(r2, Parameter),   LAMBDA parameters, r3 :
    Made(TakeKeys(r3, minor),       LAMBDA keys :
      [script |-> script, credentials |-> credentials, given |-> FieldsOf(parameters),
       keys |-> keys]))))

HearRequest(body, minor) ==
    Then(TakeRequest(body, minor), LAMBDA r, rest :
      Then(ReadStatement(r.script, r.given), LAMBDA statement, left :
        IF left = <<>> THEN Result([statement |-> statement, as |-> r.credentials, keys |-> r.keys])
                       ELSE Fault("Syntax")))

HeardCursor(b) ==
    Appended(b, <<>>, LAMBDA left :
      Made(TakeText(left), LAMBDA c : IF c = <<>> THEN <<>> ELSE <<c>>))
HeardCondition(b, minor) ==
    IF minor < ConditionMinor THEN Got(<<>>, b)
    ELSE Appended(b, <<>>, LAMBDA left : Some(Both(TakeText(left), TakeDecoded)))

HearFollow(body, minor) ==
    Then(TakePlain(body),           LAMBDA from, r1 :
    Then(Flagged(r1, TakeText),     LAMBDA table, r2 :
    Then(HeardCursor(r2),           LAMBDA cursor, r3 :
    Made(HeardCondition(r3, minor), LAMBDA narrow :
      [from |-> from, table |-> table, cursor |-> cursor, narrow |-> narrow]))))

HearAct(body) ==
    Then(TakeU8(body), LAMBDA stream, rest :
      Then(Flagged(rest, Place), LAMBDA place, left :
        Then(TakeU8(left), LAMBDA act, of :
          Made(CASE act = 1 -> Got(<<"Status">>, of)
                 [] act = 2 -> Typed("Unseal", TakeText(of))
                 [] act = 3 -> Got(<<"Seal">>, of)
                 [] act = 4 -> Made(TakeTexts(of), LAMBDA c : <<"Change">> \o c)
                 [] act = 5 -> Typed("Declare", TakeText(of))
                 [] act = 6 -> Typed("DeclareKeyed", Take(2, of))
                 [] act = 7 -> Made(Both(Take(2, of), LAMBDA r : Take(2, r)),
                                    LAMBDA c : <<"ChangeKey">> \o c)
                 [] OTHER   -> Fault("Syntax"),
               LAMBDA a : [act |-> a, place |-> place]))))

-------------------------------------------------------------------------------
(* Frames it writes.                                                       *)

PutTexts(pair) == PutText(pair[1]) \o PutText(pair[2])
PutNames(names) ==
    PutMany(SetToSortSeq(DOMAIN names, LAMBDA s, t : s < t), LAMBDA t : <<t>> \o PutText(names[t]))
PutRecord(r) == PutText(r[1]) \o PutBytes(Encode(r[2]))

\* The first of the appended fields, as many as the node has; a newer node has
\* one more.
PutAppended(o, fields) ==
    LET all == <<PutMany(o.notes, PutTexts),
                 <<IF o.only THEN 1 ELSE 0>>,
                 <<IF o.exact[1] = "No" THEN 1 ELSE 0>>
                   \o PutText(IF o.exact[1] = "No" THEN o.exact[2] ELSE <<>>),
                 CASE o.suggestion[1] = "NotSought"     -> <<0>>
                   [] o.suggestion[1] = "NothingNearer" -> <<1>>
                   [] o.suggestion[1] = "DidYouMean"    -> <<2>> \o PutMany(o.suggestion[2], PutTexts)
                   [] o.suggestion[1] = "Newer"         -> <<3, 9, 9>>,
                 <<9, 0, 9>>>>
    IN FlattenSeq(SubSeq(all, 1, fields))

\* What follows an outcome's own fields, from a newer node.
Trailing(fields) == IF fields > 4 THEN <<7>> ELSE <<>>

\* How a node found its records; a newer one has ways this client lacks.
PathByte == [record |-> 0, index |-> 1, scan |-> 2, ordered |-> 3, newer |-> 4]

PutOutcome(o, fields) ==
    CASE o[1] = "Done"    -> <<0>> \o Trailing(fields)
      [] o[1] = "Records" -> <<1, PathByte[o[2].path]>> \o PutNames(o[2].names)
                             \o PutMany(o[2].records, PutRecord) \o PutAppended(o[2], fields)
      [] o[1] = "Value"   -> <<2>> \o PutNames(o[3]) \o PutBytes(Encode(o[2])) \o Trailing(fields)
      [] o[1] = "Keys"    -> <<3>> \o PutMany(o[2], PutText) \o Trailing(fields)
      [] o[1] = "Removed" -> <<4>> \o PutPlain(o[2]) \o Trailing(fields)
      [] o[1] = "Newer"   -> <<5, 2, 0, 1>>

AnswerBody(outcomes, fields) ==
    PutMany(outcomes, LAMBDA o : PutBytes(PutOutcome(o, fields)))

\* Objects a vault's calls are answered with; a newer node spells an absence out.
Texts(words) == {Text(w) : w \in words}
ObjectOf(parts) ==
    <<"Object", [t \in Texts(DOMAIN parts) |-> parts[Words[t[1]]]]>>

Absent(name, part, Of(_), fields) ==
    IF part # <<>> THEN [n \in {name} |-> Of(part[1])]
    ELSE IF fields > 4 THEN [n \in {name} |-> <<"None">>] ELSE <<>>

StatusValue(s, fields) ==
    ObjectOf([state |-> <<"String", Text(s.state)>>,
              unseal_for |-> <<"Duration">> \o s.unseal_for,
              initialised |-> <<"Bool", s.initialised>>]
             @@ Absent("seals_at", s.seals_at, LAMBDA at : <<"Datetime">> \o at, fields)
             @@ Absent("custody", s.custody, LAMBDA c : <<"String", Text(c)>>, 0))

PageValue(p, fields) ==
    ObjectOf([records |-> <<"Array", p.ids>>] @@ Absent("next", p.next, LAMBDA n : n, fields))

AuditValue(entries)   == ObjectOf([audit |-> <<"Array", entries>>])
RecipientsValue(keys) ==
    ObjectOf([recipients |-> <<"Object", [name \in DOMAIN keys |-> <<"Bytes", keys[name]>>]>>])

\* A key as a node spells it: a text in quotes, with two escapes.
SpelledKey(k) ==
    IF k[1] # "Text" THEN k[2]
    ELSE LET Char(c) == IF c \in {QuoteMark, Backslash} THEN <<Backslash, c>> ELSE <<c>>
         IN <<QuoteMark>> \o FlattenSeq([i \in DOMAIN k[2] |-> Char(k[2][i])]) \o <<QuoteMark>>

CacheAnswer(is, m) ==
    LET OrMissing(Of(_)) == IF m = <<>> THEN Missing ELSE Of(m[1])
        Pair(p) == <<"Array", <<String(p[1]), Float(p[2])>>>>
    IN CASE is \in Flagging -> <<"Bool", m>>
         [] is \in Counted  -> Integer(m)
         [] is \in Measured -> OrMissing(Integer)
         [] is \in Sought \cup {"delete_key"} -> OrMissing(LAMBDA v : v)
         [] is \in Elements -> OrMissing(LAMBDA items : <<"Array", items>>)
         [] is \in Ranked   -> OrMissing(LAMBDA items : <<"Array", [i \in DOMAIN items |-> Pair(items[i])]>>)
         [] is = "hash_get_all" -> OrMissing(LAMBDA fields : <<"Object", fields>>)
         [] is = "members_all"  -> OrMissing(LAMBDA members : <<"Set", members>>)
         [] is = "ttl" -> (CASE m[1] = "Absent"  -> Missing
                             [] m[1] = "Never"   -> <<"Null">>
                             [] m[1] = "Expires" -> <<"Duration">> \o Tail(m))
         [] is = "scores_incr"  -> Float(m)
         [] is = "scores_score" -> OrMissing(Float)
         [] is = "scores_rank"  -> OrMissing(Integer)

CacheOutcome(is, m) ==
    CASE is \in Silent -> <<"Done">>
      [] is = "keys"   -> <<"Keys", [i \in DOMAIN m |-> SpelledKey(m[i])]>>
      [] OTHER         -> <<"Value", CacheAnswer(is, m), <<>>>>

\* A redirect, and a refusal: older nodes give its words alone.
SettlementByte == [Settled |-> 1, Transient |-> 2, Newer |-> 3]
RedirectBody(m) ==
    m.node \o PutPlain(m.epoch) \o <<SettlementByte[m.settlement]>> \o PutText(m.endpoint)

RefusalBody(m, minor) ==
    LET byte == SelectInSeq(Classes, LAMBDA class : class = m.class)
    IN (IF minor < ClassMinor THEN <<>> ELSE <<byte>>) \o m.message

PutCursor(cursor) == IF cursor = <<>> THEN <<>> ELSE PutText(cursor[1])

ArrivalBody(a) ==
    IF a[1] = "Progress" THEN PutPlain(a[2].sequence) \o PutCursor(a[2].cursor)
    ELSE PutPlain(a[2].sequence) \o PutText(a[2].table) \o PutText(a[2].id)
         \o (IF a[2].became[1] = "Removed" THEN <<1>>
             ELSE <<0>> \o PutBytes(Encode(a[2].became[2])))
         \o PutCursor(a[2].cursor)
==============================================================================
