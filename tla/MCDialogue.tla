------------------------------- MODULE MCDialogue -------------------------------
(* Instance of Dialogue: values at the boundaries of their widths and of each    *)
(* type, alone and inside others; every statement, act and subscription, with    *)
(* names that are names and not; nodes of every age the client tells apart.      *)
EXTENDS Dialogue

Fields == <<"age", "body", "password", "tags">>
Others == <<"ada", "app", "main", "notes", "safe", "secret", "store">>
MCPlainNames == ToSet(Fields) \cup ToSet(Others)

MCWords ==
    <<
      "!=", "$a", "$after", "$c", "$c0", "$c1", "$e", "$f", "$f0", "$f1", "$f2", "$h",
      "$hi", "$i", "$id", "$j", "$k", "$key", "$lo", "$m", "$m0", "$m1", "$n", "$name",
      "$p", "$p0", "$p1", "$p2", "$p3", "$t", "$v", "$v0", "$v1", "$v2", "'age'", "'body'",
      "'free'", "'password'", "'tags'", "(", ")", "*", ",", "0", "1", "1000", "10000",
      "1ms", "40", "9", ":", ";", "<", "<=", "=", ">", ">=", "ABSENT", "ADD",
      "ADD RECIPIENT", "AFTER", "AND", "ANSWERED BY", "ANY", "AS", "ASC", "BACK", "BEFORE",
      "BY", "CREATE", "DELETE", "DESC", "EXPIRE", "FROM", "FRONT", "GET", "HASH", "IF",
      "IN", "INCR", "INFO FOR AUDIT", "INFO FOR RECIPIENTS OF", "INFO FOR VAULT", "KEY",
      "KEYS", "LEADER", "LIMIT", "LIST", "MASTER", "MEMBERS", "MERGE", "NONE", "OR",
      "ORDER BY", "PERSIST", "POP", "PREFIX", "PRESENT", "PUSH", "RECORDS", "REMOVE",
      "REMOVE RECIPIENT", "RETURN", "REVEAL", "SCORES", "SELECT", "SET", "STALENESS",
      "START", "TO", "TRIM", "TTL", "UPDATE", "UPSERT", "USE DATABASE", "USE NAMESPACE",
      "WHERE", "a", "ada", "after", "age", "app", "array::at", "array::len", "array::slice",
      "audit", "body", "c", "c0", "c1", "custody", "e", "f", "f0", "f1", "f2", "h", "hi",
      "i", "id", "initialised", "j", "k", "key", "lo", "m", "m0", "m1", "main", "n", "name",
      "next", "notes", "object::get", "object::len", "own", "p", "p0", "p1", "p2", "p3",
      "password", "recipients", "records", "s", "safe", "scores::between", "scores::range",
      "scores::rank", "scores::score", "sealed", "seals_at", "secret", "set::len", "state",
      "store", "string::lines", "t", "tags", "two words", "uninitialised", "unseal_for",
      "unsealed", "v", "v0", "v1", "v2", "{", "}">>

-------------------------------------------------------------------------------
(* Values.                                                                 *)

Ints  == {-Sign, -Sign + 1, -256, -1, 0, 1, 255, 256, Sign - 1}
Bits  == {0, 1, 255, Sign, U64 - 1}
Words32 == {0, 1, U32 - 1}
Blocks == {<<>>, <<0>>, <<1>>, <<0, 1>>, <<0, 0>>, <<255, 0>>, <<97, 0, 127>>}
TextsOf == {b \in Blocks : IsText(b)}

IdsOf == {<<"Int", i>> : i \in Ints} \cup {<<"Text", t>> : t \in TextsOf}
         \cup {<<"Bytes", b>> : b \in Blocks} \cup {<<"Uuid", <<0, 255>>>>}

Leaves ==
    {<<"None">>, <<"Null">>, <<"Bool", TRUE>>, <<"Bool", FALSE>>}
    \cup {Integer(i) : i \in Ints}
    \cup {<<"Number", <<"Float", f>>>> : f \in Bits}
    \cup {<<"Number", <<"Decimal", i, s>>>> : i \in {-Sign, -1, 256, Sign - 1}, s \in Words32}
    \cup {<<type, t>> : type \in {"String", "Regex"}, t \in TextsOf}
    \cup {<<"Bytes", b>> : b \in Blocks}
    \cup {<<type, i, n>> : type \in {"Duration", "Datetime"}, i \in {-Sign, -1, 0, Sign - 1},
                           n \in {0, Billion - 1}}
    \cup {<<"Uuid", <<0, 255>>>>} \cup {<<"Table", n>> : n \in Words32}
    \cup {<<"Record", 255, id>> : id \in IdsOf}

At(lon, lat) == [longitude |-> lon, latitude |-> lat]
Path1 == <<At(1, 2), At(U64 - 1, 0)>>
Rings == [exterior |-> Path1, interiors |-> <<<<>>, <<At(3, 4)>>>>]
Bare1 == [exterior |-> <<>>, interiors |-> <<>>]
Shapes ==
    {<<"Point", At(1, 2)>>, <<"Line", Path1>>, <<"Polygon", Rings>>, <<"Polygon", Bare1>>,
     <<"MultiPoint", <<>>>>, <<"MultiPoint", Path1>>, <<"MultiLine", <<Path1, <<>>>>>>,
     <<"MultiPolygon", <<Rings, Bare1>>>>, <<"Collection", <<>>>>,
     <<"Collection", <<<<"Point", At(2, 1)>>, <<"Collection", <<<<"Line", <<>>>>>>>>>>>>}

Some1 == {<<"None">>, <<"Bool", TRUE>>, Integer(-1), <<"String", <<0, 1>>>>, <<"Array", <<>>>>}
Containers ==
    {<<type, s>> : type \in {"Array", "Set"},
                   s \in {<<>>} \cup {<<v>> : v \in Some1} \cup {<<v, Integer(256)>> : v \in Some1}}
    \cup {<<"Object", <<>>>>}
    \cup {<<"Object", (<<98>> :> v @@ <<97, 0>> :> Integer(1) @@ <<97>> :> <<"Null">> @@ <<>> :> v)>>
            : v \in Some1}
    \cup {<<"Range", s, e>> :
            s \in {<<"Unbounded">>, <<"Included", Integer(-1)>>},
            e \in {<<"Unbounded">>, <<"Excluded", <<"Array", <<Integer(0)>>>>>>}}
    \cup {<<"Geometry", g>> : g \in Shapes}

\* Nested in each way to a depth.
RECURSIVE Nest(_, _), NestShape(_)
Nest(how, depth) ==
    IF depth = 0 THEN Integer(0)
    ELSE CASE how = "array"  -> <<"Array", <<Nest(how, depth - 1), <<"Null">>>>>>
           [] how = "object" -> <<"Object", <<97>> :> Nest(how, depth - 1)>>
           [] how = "range"  -> <<"Range", <<"Included", Nest(how, depth - 1)>>, <<"Unbounded">>>>
           [] how = "shape"  -> <<"Geometry", NestShape(depth - 1)>>
NestShape(depth) ==
    IF depth = 0 THEN <<"Point", At(1, 2)>> ELSE <<"Collection", <<NestShape(depth - 1)>>>>
Nested == {Nest(how, depth) : how \in {"array", "object", "range", "shape"},
                              depth \in MaxDepth - 1 .. MaxDepth + 1}

\* Longer than a length counts, with more after it.
Long == {<<"Array", <<<<"Bytes", [i \in 1 .. n |-> 1]>>, <<"Null">>>>>> : n \in {Ceiling, U32, U32 + 2}}

Values == Leaves \cup Containers \cup Nested \cup Long

-------------------------------------------------------------------------------
(* Questions.                                                              *)

Plainly(q) == q @@ [as |-> <<>>, keys |-> <<>>]
Ada == [name |-> "ada", password |-> "two words"]
Safe == [namespace |-> "main", database |-> "app", vault |-> "safe"]
TheKey == Safe @@ [key |-> <<0, 255>>]

One == Integer(1)
Two == <<"String", <<59>>>>

Compare(f, how, v) == <<"compare", f, how, v>>
Filters ==
    LET a == Compare("age", "<", One)
        b == Compare("body", "=", Two)
        c == Compare("tags", ">=", One)
    IN {<<>>, <<a>>, <<Compare("two words", "=", One)>>, <<<<"AND", a, b>>>>,
        <<<<"OR", a, <<"AND", b, c>>>>>>, <<<<"AND", <<"OR", a, b>>, c>>>>,
        <<<<"AND", a, <<"OR", b, Compare("two words", "!=", One)>>>>>>}

Selection == [is |-> "select", table |-> "notes", projection |-> <<>>, filter |-> <<>>, order |-> <<>>,
              start |-> <<>>, limit |-> <<>>, staleness |-> <<>>, answered_by |-> <<>>]
Selects ==
    LET Clauses(f) ==
          [Selection EXCEPT !.filter = f, !.start = <<"40">>, !.limit = <<"1">>,
             !.projection = <<<<"field", "age">>, <<"lines", "body", "0", "40">>>>,
             !.order = <<<<"age", "DESC">>, <<"tags", "ASC">>>>,
             !.staleness = <<<<"1", "m", "9", "s">>>>, !.answered_by = <<"LEADER">>]
    IN {[Selection EXCEPT !.filter = f] : f \in Filters} \cup {Clauses(f) : f \in Filters}
       \cup {[Selection EXCEPT !.staleness = <<s>>] :
               s \in UNION {[1 .. n -> {"1", "m", "s", "notes"}] : n \in 0 .. 4}}
       \cup {[Selection EXCEPT !.table = "two words"], [Selection EXCEPT !.answered_by = <<"MASTER">>],
             [Selection EXCEPT !.order = <<<<"two words", "ASC">>>>],
             [Selection EXCEPT !.projection = <<<<"lines", "two words", "0", "1">>>>]}

SomeFields == {<<>>, "body" :> Two, "age" :> One @@ "body" :> Two,
               "tags" :> One @@ "age" :> Two @@ "password" :> <<"Null">>, "two words" :> One}
Writes ==
    [is : {"create"}, table : {"notes", "two words"}, id : {<<>>, <<Two>>}, fields : SomeFields]
    \cup [is : {"update"}, table : {"notes"}, id : {<<Two>>}, fields : SomeFields]
    \cup [is : {"delete"}, table : {"notes", "two words"}, id : {<<Two>>}]
Creates == [is : {"create"}, table : {"notes"}, id : {<<>>}, fields : {"body" :> v : v \in Values}]

Vaulted(q) == q @@ Safe
InVault ==
    {Vaulted(q) : q \in
       [is : {"list"}, after : {<<>>, <<Two>>}, limit : {<<>>, <<0>>, <<1>>, <<MostIds>>, <<MostIds + 1>>}]
       \cup [is : {"reveal"}, id : {Two}, fields : {<<>>, <<"password">>, <<"tags", "age">>, <<"two words">>}]
       \cup [is : {"write"}, id : {Two}, fields : SomeFields]
       \cup [is : {"recipients"}, id : {Two}]
       \cup [is : {"add_recipient"}, id : {Two}, name : {<<97>>}, key : {<<0, 255>>}]
       \cup [is : {"remove_recipient"}, id : {Two}, name : {<<97>>}]}
Audits == [is : {"audit"}, namespace : {"main", "two words"}, database : {"app"}, by : {<<>>, <<"ada">>, <<"two words">>}]

Follows ==
    {[is |-> "follow", from |-> n, table |-> t, cursor |-> c, condition |-> w, parameters |-> p] :
        n \in {0, 256, Sign, U64 - 1}, t \in {<<>>, <<<<97>>>>}, c \in {<<>>, <<<<98, 1>>>>},
        w \in {<<>>, <<<<99>>>>}, p \in {<<>>, <<97>> :> One @@ <<97, 0>> :> Two}}

Acts ==
    {[is |-> "act", act |-> a, place |-> p] :
       a \in {<<"Status">>, <<"Unseal", <<97>>>>, <<"Seal">>, <<"Change", <<97>>, <<>>>>,
              <<"Declare", <<0>>>>, <<"DeclareKeyed", <<1, 2>>>>, <<"ChangeKey", <<1, 2>>, <<3, 4>>>>},
       p \in {<<>>, <<Safe>>, <<[Safe EXCEPT !.vault = "two words"]>>}}

Stored1 == [namespace |-> "main", database |-> "app", space |-> "store"]
OfKeys(qs) == {q @@ [key |-> <<97, 0>>] @@ Stored1 : q \in qs}
Times  == {<<>>} \cup {<<t>> : t \in {<<0, 0>>, <<0, 1>>, <<Sign - 1, 0>>, <<Sign, 0>>}}
Counts == {<<n>> : n \in {-1, 0, 2}}
Three  == <<One, Two, <<"Null">>>>
Lists  == {<<>>, <<Two>>, Three}
Infinity == 31 * 1024
CacheQuestions ==
    OfKeys([is : {"get", "hash_get_all", "members_all", "delete_key", "ttl", "persist", "list_len",
                  "hash_len", "members_len"}]
           \cup [is : {"set"}, value : {Two}, when : {<<>>}, ttl : Times]
           \cup [is : {"set_if"}, value : {Two}, when : {<<"ABSENT">>, <<"PRESENT">>, <<"=", One>>},
                 ttl : Times]
           \cup [is : {"incr"}, by : Ints]
           \cup [is : {"expire"}, ttl : Times \ {<<>>}]
           \cup [is : {"lock", "extend"}, ttl : Times \ {<<>>}, holder : {<<98>>}]
           \cup [is : {"release"}, holder : {<<98>>}]
           \cup [is : {"list_push"}, end : {"FRONT", "BACK"}, values : Lists]
           \cup [is : {"list_pop"}, end : {"FRONT", "BACK"}, count : {<<>>}]
           \cup [is : {"list_pop_many"}, end : {"FRONT", "BACK"}, count : Counts]
           \cup [is : {"list_remove"}, value : {Two}, count : Counts \cup {<<>>}]
           \cup [is : {"list_trim"}, start : {-1, 0}, stop : {-1, 1}]
           \cup [is : {"list_range"}, start : {-1, 0, 1}, count : Counts]
           \cup [is : {"list_at"}, start : {-1, 0}]
           \cup [is : {"hash_set"}, values : {<<>>, <<<<<<97>>, One>>, <<<<98>>, Two>>>>}]
           \cup [is : {"hash_remove", "scores_remove"}, values : {<<>>, <<<<97>>, <<98>>>>}]
           \cup [is : {"hash_get", "scores_score", "scores_rank"}, member : {<<97>>}]
           \cup [is : {"hash_incr"}, member : {<<97>>}, by : {-1, 256}]
           \cup [is : {"members_add", "members_remove"}, values : Lists]
           \cup [is : {"members_has"}, value : {Two}]
           \cup [is : {"scores_add"}, values : {<<>>} \cup {<<<<<<97>>, 1>>, <<<<98>>, f>>>> : f \in {Infinity - 1, Infinity}}]
           \cup [is : {"scores_incr"}, member : {<<97>>}, by : {256, Infinity + 1, Sign + Infinity}]
           \cup [is : {"scores_range"}, start : {0}, stop : {-1}]
           \cup [is : {"scores_between"}, low : {<<>>, <<1>>}, high : {<<>>, <<2>>}])
    \cup {q @@ Stored1 : q \in [is : {"keys"}, prefix : {<<>>, <<<<>>>>, <<<<97>>>>}, after : {<<>>, <<<<98>>>>},
                               limit : {0, 1, MostKeys, MostKeys + 1}]}
    \cup {[is |-> "get", key |-> <<97>>] @@ [Stored1 EXCEPT !.space = "two words"]}

Statements == CacheQuestions \cup Selects \cup Writes \cup InVault \cup Audits
MCQuestions ==
    {Plainly(q) : q \in Statements \cup Creates}
    \cup {q @@ [as |-> <<Ada>>, keys |-> <<>>] : q \in Writes}
    \cup {q @@ [as |-> <<>>, keys |-> <<TheKey>>] : q \in InVault}
    \cup Follows \cup {a \in Acts : a.place = <<>> => a.act[1] \in {"Status", "Unseal", "Seal", "Change"}}

-------------------------------------------------------------------------------
(* Nodes and replies.                                                      *)

MCNodes == {[minor |-> 1, fields |-> 0], [minor |-> 3, fields |-> 1], [minor |-> 4, fields |-> 2],
            [minor |-> 6, fields |-> 3], [minor |-> 7, fields |-> 4], [minor |-> 9, fields |-> 5]}

Found(path, exact, suggestion) ==
    <<"Records", [path |-> path, names |-> (7 :> <<97>> @@ 255 :> <<>>),
                  records |-> <<<<<<97>>, Two>>, <<<<>>, <<"Array", <<One>>>>>>>>,
                  notes |-> <<<<<<97>>, <<98>>>>>>, only |-> TRUE, exact |-> exact,
                  suggestion |-> suggestion]>>
Suggestions == {<<"NotSought">>, <<"NothingNearer">>, <<"DidYouMean", <<>>>>,
                <<"DidYouMean", <<<<<<97>>, <<98>>>>>>>>, <<"Newer">>}
Exacts == {<<"Yes">>, <<"No", <<97>>>>, <<"No", <<>>>>}
Readings == {Found("scan", e, s) : e \in Exacts, s \in Suggestions}
            \cup {Found(p, <<"Yes">>, <<"NotSought">>) : p \in DOMAIN PathByte}
Created == <<"Created", [Found("record", <<"Yes">>, <<"NotSought">>)[2] EXCEPT !.notes = <<>>, !.only = FALSE]>>
Newer == <<"Newer">>
Plain == {<<"Done">>, <<"Value", Two, 7 :> <<97>>>>, <<"Keys", <<>>>>, <<"Keys", <<<<97>>, <<>>>>>>,
          <<"Removed", 0>>, <<"Removed", U64 - 1>>, Newer}
Outcomes == {<<>>} \cup {<<o>> : o \in Plain \cup Readings} \cup {<<a, b>> : a \in Plain, b \in Plain}
            \cup {<<Newer, r, Newer>> : r \in Readings}

Statuses ==
    [state : {"uninitialised", "sealed", "unsealed"}, seals_at : {<<>>, <<<<0, 1>>>>, <<<<Sign - 1, 0>>>>},
     unseal_for : {<<0, 0>>, <<256, Billion - 1>>}, initialised : BOOLEAN,
     custody : {<<>>, <<"own">>, <<"key">>, <<"store">>}]

SomeDeep == {Nest("array", MaxDepth - 1), Nest("array", MaxDepth)}
Spellings == {<<>>, <<97>>, <<QuoteMark>>, <<Backslash>>, <<QuoteMark, 97, QuoteMark>>,
              <<Backslash, QuoteMark, Backslash>>}
OfKeyReplies(is) ==
    CASE is \in Silent   -> {<<>>}
      [] is \in Flagging -> BOOLEAN
      [] is \in Counted  -> {-1, 0, Sign - 1}
      [] is \in Measured \cup {"scores_rank", "scores_score"} -> {<<>>, <<0>>, <<256>>}
      [] is \in Sought   -> {<<>>} \cup {<<v>> : v \in {<<"Null">>, One} \cup SomeDeep}
      [] is \in Elements \cup {"members_all"} -> {<<>>, <<<<>>>>, <<Three>>}
      [] is \in Ranked   -> {<<>>, <<<<>>>>, <<<<<<<<97>>, 0>>, <<<<>>, Sign>>>>>>}
      [] is = "hash_get_all" -> {<<>>, <<<<>>>>, <<<<97>> :> Two>>}
      [] is = "delete_key"   -> {<<>>, <<<<"Null">>>>, <<Two>>}
      [] is = "ttl"  -> {<<"Absent">>, <<"Never">>, <<"Expires", 0, 1>>, <<"Expires", Sign - 1, 0>>}
      [] is = "scores_incr"  -> {0, Sign}
      [] is = "keys" -> {<<>>, <<<<"Other", <<52, 50>>>>>>}
                        \cup {<<<<"Text", a>>, <<"Text", b>>>> : a \in Spellings, b \in Spellings}

Kinds == CacheOps \cup {"select", "create", "update", "delete", "write", "add_recipient",
                        "remove_recipient", "audit", "list", "reveal", "recipients", "follow", "act"}
MCReplies ==
    [is \in Kinds |->
       CASE is \in CacheOps -> OfKeyReplies(is)
         [] is = "select" -> Outcomes
         [] is = "create" -> {<<Created>>, <<Newer, Created, Newer>>, <<<<"Done">>>>}
         [] is = "audit"  -> {<<>>, <<One, Two>>}
         [] is = "list"   -> [ids : {<<>>, <<Two, One>>}, next : {<<>>, <<Two>>}]
         [] is = "reveal" -> {<<>>} \cup {<<97>> :> v @@ <<98>> :> One : v \in SomeDeep}
         [] is = "recipients" -> {<<>>, <<97>> :> <<0, 255>> @@ <<>> :> <<>>}
         [] is = "act"    -> Statuses
         [] is = "follow" ->
              {<<"Progress", [sequence |-> n, cursor |-> c]>> : n \in {0, U64 - 1}, c \in {<<>>, <<<<98>>>>}}
              \cup {<<"Change", [sequence |-> n, table |-> <<97>>, id |-> <<>>, became |-> b, cursor |-> c]>> :
                      n \in {0, Sign}, c \in {<<>>, <<<<98>>>>},
                      b \in {<<"Removed">>} \cup {<<"Written", v>> : v \in SomeDeep}}
         [] OTHER -> {<<<<"Done">>>>, <<Newer, <<"Done">>>>}]

MCRefusals ==
    [is \in Kinds |->
       IF is \in {"update", "follow", "act"}
       THEN [class : ToSet(Classes) \cup {"Unknown"}, message : {<<97, 1>>, <<97, 255>>}]
            \cup [class : {"Unknown"}, message : {<<>>}]
       ELSE {}]
MCRedirects ==
    [is \in Kinds |->
       IF is \in {"update", "follow", "act"}
       THEN [node : {<<0, 255>>}, epoch : {0, 256, U64 - 1}, settlement : DOMAIN SettlementByte,
             endpoint : {<<>>, <<97, 0>>}]
       ELSE {}]
===============================================================================
