------------------------------ MODULE CacheCalls ------------------------------
(***************************************************************************)
(* A cache handle's calls on a key, its containers included: the one       *)
(* statement each sends, what it refuses to send, and what it makes of the *)
(* answer (cache.rs, cache/statements.rs, cache/containers.rs,             *)
(* cache/containers/rankings.rs, cache/statements/containers.rs).          *)
(*                                                                         *)
(* What callers of one key do to each other is Space's.  A double is its   *)
(* bits: a sign, five of exponent and ten more.                            *)
(***************************************************************************)
EXTENDS Messages

MostKeys == 1000

Integer(n)  == <<"Number", <<"Integer", n>>>>
Float(f)    == <<"Number", <<"Float", f>>>>
String(t)   == <<"String", t>>
Missing     == <<"None">>
IsFinite(f) == (f % Sign) \div 1024 # 31

\* Calls by what they are answered with.
Counted  == {"incr", "list_push", "list_remove", "hash_set", "hash_remove", "hash_incr",
             "members_add", "members_remove", "scores_add", "scores_remove"}
Measured == {"list_len", "hash_len", "members_len"}
Sought   == {"get", "list_pop", "list_at", "hash_get"}
Elements == {"list_pop_many", "list_range"}
Ranked   == {"scores_range", "scores_between"}
Flagging == {"set_if", "expire", "persist", "lock", "extend", "release", "members_has"}
Silent   == {"set", "list_trim"}
CacheOps == Counted \cup Measured \cup Sought \cup Elements \cup Ranked \cup Flagging \cup Silent
            \cup {"delete_key", "ttl", "keys", "hash_get_all", "members_all",
                  "scores_incr", "scores_score", "scores_rank"}

-------------------------------------------------------------------------------
(* What is refused.                                                        *)

NotPositive(ttl) == ttl = <<0, 0>> \/ ttl[1] >= Sign

CacheRefused(q) ==
    \/ \E name \in {q.namespace, q.database, q.space} : ~IsName(name)
    \/ q.is \in {"set", "set_if", "expire", "lock", "extend"}
       /\ \E i \in DOMAIN q.ttl : NotPositive(q.ttl[i])
    \/ q.is = "keys" /\ q.limit \notin 1 .. MostKeys
    \/ q.is \in {"list_push", "hash_set", "hash_remove", "members_add", "members_remove",
                "scores_add", "scores_remove"} /\ q.values = <<>>
    \/ q.is \in {"list_pop_many", "list_range", "list_remove"} /\ \E i \in DOMAIN q.count : q.count[i] < 0
    \/ q.is = "list_range" /\ q.start < 0
    \/ q.is = "scores_add" /\ \E i \in DOMAIN q.values : ~IsFinite(q.values[i][2])
    \/ q.is = "scores_incr" /\ ~IsFinite(q.by)

-------------------------------------------------------------------------------
(* Statements.                                                             *)

Nth(prefix, i) == prefix \o ToString(i - 1)
Refer(name)    == "$" \o name
Beside(name, part, Of(_)) == IF part = <<>> THEN <<>> ELSE [n \in {name} |-> Of(part[1])]

\* Values under names that count their places, and the references to them.
Numbered(prefix, values) ==
    FoldLeftDomain(LAMBDA held, i : Bound(held, Nth(prefix, i), values[i]), <<>>, values)
References(prefix, values) ==
    Joined([i \in DOMAIN values |-> <<Refer(Nth(prefix, i))>>], ",")

Paired(left, right, pairs, Of(_)) ==
    Numbered(left, [i \in DOMAIN pairs |-> String(pairs[i][1])])
    @@ Numbered(right, [i \in DOMAIN pairs |-> Of(pairs[i][2])])
Pairings(left, right, pairs) ==
    Joined([i \in DOMAIN pairs |-> <<Refer(Nth(left, i)), "=", Refer(Nth(right, i))>>], ",")

AtKey(q) == <<q.space, ":", "$k">>
Keyed(q, words, given) ==
    [text |-> Tenancy(q) \o words \o <<";">>, parameters |-> given @@ ("k" :> String(q.key))]

\* A function of the key's value and of what is bound beside it.
Computed(q, name, arguments, given) ==
    Keyed(q, <<"RETURN", name, "(", "GET">> \o AtKey(q)
             \o FlattenSeq([i \in DOMAIN arguments |-> <<",", arguments[i]>>]) \o <<")">>, given)

Expiry(part)  == Clause(part, LAMBDA t : <<"EXPIRE", "$t">>)
Lasting(part) == Beside("t", part, LAMBDA t : <<"Duration">> \o t)

KeyStatement(q) ==
    LET Set(words, given) == Keyed(q, <<"SET">> \o AtKey(q) \o <<"=">> \o words, given)
    IN CASE q.is \in {"get", "hash_get_all", "members_all"} -> Keyed(q, <<"GET">> \o AtKey(q), <<>>)
         [] q.is = "set" -> Set(<<"$v">> \o Expiry(q.ttl), ("v" :> q.value) @@ Lasting(q.ttl))
         [] q.is = "set_if" ->
              Set(<<"$v", "IF">> \o (IF q.when[1] = "=" THEN <<"=", "$e">> ELSE q.when) \o Expiry(q.ttl),
                  ("v" :> q.value) @@ Beside("e", Tail(q.when), LAMBDA e : e) @@ Lasting(q.ttl))
         [] q.is = "delete_key" -> Keyed(q, <<"DELETE">> \o AtKey(q) \o <<"RETURN", "BEFORE">>, <<>>)
         [] q.is = "incr"    -> Keyed(q, <<"INCR">> \o AtKey(q) \o <<"BY", "$n">>, "n" :> Integer(q.by))
         [] q.is = "ttl"     -> Keyed(q, <<"RETURN", "TTL">> \o AtKey(q), <<>>)
         [] q.is = "expire"  -> Keyed(q, <<"EXPIRE">> \o AtKey(q) \o <<"$t">>, Lasting(q.ttl))
         [] q.is = "persist" -> Keyed(q, <<"PERSIST">> \o AtKey(q), <<>>)
         [] q.is = "lock"    -> Set(<<"$h", "IF", "ABSENT">> \o Expiry(q.ttl),
                                    ("h" :> String(q.holder)) @@ Lasting(q.ttl))
         [] q.is = "extend"  -> Set(<<"$h", "IF", "=", "$h">> \o Expiry(q.ttl),
                                    ("h" :> String(q.holder)) @@ Lasting(q.ttl))
         [] q.is = "release" -> Set(<<"'free'", "IF", "=", "$h", "EXPIRE", "1ms">>,
                                    "h" :> String(q.holder))

\* An empty prefix is every key, as none is.
Listing(q) ==
    LET prefix == SelectSeq(q.prefix, LAMBDA p : p # <<>>)
    IN Given(Tenancy(q) \o <<"KEYS", "FROM", q.space>>
             \o Clause(prefix, LAMBDA p : <<"PREFIX", "$p">>)
             \o Clause(q.after, LAMBDA a : <<"AFTER", "$a">>) \o <<"LIMIT", ToString(q.limit), ";">>,
             Beside("p", prefix, String) @@ Beside("a", q.after, String))

ListStatement(q) ==
    LET OnList(verb, words, given) == Keyed(q, <<"LIST", verb>> \o AtKey(q) \o words, given)
        Limit == Clause(q.count, LAMBDA n : <<"LIMIT", "$n">>)
        Count == Beside("n", q.count, Integer)
        From  == "i" :> Integer(q.start)
    IN CASE q.is = "list_push"   -> OnList("PUSH", <<q.end>> \o References("v", q.values),
                                          Numbered("v", q.values))
         [] q.is \in {"list_pop", "list_pop_many"} -> OnList("POP", <<q.end>> \o Limit, Count)
         [] q.is = "list_remove" -> OnList("REMOVE", <<"$v">> \o Limit, ("v" :> q.value) @@ Count)
         [] q.is = "list_trim"   -> OnList("TRIM", <<"FROM", "$i", "TO", "$j">>,
                                          From @@ ("j" :> Integer(q.stop)))
         [] q.is = "list_range"  -> Computed(q, "array::slice", <<"$i", "$n">>, From @@ Count)
         [] q.is = "list_at"     -> Computed(q, "array::at", <<"$i">>, From)
         [] q.is = "list_len"    -> Computed(q, "array::len", <<>>, <<>>)

HashStatement(q) ==
    LET Hash(verb, words, given) == Keyed(q, <<"HASH", verb>> \o AtKey(q) \o words, given)
        Field == "f" :> String(q.member)
    IN CASE q.is = "hash_set"    -> Hash("SET", Pairings("f", "v", q.values),
                                         Paired("f", "v", q.values, LAMBDA v : v))
         [] q.is = "hash_remove" -> Hash("REMOVE", References("f", q.values),
                                         Numbered("f", [i \in DOMAIN q.values |-> String(q.values[i])]))
         [] q.is = "hash_incr"   -> Hash("INCR", <<"$f", "BY", "$n">>, Field @@ ("n" :> Integer(q.by)))
         [] q.is = "hash_get"    -> Computed(q, "object::get", <<"$f">>, Field)
         [] q.is = "hash_len"    -> Computed(q, "object::len", <<>>, <<>>)

MembersStatement(q) ==
    LET Members(verb) == Keyed(q, <<"MEMBERS", verb>> \o AtKey(q) \o References("v", q.values),
                               Numbered("v", q.values))
    IN CASE q.is = "members_add"    -> Members("ADD")
         [] q.is = "members_remove" -> Members("REMOVE")
         [] q.is = "members_has"    -> Keyed(q, <<"RETURN", "$v", "IN", "GET">> \o AtKey(q), "v" :> q.value)
         [] q.is = "members_len"    -> Computed(q, "set::len", <<>>, <<>>)

\* A bound that is absent is written in its place.
ScoresStatement(q) ==
    LET Scores(verb, words, given) == Keyed(q, <<"SCORES", verb>> \o AtKey(q) \o words, given)
        Member           == "m" :> String(q.member)
        End(part, name)  == IF part = <<>> THEN "NONE" ELSE Refer(name)
    IN CASE q.is = "scores_add"    -> Scores("ADD", Pairings("m", "c", q.values),
                                             Paired("m", "c", q.values, Float))
         [] q.is = "scores_remove" -> Scores("REMOVE", References("m", q.values),
                                             Numbered("m", [i \in DOMAIN q.values |-> String(q.values[i])]))
         [] q.is = "scores_incr"   -> Scores("INCR", <<"$m", "BY", "$c">>, Member @@ ("c" :> Float(q.by)))
         [] q.is = "scores_score"  -> Computed(q, "scores::score", <<"$m">>, Member)
         [] q.is = "scores_rank"   -> Computed(q, "scores::rank", <<"$m">>, Member)
         [] q.is = "scores_range"  -> Computed(q, "scores::range", <<"$i", "$j">>,
                                               ("i" :> Integer(q.start)) @@ ("j" :> Integer(q.stop)))
         [] q.is = "scores_between" ->
              Computed(q, "scores::between", <<End(q.low, "lo"), End(q.high, "hi")>>,
                       Beside("lo", q.low, Float) @@ Beside("hi", q.high, Float))

CacheStatement(q) ==
    CASE q.is = "keys" -> Listing(q)
      [] q.is \in {"list_push", "list_pop", "list_pop_many", "list_remove", "list_trim", "list_range",
                   "list_at", "list_len"}                                            -> ListStatement(q)
      [] q.is \in {"hash_set", "hash_remove", "hash_incr", "hash_get", "hash_len"}   -> HashStatement(q)
      [] q.is \in {"members_add", "members_remove", "members_has", "members_len"}    -> MembersStatement(q)
      [] q.is \in {"scores_add", "scores_remove", "scores_incr", "scores_score", "scores_rank"} \cup Ranked
                                                                                     -> ScoresStatement(q)
      [] OTHER                                                                       -> KeyStatement(q)

-------------------------------------------------------------------------------
(* Answers.                                                                *)

QuoteMark == 39
Backslash == 92

\* A key that came in quotes is the text within, without its escapes.
UnquotedKey(spelled) ==
    LET quoted == /\ Len(spelled) > 1
                  /\ Head(spelled) = QuoteMark /\ Last(spelled) = QuoteMark
        Char(held, c) == IF held.escaped \/ c # Backslash
                         THEN [out |-> Append(held.out, c), escaped |-> FALSE]
                         ELSE [held EXCEPT !.escaped = TRUE]
        read == FoldLeft(Char, [out |-> <<>>, escaped |-> FALSE], SubSeq(spelled, 2, Len(spelled) - 1))
    IN IF ~quoted THEN spelled
       ELSE IF read.escaped THEN Append(read.out, Backslash) ELSE read.out

\* The last answer's value; a statement that answers none reads as None.
LastOrNone(answers) ==
    IF answers # <<>> /\ Last(answers) = <<"Done">> THEN Result(Missing) ELSE LastValue(answers)

When(held, x) == IF held THEN Result(x) ELSE Malformed
IsInteger(v)  == v[1] = "Number" /\ v[2][1] = "Integer"
IsFloat(v)    == v[1] = "Number" /\ v[2][1] = "Float"
IsScored(v)   == v[1] = "Array" /\ Len(v[2]) = 2 /\ v[2][1][1] = "String" /\ IsFloat(v[2][2])

\* What a call makes of a key that is there, and of one that is not.
OrEmpty(v, empty, held, Of(_)) ==
    IF v = Missing THEN Result(empty) ELSE IF held THEN Result(Of(v[2])) ELSE Malformed

RankingValue(is, v) ==
    CASE is = "scores_incr"  -> When(IsFloat(v), v[2][2])
      [] is = "scores_score" -> OrEmpty(v, <<>>, IsFloat(v), LAMBDA n : <<n[2]>>)
      [] is = "scores_rank"  -> OrEmpty(v, <<>>, IsInteger(v), LAMBDA n : <<n[2]>>)
      [] is \in Ranked       ->
           OrEmpty(v, <<>>, v[1] = "Array" /\ \A i \in DOMAIN v[2] : IsScored(v[2][i]),
                   LAMBDA items : [i \in DOMAIN items |-> <<items[i][2][1][2], items[i][2][2][2][2]>>])

CacheValue(is, v) ==
    CASE is \in Silent   -> Result(TRUE)
      [] is \in Flagging -> When(v[1] = "Bool", v[2])
      [] is \in Counted  -> When(IsInteger(v), v[2][2])
      [] is \in Measured -> OrEmpty(v, 0, IsInteger(v), LAMBDA n : n[2])
      [] is \in Sought   -> Result(IF v = Missing THEN <<>> ELSE <<v>>)
      [] is \in Elements -> OrEmpty(v, <<>>, v[1] = "Array", LAMBDA items : items)
      [] is = "hash_get_all" -> OrEmpty(v, <<>>, v[1] = "Object", LAMBDA fields : fields)
      [] is = "members_all"  -> OrEmpty(v, <<>>, v[1] = "Set", LAMBDA members : members)
      [] is = "delete_key"   -> Result(v # Missing)
      [] is = "ttl" -> (CASE v = Missing    -> Result(<<"Absent">>)
                          [] v = <<"Null">> -> Result(<<"Never">>)
                          [] OTHER          -> Made(Seconds(v, "Duration"), LAMBDA t : <<"Expires">> \o t))
      [] OTHER -> RankingValue(is, v)

CacheResult(q, answers) ==
    IF q.is # "keys"
    THEN Then(LastOrNone(answers), LAMBDA v, none : CacheValue(q.is, v))
    ELSE IF answers # <<>> /\ Last(answers)[1] = "Keys"
    THEN LET keys == Last(answers)[2] IN Result([i \in DOMAIN keys |-> UnquotedKey(keys[i])])
    ELSE Malformed
==============================================================================
