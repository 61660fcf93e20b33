--------------------------------- MODULE Query ---------------------------------
(***************************************************************************)
(* The statements the library writes for its caller: the query builder     *)
(* (query/mod.rs, filter.rs, select.rs, write.rs) and a vault handle's     *)
(* (vault/statements.rs).                                                  *)
(*                                                                         *)
(* A script is a sequence of words.  A value is never one of them: the     *)
(* script has a reference, and the value goes beside it, a parameter bound *)
(* to the reference's name.  What a caller asked for is a record; a part   *)
(* it may leave out is a sequence of one or none.  Maps are functions from *)
(* words, and iterated in the order of Words.                              *)
(***************************************************************************)
EXTENDS Integers, SequencesExt

CONSTANTS
    Words,       \* every word of a statement, in the order of their bytes
    PlainNames   \* those that are names: letters, digits and underscores

Code(word)    == CHOOSE i \in DOMAIN Words : Words[i] = word
Sorted(words) == SortSeq(words, LAMBDA v, w : Code(v) < Code(w))
Keys(map)     == Sorted(SetToSeq(DOMAIN map))

IsName(word) == word \in PlainNames

Joined(parts, between) ==
    FlattenSeq([i \in DOMAIN parts |-> IF i = 1 THEN parts[i] ELSE <<between>> \o parts[i]])

Clause(part, Spelled(_)) == IF part = <<>> THEN <<>> ELSE Spelled(part[1])

-------------------------------------------------------------------------------
(* Values beside the script.                                               *)

Binder == [parameters |-> <<>>, next |-> 0, text |-> <<>>]

Bound(given, name, value) ==
    [n \in DOMAIN given \cup {name} |-> IF n = name THEN value ELSE given[n]]

\* Binds a value, and writes the words before it and the reference to it.
Bind(binder, before, value) ==
    LET name == "p" \o ToString(binder.next)
    IN [parameters |-> Bound(binder.parameters, name, value),
        next       |-> binder.next + 1,
        text       |-> binder.text \o before \o <<"$" \o name>>]

Write(binder, words) == [binder EXCEPT !.text = @ \o words]

\* Every field with a value, as `name is reference, ...`.
BindFields(binder, fields, is) ==
    LET names == Keys(fields)
        Field(held, i) ==
            Bind(held, (IF i = 1 THEN <<>> ELSE <<",">>) \o <<names[i], is>>, fields[names[i]])
    IN FoldLeftDomain(Field, binder, names)

RecordTarget(binder, table, id) == Bind(binder, <<table, ":">>, id)

-------------------------------------------------------------------------------
(* Conditions.                                                             *)

\* Fully in parentheses: the tree the caller built is the tree that is read.
RECURSIVE RenderNode(_, _)
RenderNode(binder, node) ==
    IF node[1] = "compare"
    THEN Bind(binder, <<node[2], node[3]>>, node[4])
    ELSE LET left  == RenderNode(Write(binder, <<"(">>), node[2])
             right == RenderNode(Write(left, <<node[1]>>), node[3])
         IN Write(right, <<")">>)

RECURSIVE NamesOf(_)
NamesOf(node) == IF node[1] = "compare" THEN {node[2]} ELSE NamesOf(node[2]) \cup NamesOf(node[3])

\* A span is digits and a unit, once or more.  A bound is its characters; of two
\* units that begin alike the longer is looked for first.
SpanUnits == <<<<"m", "s">>, <<"n", "s">>, <<"u", "s">>, <<"s">>, <<"m">>, <<"h">>, <<"d">>, <<"w">>>>
Digits    == {ToString(d) : d \in 0 .. 9}

RECURSIVE CheckSpan(_, _)
CheckSpan(rest, seen) ==
    IF rest = <<>> THEN seen
    ELSE LET past  == SelectInSeq(rest, LAMBDA c : c \notin Digits)
             after == SubSeq(rest, past, Len(rest))
             unit  == SelectInSeq(SpanUnits, LAMBDA u : IsPrefix(u, after))
         IN /\ past > 1
            /\ unit > 0
            /\ CheckSpan(SubSeq(after, Len(SpanUnits[unit]) + 1, Len(after)), TRUE)

-------------------------------------------------------------------------------
(* The builder's statements.                                               *)

RenderProjection(item) ==
    IF item[1] = "field" THEN <<item[2]>>
    ELSE <<"string::lines", "(", item[2], ",", item[3], ",", item[4], ")", "AS", item[2]>>

Select(q) ==
    LET items == [i \in DOMAIN q.projection |-> RenderProjection(q.projection[i])]
        from  == Write(Binder, <<"SELECT">>
                               \o (IF items = <<>> THEN <<"*">> ELSE Joined(items, ","))
                               \o <<"FROM", q.table>>)
        where == IF q.filter = <<>> THEN from
                 ELSE RenderNode(Write(from, <<"WHERE">>), q.filter[1])
    IN Write(where,
             (IF q.order = <<>> THEN <<>> ELSE <<"ORDER BY">> \o Joined(q.order, ","))
             \o Clause(q.start, LAMBDA at : <<"START", at>>)
             \o Clause(q.limit, LAMBDA count : <<"LIMIT", count>>)
             \o Clause(q.staleness, LAMBDA bound : <<"STALENESS">> \o bound)
             \o Clause(q.answered_by, LAMBDA answerer : <<"ANSWERED BY", answerer>>)
             \o <<";">>)

SelectRefused(q) ==
    \/ ~IsName(q.table)
    \/ \E i \in DOMAIN q.projection : ~IsName(q.projection[i][2])
    \/ q.filter # <<>> /\ \E name \in NamesOf(q.filter[1]) : ~IsName(name)
    \/ \E i \in DOMAIN q.order : ~IsName(q.order[i][1])
    \/ q.staleness # <<>> /\ ~CheckSpan(q.staleness[1], FALSE)
    \/ q.answered_by # <<>> /\ q.answered_by[1] \notin {"ANY", "LEADER"}

Create(q) ==
    LET target == IF q.id = <<>> THEN Write(Binder, <<"CREATE", q.table>>)
                  ELSE RecordTarget(Write(Binder, <<"CREATE">>), q.table, q.id[1])
    IN Write(BindFields(Write(target, <<"=", "{">>), q.fields, ":"), <<"}", ";">>)

Update(q) ==
    LET target == RecordTarget(Write(Binder, <<"UPDATE">>), q.table, q.id[1])
    IN Write(BindFields(Write(target, <<"SET">>), q.fields, "="), <<";">>)

Delete(q) == Write(RecordTarget(Write(Binder, <<"DELETE">>), q.table, q.id[1]), <<";">>)

WriteRefused(q) ==
    \/ q.is \in {"create", "update"} /\ DOMAIN q.fields = {}
    \/ ~IsName(q.table)
    \/ q.is \in {"create", "update"} /\ \E name \in DOMAIN q.fields : ~IsName(name)

-------------------------------------------------------------------------------
(* A vault's statements.                                                   *)

Tenancy(q) == <<"USE NAMESPACE", q.namespace, ";", "USE DATABASE", q.database, ";">>

Given(script, parameters) == [text |-> script, parameters |-> parameters]

\* Names as a script may have them for fields: checked, in order, and quoted.
Quote(name)         == "'" \o name \o "'"
QuotedFields(names) == [i \in DOMAIN names |-> Quote(Sorted(names)[i])]

AtId(q) == <<q.vault, ":", "$id">>

MostIds == 10000

LimitRefused(limit) == limit # <<>> /\ (limit[1] = 0 \/ limit[1] > MostIds)

Audit(q) ==
    Given(Tenancy(q) \o <<"INFO FOR AUDIT">> \o Clause(q.by, LAMBDA who : <<"BY", who>>)
          \o <<";">>, <<>>)

List(q) ==
    Given(Tenancy(q) \o <<"INFO FOR VAULT", q.vault, "RECORDS">>
          \o Clause(q.after, LAMBDA id : <<"AFTER", q.vault, ":", "$after">>)
          \o Clause(q.limit, LAMBDA n : <<"LIMIT", ToString(n)>>) \o <<";">>,
          IF q.after = <<>> THEN <<>> ELSE [n \in {"after"} |-> q.after[1]])

Reveal(q) ==
    LET names == QuotedFields(q.fields)
        which == IF names = <<>> THEN <<"*">>
                 ELSE Joined([i \in DOMAIN names |-> <<names[i]>>], ",")
    IN Given(Tenancy(q) \o <<"REVEAL">> \o which \o <<"FROM">> \o AtId(q) \o <<";">>,
             [n \in {"id"} |-> q.id])

\* The names, sorted and quoted, meet the values, sorted by the same names.
VaultWrite(q) ==
    LET names   == QuotedFields(SetToSeq(DOMAIN q.fields))
        ordered == [i \in DOMAIN names |-> q.fields[Keys(q.fields)[i]]]
        Nth(i)  == "f" \o ToString(i - 1)
        pairs   == [i \in DOMAIN names |-> <<names[i], ":", "$" \o Nth(i)>>]
        given   == FoldLeftDomain(LAMBDA held, i : Bound(held, Nth(i), ordered[i]),
                                  [n \in {"id"} |-> q.id], names)
    IN Given(Tenancy(q) \o <<"UPSERT">> \o AtId(q) \o <<"MERGE", "{">>
             \o Joined(pairs, ",") \o <<"}", ";">>, given)

Recipients(q) ==
    Given(Tenancy(q) \o <<"INFO FOR RECIPIENTS OF">> \o AtId(q) \o <<";">>, [n \in {"id"} |-> q.id])

AddRecipient(q) ==
    Given(Tenancy(q) \o <<"ADD RECIPIENT", "$name", "TO">> \o AtId(q) \o <<"KEY", "$key", ";">>,
          [n \in {"id", "name", "key"} |->
             CASE n = "id" -> q.id [] n = "name" -> <<"String", q.name>>
               [] n = "key" -> <<"Bytes", q.key>>])

RemoveRecipient(q) ==
    Given(Tenancy(q) \o <<"REMOVE RECIPIENT", "$name", "FROM">> \o AtId(q) \o <<";">>,
          [n \in {"id", "name"} |-> IF n = "id" THEN q.id ELSE <<"String", q.name>>])

VaultRefused(q) ==
    \/ ~IsName(q.namespace) \/ ~IsName(q.database)
    \/ q.is # "audit" /\ ~IsName(q.vault)
    \/ q.is = "audit" /\ q.by # <<>> /\ ~IsName(q.by[1])
    \/ q.is = "list" /\ LimitRefused(q.limit)
    \/ q.is = "reveal" /\ \E i \in DOMAIN q.fields : ~IsName(q.fields[i])
    \/ q.is = "write" /\ (DOMAIN q.fields = {} \/ \E name \in DOMAIN q.fields : ~IsName(name))

-------------------------------------------------------------------------------
Builder == {"select", "create", "update", "delete"}

Refused(q) ==
    IF q.is = "select" THEN SelectRefused(q)
    ELSE IF q.is \in Builder THEN WriteRefused(q) ELSE VaultRefused(q)

Build(q) ==
    CASE q.is = "select" -> Select(q)
      [] q.is = "create" -> Create(q)
      [] q.is = "update" -> Update(q)
      [] q.is = "delete" -> Delete(q)
      [] q.is = "audit"  -> Audit(q)
      [] q.is = "list"   -> List(q)
      [] q.is = "reveal" -> Reveal(q)
      [] q.is = "write"  -> VaultWrite(q)
      [] q.is = "recipients" -> Recipients(q)
      [] q.is = "add_recipient"    -> AddRecipient(q)
      [] q.is = "remove_recipient" -> RemoveRecipient(q)
==============================================================================
