------------------------------- MODULE Messages -------------------------------
(***************************************************************************)
(* The bodies of frames: what the client writes into them and what it      *)
(* reads out of them (wire/message.rs, wire/push.rs, wire/frame.rs,        *)
(* wire/redirect.rs, refusal.rs, vault/call.rs, vault.rs).                 *)
(*                                                                         *)
(* Integers are plain in this layer, unlike the codec's i64.  Texts are    *)
(* sequences of bytes here; a word of a statement, or a name, is one byte. *)
(* What may be absent is a sequence of one or none.                        *)
(***************************************************************************)
EXTENDS Codec, Query

CONSTANT Ceiling    \* the longest body a frame may have

ASSUME MessagesAssumption ==
    \* A length that saturates is above the ceiling, and a word is a byte.
    /\ Ceiling < U32 - 1
    /\ Len(Words) < 200

Spell(words) == [i \in DOMAIN words |-> Code(words[i])]
Text(word)   == Spell(<<word>>)

-------------------------------------------------------------------------------
(* What the client writes.                                                 *)

PutText(text)   == PutLenbytes(text)
PutBytes(bytes) == PutLenbytes(bytes)

PutKey(k) == PutText(k.namespace) \o PutText(k.database) \o PutText(k.vault) \o k.key

EncodeRequest(r) ==
    LET Parameter(name) == PutText(name) \o PutBytes(Encode(r.parameters[name]))
    IN PutText(r.script)
       \o (IF r.credentials = <<>> THEN <<0>>
           ELSE <<1>> \o PutText(r.credentials[1].name) \o PutText(r.credentials[1].password))
       \o PutMany(InOrder(DOMAIN r.parameters), Parameter)
       \* The byte before the keys asks for no stream.
       \o (IF r.keys = <<>> THEN <<>> ELSE <<0>> \o PutMany(r.keys, PutKey))

\* Faulty: the condition follows the table where there is no cursor.
FollowInTurn(f) ==
    PutPlain(f.from)
    \o (IF f.table = <<>> THEN <<0>> ELSE <<1>> \o PutText(f.table[1]))
    \o (IF f.cursor = <<>> THEN <<>> ELSE PutText(f.cursor[1]))
    \o (IF f.condition = <<>> THEN <<>>
        ELSE PutText(f.condition[1]) \o PutBytes(Encode(<<"Object", f.parameters>>)))

\* A condition needs the cursor's place filled: with the empty text, if with none.
EncodeFollow(f) ==
    PutPlain(f.from)
    \o (IF f.table = <<>> THEN <<0>> ELSE <<1>> \o PutText(f.table[1]))
    \o (IF f.cursor # <<>> THEN PutText(f.cursor[1])
        ELSE IF f.condition # <<>> THEN PutText(<<>>) ELSE <<>>)
    \o (IF f.condition = <<>> THEN <<>>
        ELSE PutText(f.condition[1]) \o PutBytes(Encode(<<"Object", f.parameters>>)))

\* A passphrase is a text, a key has its bytes alone.
VaultBody(act, place) ==
    <<0>>
    \o (IF place = <<>> THEN <<0>>
        ELSE <<1>> \o PutText(place[1].namespace) \o PutText(place[1].database)
                   \o PutText(place[1].vault))
    \o CASE act[1] = "Status"       -> <<1>>
         [] act[1] = "Unseal"       -> <<2>> \o PutText(act[2])
         [] act[1] = "Seal"         -> <<3>>
         [] act[1] = "Change"       -> <<4>> \o PutText(act[2]) \o PutText(act[3])
         [] act[1] = "Declare"      -> <<5>> \o PutText(act[2])
         [] act[1] = "DeclareKeyed" -> <<6>> \o act[2]
         [] act[1] = "ChangeKey"    -> <<7>> \o act[2] \o act[3]

\* A length is saturated before it is compared, and refused all the same.
TooLarge(body) == CountOf(Len(body)) > Ceiling

-------------------------------------------------------------------------------
(* What it reads.                                                          *)

\* One more field after those taken.
Also(taken, TakeNext(_)) ==
    Then(taken, LAMBDA held, rest : Made(TakeNext(rest), LAMBDA x : Append(held, x)))
First(taken) == Made(taken, LAMBDA x : <<x>>)

\* A field that frames of older nodes end before.
Appended(b, absent, TakeField(_)) == IF b = <<>> THEN Got(absent, b) ELSE TakeField(b)
Some(taken) == First(taken)

\* What a block holds, read within its own length.
TakeWithin(b, Read(_)) ==
    Then(TakeLenbytes(b), LAMBDA bytes, rest :
           LET held == Read(bytes) IN IF held.ok THEN Got(held.got, rest) ELSE held)
TakeDecoded(b) == TakeWithin(b, Decode)

TakeFlag(b)  == Made(TakeU8(b), LAMBDA flag : flag # 0)
TakeTexts(b) == Both(TakeText(b), TakeText)
TakeNames(b) == Made(TakeMany(b, LAMBDA rest : Both(TakeU32(rest), TakeText)), FieldsOf)

PathName(tag) ==
    CASE tag = 0 -> "record" [] tag = 1 -> "index" [] tag = 3 -> "ordered" [] OTHER -> "scan"

\* An answer is exact, or it is not and says why.
TakeExact(b) ==
    Made(Both(TakeFlag(b), TakeText),
         LAMBDA e : IF e[1] THEN <<"No", e[2]>> ELSE <<"Yes">>)

\* Faulty: a state this client has no word for is malformed.
SuggestionKnown(b) ==
    Then(TakeU8(b), LAMBDA state, rest :
           CASE state = 0 -> Got(<<<<"NotSought">>>>, rest)
             [] state = 1 -> Got(<<<<"NothingNearer">>>>, rest)
             [] state = 2 -> Some(Typed("DidYouMean", TakeMany(rest, TakeTexts)))
             [] OTHER     -> Fault("Malformed"))

\* A state this client has no word for is as one that is absent.
TakeSuggestion(b) ==
    Then(TakeU8(b), LAMBDA state, rest :
           CASE state = 0 -> Got(<<<<"NotSought">>>>, rest)
             [] state = 1 -> Got(<<<<"NothingNearer">>>>, rest)
             [] state = 2 -> Some(Typed("DidYouMean", TakeMany(rest, TakeTexts)))
             [] OTHER     -> Got(<<>>, rest))

TakeRecords(b) ==
    Then(Made(TakeU8(b), PathName),                               LAMBDA path, r1 :
    Then(TakeNames(r1),                                           LAMBDA names, r2 :
    Then(TakeMany(r2, LAMBDA r : Both(TakeText(r), TakeDecoded)),     LAMBDA records, r3 :
    Then(Appended(r3, <<>>, LAMBDA r : TakeMany(r, TakeTexts)),   LAMBDA notes, r4 :
    Then(Appended(r4, FALSE, TakeFlag),                           LAMBDA only, r5 :
    Then(Appended(r5, <<>>, LAMBDA r : Some(TakeExact(r))),       LAMBDA exact, r6 :
    Made(Appended(r6, <<>>, TakeSuggestion),                      LAMBDA suggestion :
      <<"Records", [path |-> path, names |-> names, records |-> records, notes |-> notes,
                    only |-> only, exact |-> exact, suggestion |-> suggestion]>>)))))))

DecodeOne(b) ==
    Then(TakeU8(b), LAMBDA tag, body :
           CASE tag = 0 -> Got(<<"Done">>, body)
             [] tag = 1 -> TakeRecords(body)
             [] tag = 2 -> Made(Both(TakeNames(body), TakeDecoded),
                                LAMBDA v : <<"Value", v[2], v[1]>>)
             [] tag = 3 -> Typed("Keys", TakeMany(body, TakeText))
             [] tag = 4 -> Typed("Removed", TakePlain(body))
             [] OTHER   -> Got(<<"Unknown">>, body))

\* An outcome is read within its own length, and what is left of it passed over.
DecodeAnswers(body) == TakeMany(body, LAMBDA b : TakeWithin(b, DecodeOne))

TakeBecame(b) ==
    Then(TakeU8(b), LAMBDA kind, rest :
           CASE kind = 0 -> Typed("Written", TakeDecoded(rest))
             [] kind = 1 -> Got(<<"Removed">>, rest)
             [] OTHER    -> Fault("Malformed"))
TakeCursor(b) == Appended(b, <<>>, LAMBDA left : Some(TakeText(left)))

DecodeChange(body) ==
    Then(TakePlain(body), LAMBDA sequence, r1 :
    Then(TakeText(r1),    LAMBDA table, r2 :
    Then(TakeText(r2),    LAMBDA id, r3 :
    Then(TakeBecame(r3),  LAMBDA became, r4 :
    Made(TakeCursor(r4),  LAMBDA cursor :
      <<"Change", [sequence |-> sequence, table |-> table, id |-> id,
                   became |-> became, cursor |-> cursor]>>)))))

DecodeProgress(body) ==
    Made(Both(TakePlain(body), TakeCursor),
         LAMBDA p : <<"Progress", [sequence |-> p[1], cursor |-> p[2]]>>)

\* Zero is what a cut buffer holds, so a settlement that is neither is refused.
TakeSettlement(b) ==
    Then(TakeU8(b), LAMBDA byte, rest :
           CASE byte = 1 -> Got("Settled", rest)
             [] byte = 2 -> Got("Transient", rest)
             [] OTHER    -> Fault("Malformed"))

DecodeRedirect(body) ==
    Then(Take(2, body),      LAMBDA node, r1 :
    Then(TakePlain(r1),      LAMBDA epoch, r2 :
    Then(TakeSettlement(r2), LAMBDA settlement, r3 :
    Made(TakeText(r3),       LAMBDA endpoint :
      [node |-> node, epoch |-> epoch, settlement |-> settlement, endpoint |-> endpoint]))))

\* The classes of refusals, by their bytes; none is given for 0.
Classes == <<"Invalid", "Unauthenticated", "Forbidden", "Throttled", "Elsewhere", "Retry",
             "Conflict", "Unavailable", "Internal">>
Unreadable == <<"in bytes this client could not read">>

\* A call that a node refused, with the class it said, if it said any.
RefusedWith(class, message) == [ok |-> FALSE, class |-> class, message |-> message]

\* A first byte that is no class is the first of the words.
DecodeRefusal(body) ==
    LET classed == body # <<>> /\ Head(body) <= 9
        words   == IF classed THEN Tail(body) ELSE body
        class   == IF ~classed THEN <<>>
                   ELSE IF Head(body) = 0 THEN <<"Unknown">> ELSE <<Classes[Head(body)]>>
    IN RefusedWith(class, IF IsText(words) THEN words ELSE Unreadable)

-------------------------------------------------------------------------------
(* What a vault's calls make of an answer.                                 *)

Malformed == Fault("Malformed")
Result(x) == Got(x, <<>>)

\* The value of the last answer; anything else is not what was asked for.
LastValue(answers) ==
    IF answers # <<>> /\ Last(answers)[1] = "Value" THEN Result(Last(answers)[2]) ELSE Malformed

\* A part of an object, or None.
Part(v, name) ==
    IF v[1] = "Object" /\ Text(name) \in DOMAIN v[2] THEN v[2][Text(name)] ELSE <<"None">>

Seconds(v, type) == IF v[1] = type /\ v[2] >= 0 THEN Result(<<v[2], v[3]>>) ELSE Malformed

StatusOf(v) ==
    LET state   == Part(v, "state")
        sealing == Part(v, "seals_at")
        lasting == Seconds(Part(v, "unseal_for"), "Duration")
        seals   == IF sealing = <<"None">> THEN Result(<<>>)
                   ELSE Some(Seconds(sealing, "Datetime"))
        custody == Part(v, "custody")
        named   == v[1] = "Object" /\ Text("custody") \in DOMAIN v[2]
        Word(of, words) == of[1] = "String" /\ \E w \in words : of[2] = Text(w)
    IN IF /\ v[1] = "Object"
          /\ Word(state, {"uninitialised", "sealed", "unsealed"})
          /\ seals.ok /\ lasting.ok
          /\ named => Word(custody, {"own", "key", "store"})
       THEN Result([state |-> Words[state[2][1]], seals_at |-> seals.got,
                    unseal_for |-> lasting.got,
                    initialised |-> Part(v, "initialised") = <<"Bool", TRUE>>,
                    custody |-> IF named THEN <<Words[custody[2][1]]>> ELSE <<>>])
       ELSE Malformed

AuditOf(v) == IF Part(v, "audit")[1] = "Array" THEN Result(Part(v, "audit")[2]) ELSE Malformed

\* A next that is None is a last page, as one that is absent.
PageOf(v) ==
    IF Part(v, "records")[1] # "Array" THEN Malformed
    ELSE Result([ids |-> Part(v, "records")[2],
                 next |-> IF Part(v, "next") = <<"None">> THEN <<>> ELSE <<Part(v, "next")>>])

RevealedOf(v) == IF v[1] = "Object" THEN Result(v[2]) ELSE Malformed

RecipientsOf(v) ==
    LET held == Part(v, "recipients")
    IN IF held[1] = "Object" /\ \A name \in DOMAIN held[2] : held[2][name][1] = "Bytes"
       THEN Result([name \in DOMAIN held[2] |-> held[2][name][2]])
       ELSE Malformed
==============================================================================
