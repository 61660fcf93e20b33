--------------------------------- MODULE Codec ---------------------------------
(***************************************************************************)
(* The value codec (codec/mod.rs, write.rs, read.rs): a value as the bytes *)
(* the protocol carries, and back.                                         *)
(*                                                                         *)
(* A value is a tuple of its type and its parts: <<"Bool", TRUE>>,         *)
(* <<"Array", items>>, <<"Object", fields>> with fields a function from    *)
(* texts.  Texts and byte strings are sequences of bytes, a double is its  *)
(* bits.  A byte is a byte.  Wider integers are narrowed, which moves      *)
(* their boundaries and keeps what happens there: a u32 has one byte, an   *)
(* i64 or u64, a double, an i128 and a uuid have two.                      *)
(*                                                                         *)
(* A reader takes what it needs from the front of the bytes and returns    *)
(* it with the rest, or a fault.                                           *)
(***************************************************************************)
EXTENDS Integers, SequencesExt

CONSTANTS
    MaxDepth,    \* how deep a value may be nested for a reader
    Billion      \* one more than the nanoseconds of a sub-second part

U32  == 256      \* one more than the largest u32
U64  == 65536    \* one more than the largest u64
Sign == U64 \div 2

Tag == [None |-> 1, Null |-> 2, Bool |-> 3, Number |-> 4, String |-> 5, Bytes |-> 6,
        Duration |-> 7, Datetime |-> 8, Uuid |-> 9, Table |-> 10, Record |-> 11,
        Array |-> 12, Object |-> 13, Range |-> 14, Set |-> 15, Geometry |-> 16,
        Regex |-> 17]

ShapeKind == [Point |-> 1, Line |-> 2, Polygon |-> 3, MultiPoint |-> 4,
              MultiLine |-> 5, MultiPolygon |-> 6, Collection |-> 7]

NumberKind   == [Integer |-> 1, Float |-> 2, Decimal |-> 3]
BoundKind    == [Unbounded |-> 1, Included |-> 2, Excluded |-> 3]
RecordIdKind == [Int |-> 1, Text |-> 2, Uuid |-> 3, Bytes |-> 4]

Escape      == 0
Terminator  == 1
EscapedZero == 255

\* A byte below 200 stands for a character, and any other is no part of a text.
IsText(bytes) == \A i \in DOMAIN bytes : bytes[i] < 200

\* Texts compare by their bytes, the shorter first when one begins the other.
TextLess(s, t) ==
    \/ Len(s) < Len(t) /\ SubSeq(t, 1, Len(s)) = s
    \/ \E i \in DOMAIN s \cap DOMAIN t :
          s[i] < t[i] /\ SubSeq(s, 1, i - 1) = SubSeq(t, 1, i - 1)

\* The order in which a BTreeMap with texts for keys is iterated.
InOrder(texts) == SetToSortSeq(texts, TextLess)

-------------------------------------------------------------------------------
(* Writing.                                                                *)

\* The top bit is inverted: adding half the range does that, modulo the range.
PutPlain(n) == <<(n % U64) \div 256, n % 256>>
PutI64(n)   == PutPlain(n + Sign)

CountOf(n)      == IF n < U32 THEN n ELSE U32 - 1
PutLenbytes(bs) == <<CountOf(Len(bs))>> \o bs

\* Faulty: a zero within is as the one that ends the block.
PutUnescaped(bs) == bs \o <<Escape, Terminator>>

PutVarbytes(bs) ==
    FlattenSeq([i \in DOMAIN bs |-> IF bs[i] = Escape THEN <<Escape, EscapedZero>>
                                                      ELSE <<bs[i]>>])
    \o <<Escape, Terminator>>

PutMany(items, Put(_)) ==
    <<CountOf(Len(items))>> \o FlattenSeq([i \in DOMAIN items |-> Put(items[i])])

\* Longitude first.
PutPosition(p)   == PutPlain(p.longitude) \o PutPlain(p.latitude)
PutPositions(ps) == PutMany(ps, PutPosition)
PutPolygon(p)    == PutPositions(p.exterior) \o PutMany(p.interiors, PutPositions)

RECURSIVE PutGeometry(_)
PutGeometry(g) ==
    <<ShapeKind[g[1]]>> \o
    CASE g[1] = "Point"                -> PutPosition(g[2])
      [] g[1] \in {"Line", "MultiPoint"} -> PutPositions(g[2])
      [] g[1] = "Polygon"              -> PutPolygon(g[2])
      [] g[1] = "MultiLine"            -> PutMany(g[2], PutPositions)
      [] g[1] = "MultiPolygon"         -> PutMany(g[2], PutPolygon)
      [] g[1] = "Collection"           -> PutMany(g[2], LAMBDA held : PutGeometry(held))

PutNumber(n) ==
    <<NumberKind[n[1]]>> \o
    CASE n[1] = "Integer" -> PutI64(n[2])
      [] n[1] = "Float"   -> PutPlain(n[2])
      [] n[1] = "Decimal" -> PutPlain(n[2]) \o <<n[3]>>

PutRecordId(id) ==
    <<RecordIdKind[id[1]]>> \o
    CASE id[1] = "Int"               -> PutI64(id[2])
      [] id[1] \in {"Text", "Bytes"} -> PutVarbytes(id[2])
      [] id[1] = "Uuid"              -> id[2]

RECURSIVE PutValue(_)
PutValue(v) ==
    LET PutBound(b) == <<BoundKind[b[1]]>>
                       \o IF b[1] = "Unbounded" THEN <<>> ELSE PutValue(b[2])
        PutField(name) == PutLenbytes(name) \o PutValue(v[2][name])
    IN <<Tag[v[1]]>> \o
       CASE v[1] \in {"None", "Null"}              -> <<>>
         [] v[1] = "Bool"                          -> <<IF v[2] THEN 1 ELSE 0>>
         [] v[1] = "Number"                        -> PutNumber(v[2])
         [] v[1] \in {"String", "Bytes", "Regex"}  -> PutLenbytes(v[2])
         [] v[1] \in {"Duration", "Datetime"}      -> PutI64(v[2]) \o <<v[3]>>
         [] v[1] = "Uuid"                          -> v[2]
         [] v[1] = "Table"                         -> <<v[2]>>
         [] v[1] = "Record"                        -> <<v[2]>> \o PutRecordId(v[3])
         [] v[1] \in {"Array", "Set"}  -> PutMany(v[2], LAMBDA item : PutValue(item))
         [] v[1] = "Object"            -> PutMany(InOrder(DOMAIN v[2]), PutField)
         [] v[1] = "Range"             -> PutBound(v[2]) \o PutBound(v[3])
         [] v[1] = "Geometry"          -> PutGeometry(v[2])

Encode(v) == PutValue(v)

-------------------------------------------------------------------------------
(* Reading.                                                                *)

Got(x, rest) == [ok |-> TRUE, got |-> x, rest |-> rest]
Fault(why)   == [ok |-> FALSE, fault |-> why]

\* A step after another, whose fault is the fault of both.
Then(taken, Next(_, _)) == IF taken.ok THEN Next(taken.got, taken.rest) ELSE taken
Made(taken, Of(_))      == Then(taken, LAMBDA x, rest : Got(Of(x), rest))
Typed(type, taken)      == Made(taken, LAMBDA x : <<type, x>>)
Both(taken, Other(_)) ==
    Then(taken, LAMBDA x, rest : Made(Other(rest), LAMBDA y : <<x, y>>))

Take(n, b) ==
    IF n > Len(b) THEN Fault("Truncated") ELSE Got(SubSeq(b, 1, n), SubSeq(b, n + 1, Len(b)))

TakeU8(b)    == Made(Take(1, b), LAMBDA bytes : bytes[1])
TakeU32(b)   == TakeU8(b)
TakePlain(b) == Made(Take(2, b), LAMBDA bytes : 256 * bytes[1] + bytes[2])

\* Two's complement.
Signed(n)  == IF n < Sign THEN n ELSE n - U64
TakeI64(b) == Made(TakePlain(b), LAMBDA n : Signed((n + Sign) % U64))

TakeLenbytes(b) == Then(TakeU32(b), LAMBDA n, rest : Take(n, rest))

AsText(taken) ==
    Then(taken, LAMBDA bytes, rest :
                   IF IsText(bytes) THEN taken ELSE Fault("InvalidUtf8"))
TakeText(b) == AsText(TakeLenbytes(b))

RECURSIVE TakeVarbytes(_, _)
TakeVarbytes(b, out) ==
    CASE b = <<>>                -> Fault("Unterminated")
      [] b # <<>> /\ b[1] # Escape -> TakeVarbytes(Tail(b), Append(out, b[1]))
      [] b = <<Escape>>          -> Fault("Unterminated")
      [] OTHER ->
           LET rest == SubSeq(b, 3, Len(b))
           IN CASE b[2] = Terminator  -> Got(out, rest)
                [] b[2] = EscapedZero -> TakeVarbytes(rest, Append(out, Escape))
                [] OTHER              -> Fault("InvalidEscape")

\* Every item has a byte at least, so a count of more than the bytes left fails
\* at the item after the last byte, if not before.
TakeMany(b, TakeOne(_)) ==
    Then(TakeU32(b), LAMBDA count, body :
      LET items[n \in 0 .. Len(body) + 1] ==
            IF n = 0 THEN Got(<<>>, body)
            ELSE Then(items[n - 1], LAMBDA held, rest :
                        Made(TakeOne(rest), LAMBDA item : Append(held, item)))
      IN items[IF count <= Len(body) THEN count ELSE Len(body) + 1])

TakePosition(b) ==
    Made(Both(TakePlain(b), TakePlain), LAMBDA p : [longitude |-> p[1], latitude |-> p[2]])
TakePositions(b) == TakeMany(b, TakePosition)
TakePolygon(b) ==
    Made(Both(TakePositions(b), LAMBDA rest : TakeMany(rest, TakePositions)),
         LAMBDA p : [exterior |-> p[1], interiors |-> p[2]])

RECURSIVE TakeGeometry(_, _)
TakeGeometry(b, depth) ==
    LET Shape(kind, body) ==
          CASE kind = ShapeKind.Point        -> Typed("Point", TakePosition(body))
            [] kind = ShapeKind.Line         -> Typed("Line", TakePositions(body))
            [] kind = ShapeKind.Polygon      -> Typed("Polygon", TakePolygon(body))
            [] kind = ShapeKind.MultiPoint   -> Typed("MultiPoint", TakePositions(body))
            [] kind = ShapeKind.MultiLine    ->
                 Typed("MultiLine", TakeMany(body, TakePositions))
            [] kind = ShapeKind.MultiPolygon ->
                 Typed("MultiPolygon", TakeMany(body, TakePolygon))
            [] kind = ShapeKind.Collection   ->
                 Typed("Collection",
                       TakeMany(body, LAMBDA rest : TakeGeometry(rest, depth + 1)))
            [] OTHER                         -> Fault("UnknownTag")
    IN IF depth > MaxDepth THEN Fault("Truncated") ELSE Then(TakeU8(b), Shape)

TakeTime(type, b) ==
    Then(Both(TakeI64(b), TakeU32), LAMBDA time, rest :
           IF time[2] < Billion THEN Got(<<type>> \o time, rest)
                                ELSE Fault("InvalidSubSecond"))

TakeNumber(b) ==
    Then(TakeU8(b), LAMBDA kind, body :
           CASE kind = NumberKind.Integer -> Typed("Integer", TakeI64(body))
             [] kind = NumberKind.Float   -> Typed("Float", TakePlain(body))
             [] kind = NumberKind.Decimal ->
                  Made(Both(TakePlain(body), TakeU32),
                       LAMBDA d : <<"Decimal", Signed(d[1]), d[2]>>)
             [] OTHER                     -> Fault("UnknownTag"))

TakeRecordId(b) ==
    Then(TakeU8(b), LAMBDA kind, body :
           CASE kind = RecordIdKind.Int   -> Typed("Int", TakeI64(body))
             [] kind = RecordIdKind.Text  -> Typed("Text", AsText(TakeVarbytes(body, <<>>)))
             [] kind = RecordIdKind.Uuid  -> Typed("Uuid", Take(2, body))
             [] kind = RecordIdKind.Bytes -> Typed("Bytes", TakeVarbytes(body, <<>>))
             [] OTHER                     -> Fault("UnknownTag"))

\* Of two fields of one name the later is kept.
FieldsOf(pairs) ==
    [name \in {pairs[i][1] : i \in DOMAIN pairs} |->
        pairs[SelectLastInSeq(pairs, LAMBDA pair : pair[1] = name)][2]]

RECURSIVE TakeValue(_, _)
TakeValue(b, depth) ==
    LET Deeper(rest) == TakeValue(rest, depth + 1)
        TakeField(rest) == Both(TakeText(rest), Deeper)
        TakeBound(body) ==
          Then(TakeU8(body), LAMBDA kind, rest :
                 CASE kind = BoundKind.Unbounded -> Got(<<"Unbounded">>, rest)
                   [] kind = BoundKind.Included  -> Typed("Included", Deeper(rest))
                   [] kind = BoundKind.Excluded  -> Typed("Excluded", Deeper(rest))
                   [] OTHER                      -> Fault("UnknownTag"))
        OfTag(tag, body) ==
          CASE tag = Tag.None     -> Got(<<"None">>, body)
            [] tag = Tag.Null     -> Got(<<"Null">>, body)
            [] tag = Tag.Bool     -> Made(TakeU8(body), LAMBDA flag : <<"Bool", flag # 0>>)
            [] tag = Tag.Number   -> Typed("Number", TakeNumber(body))
            [] tag = Tag.String   -> Typed("String", TakeText(body))
            [] tag = Tag.Bytes    -> Typed("Bytes", TakeLenbytes(body))
            [] tag = Tag.Duration -> TakeTime("Duration", body)
            [] tag = Tag.Datetime -> TakeTime("Datetime", body)
            [] tag = Tag.Uuid     -> Typed("Uuid", Take(2, body))
            [] tag = Tag.Table    -> Typed("Table", TakeU32(body))
            [] tag = Tag.Record   -> Made(Both(TakeU32(body), TakeRecordId),
                                          LAMBDA r : <<"Record">> \o r)
            [] tag = Tag.Array    -> Typed("Array", TakeMany(body, Deeper))
            [] tag = Tag.Object   -> Typed("Object", Made(TakeMany(body, TakeField), FieldsOf))
            [] tag = Tag.Range    -> Made(Both(TakeBound(body), TakeBound),
                                          LAMBDA ends : <<"Range">> \o ends)
            [] tag = Tag.Set      -> Typed("Set", TakeMany(body, Deeper))
            [] tag = Tag.Geometry -> Typed("Geometry", TakeGeometry(body, depth + 1))
            [] tag = Tag.Regex    -> Typed("Regex", TakeText(body))
            [] OTHER              -> Fault("UnknownTag")
    IN IF depth > MaxDepth THEN Fault("Truncated") ELSE Then(TakeU8(b), OfTag)

\* Faulty: what follows the value is passed over.
DecodeFront(bytes) == Made(TakeValue(bytes, 0), LAMBDA v : v)

Decode(bytes) ==
    Then(TakeValue(bytes, 0), LAMBDA v, rest :
           IF rest = <<>> THEN Got(v, rest) ELSE Fault("TrailingBytes"))
==============================================================================
