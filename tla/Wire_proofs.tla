------------------------------ MODULE Wire_proofs ------------------------------
(* Proofs about Wire. *)
EXTENDS Wire, SequenceTheorems, TLAPS

-------------------------------------------------------------------------------
(* The invariants.                                                         *)

\* The errors after which nobody knows where on the connection the client is.
Broken == {"unknown_frame", "too_large", "truncated", "lost"}

\* What a call has returned, or not, where it is; and what the node knows of it.
Sound ==
    /\ TypeOK
    /\ pc = "feed" => op \in Feeds
    /\ pc \in {"new", "idle"} => op \in Ops
    /\ pc \in {"new", "header", "body"} => result = "none"
    /\ feed => op \in Feeds
    /\ ~feed => changes = 0

\* The client reads the frames as the node sent them.
InStep == result \notin Broken /\ ~finished /\ pc # "gone"

\* A connection that ended inside a frame ends with no body, or the client waits for it.
CutShows ==
    cut => /\ ~open
           /\ IF Len(inbound) > 0 THEN inbound[Len(inbound)].unit # "body" ELSE pc = "body"

\* Headers and bodies take turns; what broke off is the end.
Alternate ==
    /\ \A i \in 1 .. Len(inbound) : inbound[i].unit = "stub" => i = Len(inbound) /\ ~open
    /\ \A i \in 1 .. Len(inbound) - 1 :
          /\ inbound[i].unit = "header" => inbound[i + 1].unit \in {"body", "stub"}
          /\ inbound[i].unit = "body" => inbound[i + 1].unit \in {"header", "stub"}
    /\ Len(inbound) > 0 =>
          inbound[1].unit \in {"stub", IF pc = "body" THEN "body" ELSE "header"}
    /\ open => IF Len(inbound) > 0 THEN inbound[Len(inbound)].unit = "body" ELSE pc # "body"
    /\ CutShows

\* The header of a frame this build has a kind for.
Known(i) == inbound[i].unit = "header" /\ inbound[i].kind # "unknown"

\* The node owes the call under way and no other, or has answered it with one frame.
OneReply ==
    /\ owed # <<>> => pc = "header" /\ owed = <<calls>>
    /\ \A i \in 1 .. Len(inbound) : Known(i) =>
          /\ pc = "header" /\ owed = <<>>
          /\ \A j \in 1 .. Len(inbound) : Known(j) => j = i
          /\ i < Len(inbound) /\ inbound[i + 1].unit = "body" => inbound[i + 1].of = calls
    /\ pc = "body" => owed = <<>>
    /\ pc = "body" /\ Len(inbound) > 0 /\ inbound[1].unit = "body" => inbound[1].of = calls

\* What a feed reads next is a frame that was there before it was one, and unusable.
Doomed == pc # "body" /\ Len(inbound) > 0 /\ inbound[1].unit = "header" /\ ~Known(1)

\* How many units of the frame it reads a feed has taken.
Taken == IF pc = "body" THEN 1 ELSE 0

\* The changes on their way are the next ones, in order.
InTurn ==
    /\ feed /\ owed = <<>> /\ pc \in {"feed", "header", "body"}
    /\ ~Doomed =>
          /\ \A i \in 1 .. Len(inbound) :
                inbound[i].unit = "body" => 2 * inbound[i].of = 2 * answered + i + Taken
          /\ open => 2 * changes = 2 * answered + Len(inbound) + Taken

Matched ==
    /\ RepliesBelong
    /\ InStep => /\ Alternate
                 /\ op \in Ops => OneReply
                 /\ op \in Feeds => InTurn

-------------------------------------------------------------------------------
(* Units and sequences of them.                                            *)

LEMMA UnitTyped ==
    /\ Stub \in Units /\ Stub.unit = "stub"
    /\ \A k \in Tags, over \in BOOLEAN :
          /\ Header(k, over) \in Units
          /\ Header(k, over).unit = "header" /\ Header(k, over).kind = k
    /\ \A of \in Nat, good \in BOOLEAN :
          /\ Body(of, good) \in Units
          /\ Body(of, good).unit = "body" /\ Body(of, good).of = of
  BY DEF Units, Stub, Header, Body

\* What a unit is, told by what it is called.
LEMMA UnitKinds ==
    ASSUME NEW u \in Units
    PROVE  /\ u.unit \in {"stub", "header", "body"}
           /\ u.unit = "stub" <=> u = Stub
           /\ u.unit = "header" => u.kind \in Tags /\ u.over \in BOOLEAN
           /\ u.unit = "body" => u.of \in Nat /\ u.good \in BOOLEAN
  BY DEF Units, Stub

\* A frame is sent after what was sent before.
LEMMA Grown ==
    ASSUME NEW s \in Seq(Units), NEW h \in Units, NEW b \in Units, NEW t, t = s \o <<h, b>>
    PROVE  /\ t \in Seq(Units) /\ Len(t) = Len(s) + 2
           /\ \A i \in 1 .. Len(s) : t[i] = s[i]
           /\ t[Len(s) + 1] = h /\ t[Len(s) + 2] = b
  <1>1. <<h, b>> \in Seq(Units) /\ Len(<<h, b>>) = 2 /\ <<h, b>>[1] = h /\ <<h, b>>[2] = b
    OBVIOUS
  <1> DEFINE f == <<h, b>>
  <1> HIDE DEF f
  <1>2. f \in Seq(Units) /\ Len(f) = 2 /\ f[1] = h /\ f[2] = b /\ t = s \o f
    BY <1>1 DEF f
  <1>3. /\ s \o f \in Seq(Units) /\ Len(s \o f) = Len(s) + 2
        /\ \A i \in 1 .. Len(s) + 2 : (s \o f)[i] = IF i <= Len(s) THEN s[i] ELSE f[i - Len(s)]
    BY <1>2, ConcatProperties
  <1>4. Len(s) \in Nat
    BY LenProperties
  <1>5. QED
    BY <1>2, <1>3, <1>4

\* What is left when the connection breaks off.
LEMMA Cut ==
    ASSUME NEW s \in Seq(Units), NEW n \in 0 .. Len(s),
           NEW t \in {SubSeq(s, 1, n), Append(SubSeq(s, 1, n), Stub)}
    PROVE  /\ t \in Seq(Units) /\ Len(t) \in {n, n + 1}
           /\ \A i \in 1 .. n : t[i] = s[i]
           /\ Len(t) = n + 1 => t[n + 1] = Stub
           /\ Len(t) = n => t # Append(SubSeq(s, 1, n), Stub)
  <1> DEFINE u == SubSeq(s, 1, n)
  <1>1. n \in Int /\ 0 <= n /\ n <= Len(s) /\ \A i \in 1 .. n : s[i] \in Units
    <2>1. Len(s) \in Nat /\ s \in [1 .. Len(s) -> Units]
      BY LenProperties
    <2>2. QED
      BY <2>1
  <1>2. /\ u \in Seq(Units) /\ Len(u) = (IF 1 <= n THEN n - 1 + 1 ELSE 0)
        /\ \A i \in 1 .. n - 1 + 1 : u[i] = s[1 + i - 1]
    BY <1>1, SubSeqProperties
  <1> HIDE DEF u
  <1>3. Len(u) = n /\ \A i \in 1 .. n : u[i] = s[i]
    BY <1>1, <1>2
  <1>4. /\ Append(u, Stub) \in Seq(Units) /\ Len(Append(u, Stub)) = Len(u) + 1
        /\ \A i \in 1 .. Len(u) : Append(u, Stub)[i] = u[i]
        /\ Append(u, Stub)[Len(u) + 1] = Stub
    BY <1>2, UnitTyped, AppendProperties
  <1> DEFINE v == Append(u, Stub)
  <1>5. t = u \/ t = v
    BY DEF u
  <1>6. v \in Seq(Units) /\ Len(v) = n + 1 /\ (\A i \in 1 .. n : v[i] = u[i]) /\ v[n + 1] = Stub
    BY <1>3, <1>4
  <1> HIDE DEF v
  <1>7. n # n + 1
    BY <1>1
  <1>8. /\ t \in Seq(Units) /\ Len(t) \in {n, n + 1}
        /\ \A i \in 1 .. n : t[i] = s[i]
        /\ Len(t) = n + 1 => t[n + 1] = Stub
        /\ Len(t) = n => t # v
    BY <1>2, <1>3, <1>5, <1>6, <1>7
  <1>9. QED
    BY <1>8 DEF u, v

\* What is left when the first unit is taken.
LEMMA Took ==
    ASSUME NEW s \in Seq(Units), s # <<>>, NEW t, t = Tail(s)
    PROVE  /\ t \in Seq(Units) /\ Len(t) = Len(s) - 1 /\ Len(s) \in Nat /\ Len(s) > 0
           /\ \A i \in 1 .. Len(t) : t[i] = s[i + 1]
           /\ Head(s) = s[1] /\ Head(s) \in Units
  BY HeadTailProperties, EmptySeq, LenProperties

-------------------------------------------------------------------------------
(* The calls, without the frames.                                          *)

LEMMA InitSound == ASSUME Init PROVE Sound
  <1>1. inbound \in Seq(Units) /\ owed \in Seq(1 .. calls)
    BY DEF Init
  <1>2. /\ open \in BOOLEAN /\ feed \in BOOLEAN /\ finished \in BOOLEAN
        /\ changes \in 0 .. Changes /\ oddities \in 0 .. Oddities /\ calls \in 0 .. Calls
        /\ minor \in Minors /\ peer_minor = None /\ answered \in Nat /\ cut \in BOOLEAN
        /\ changes = 0
    <2>1. 0 \in 0 .. Changes /\ 0 \in 0 .. Oddities /\ 0 \in 0 .. Calls
      BY ConstantsAssumption
    <2>2. QED
      BY <2>1 DEF Init
  <1>3. /\ pc \in Stages /\ pc # "feed" /\ op \in Ops /\ kind \in Kinds
        /\ result \in Results /\ result = "none"
    BY DEF Init, Stages, Ops, Kinds, Results
  <1>4. QED
    BY <1>1, <1>2, <1>3 DEF Init, Sound, TypeOK

\* The node sends a frame: of what kind and larger than is read or not; about which
\* call or change, and good or not.
Sends(k, over, of, good) ==
    /\ open /\ open' = open /\ cut' = cut /\ oddities' \in 0 .. Oddities
    /\ k \in Tags /\ over \in BOOLEAN /\ good \in BOOLEAN
    /\ inbound' = inbound \o <<Header(k, over), Body(of, good)>>

Pays   == /\ owed # <<>> /\ owed' = Tail(owed) /\ changes' = changes
          /\ \E k, over, good : Sends(k, over, Head(owed), good)
Strays == /\ ~feed /\ owed' = owed /\ changes' = changes
          /\ Sends("unknown", FALSE, 0, TRUE)
Relays == /\ feed /\ owed' = owed /\ changes' = changes + 1 /\ changes < Changes
          /\ \E k, over, good : Sends(k, over, changes', good)
Breaks == /\ open /\ ~open' /\ open' \in BOOLEAN
          /\ UNCHANGED <<owed, changes, oddities>>
          /\ cut' \in BOOLEAN
          /\ \E n \in 0 .. Len(inbound) :
                /\ inbound' \in {SubSeq(inbound, 1, n), Append(SubSeq(inbound, 1, n), Stub)}
                /\ cut' /\ inbound' # Append(SubSeq(inbound, 1, n), Stub) =>
                      n < Len(inbound) /\ inbound[n + 1].unit = "body"

\* All that the node does.
LEMMA NodeDoes ==
    ASSUME TypeOK, Node
    PROVE  /\ UNCHANGED <<minor, peer_minor, pc, op, calls, kind, finished, result, answered,
                          feed>>
           /\ Pays \/ Strays \/ Relays \/ Breaks
  <1>1. oddities \in 0 .. Oddities /\ Oddities \in Nat
    BY ConstantsAssumption DEF TypeOK
  <1>2. ASSUME NEW kinds \in SUBSET Kinds, NEW f \in Unusable(kinds)
        PROVE  f.kind \in Tags /\ f.over \in BOOLEAN /\ f.good \in BOOLEAN
    BY DEF Unusable, Tags, Kinds
  <1>3. CASE Reply
    <2>1. PICK k \in {"Answer", "Refusal", "Elsewhere"} :
              inbound' = inbound \o <<Header(k, FALSE), Body(Head(owed), TRUE)>>
      BY <1>3 DEF Reply, Frame
    <2>2. Sends(k, FALSE, Head(owed), TRUE)
      BY <1>1, <1>3, <2>1 DEF Sends, Reply, Tags, Kinds
    <2>3. QED
      BY <1>3, <2>2 DEF Reply, Pays, client
  <1>4. CASE Odd
    <2>1. /\ open /\ open' = open /\ cut' = cut /\ oddities' \in 0 .. Oddities /\ ~feed /\ changes' = changes
          /\ UNCHANGED <<minor, peer_minor, pc, op, calls, kind, finished, result, answered,
                         feed>>
      BY <1>1, <1>4 DEF Odd, client
    <2>2. CASE /\ owed # <<>> /\ owed' = Tail(owed)
               /\ \E f \in Unusable({"Answer", "Elsewhere"}) : Sent(f, Head(owed))
      <3>1. PICK f \in Unusable({"Answer", "Elsewhere"}) : Sent(f, Head(owed))
        BY <2>2
      <3>2. {"Answer", "Elsewhere"} \in SUBSET Kinds
        BY DEF Kinds
      <3>3. Sends(f.kind, f.over, Head(owed), f.good)
        BY <1>2, <2>1, <3>1, <3>2 DEF Sends, Sent
      <3>4. QED
        BY <2>1, <2>2, <3>3 DEF Pays
    <2>3. CASE /\ Sent([kind |-> "unknown", over |-> FALSE, good |-> TRUE], 0)
               /\ owed' = owed
      BY <2>1, <2>3 DEF Strays, Sends, Sent, Tags
    <2>4. QED
      BY <1>4, <2>2, <2>3 DEF Odd
  <1>5. CASE Push
    <2>1. /\ open /\ open' = open /\ cut' = cut /\ oddities' \in 0 .. Oddities /\ feed /\ owed' = owed
          /\ changes' = changes + 1 /\ changes < Changes
          /\ UNCHANGED <<minor, peer_minor, pc, op, calls, kind, finished, result, answered,
                         feed>>
      BY <1>1, <1>5 DEF Push, client
    <2>2. CASE \E k \in {"Change", "Progress", "Refusal"} : inbound' = inbound \o Frame(k, changes')
      <3>1. PICK k \in {"Change", "Progress", "Refusal"} :
                inbound' = inbound \o <<Header(k, FALSE), Body(changes', TRUE)>>
        BY <2>2 DEF Frame
      <3>2. Sends(k, FALSE, changes', TRUE)
        BY <2>1, <3>1 DEF Sends, Tags, Kinds
      <3>3. QED
        BY <2>1, <3>2 DEF Relays
    <2>3. CASE \E f \in Unusable({"Change", "Progress"}) : Sent(f, changes')
      <3>1. PICK f \in Unusable({"Change", "Progress"}) : Sent(f, changes')
        BY <2>3
      <3>2. {"Change", "Progress"} \in SUBSET Kinds
        BY DEF Kinds
      <3>3. Sends(f.kind, f.over, changes', f.good)
        BY <1>2, <2>1, <3>1, <3>2 DEF Sends, Sent
      <3>4. QED
        BY <2>1, <3>3 DEF Relays
    <2>4. QED
      BY <1>5, <2>2, <2>3 DEF Push
  <1>6. CASE HangUp
    <2>1. /\ open /\ ~open' /\ open' \in BOOLEAN
          /\ UNCHANGED <<minor, peer_minor, pc, op, calls, kind, finished, result, answered,
                         feed, owed, changes, oddities>>
      BY <1>6 DEF HangUp, client
    <2>2. PICK n \in 0 .. Len(inbound) :
              \/ /\ inbound' = SubSeq(inbound, 1, n)
                 /\ cut' = (n < Len(inbound) /\ inbound[n + 1].unit = "body")
              \/ /\ inbound' = Append(SubSeq(inbound, 1, n), Stub)
                 /\ cut' = TRUE
      BY <1>6 DEF HangUp
    <2>3. /\ cut' \in BOOLEAN
          /\ inbound' \in {SubSeq(inbound, 1, n), Append(SubSeq(inbound, 1, n), Stub)}
          /\ cut' /\ inbound' # Append(SubSeq(inbound, 1, n), Stub) =>
                n < Len(inbound) /\ inbound[n + 1].unit = "body"
      BY <2>2, Zenon
    <2>4. QED
      BY <2>1, <2>3 DEF Breaks
  <1>7. QED
    BY <1>3, <1>4, <1>5, <1>6 DEF Node

\* A frame sent is two units more.
LEMMA SendsTwo ==
    ASSUME inbound \in Seq(Units), NEW k, NEW over, NEW of \in Nat, NEW good,
           Sends(k, over, of, good)
    PROVE  /\ inbound' \in Seq(Units) /\ Len(inbound') = Len(inbound) + 2 /\ Len(inbound) \in Nat
           /\ \A i \in 1 .. Len(inbound) : inbound'[i] = inbound[i]
           /\ inbound'[Len(inbound) + 1].unit = "header" /\ inbound'[Len(inbound) + 1].kind = k
           /\ inbound'[Len(inbound) + 2].unit = "body" /\ inbound'[Len(inbound) + 2].of = of
  <1>1. Header(k, over) \in Units /\ Header(k, over).unit = "header" /\ Header(k, over).kind = k
    BY UnitTyped DEF Sends
  <1>2. Body(of, good) \in Units /\ Body(of, good).unit = "body" /\ Body(of, good).of = of
    BY UnitTyped DEF Sends
  <1>3. inbound' = inbound \o <<Header(k, over), Body(of, good)>>
    BY DEF Sends
  <1> DEFINE h == Header(k, over)
             b == Body(of, good)
             t == inbound'
  <1> HIDE DEF h, b, t
  <1>4. t = inbound \o <<h, b>> /\ h \in Units /\ b \in Units
    BY <1>1, <1>2, <1>3 DEF h, b, t
  <1>5. /\ t \in Seq(Units) /\ Len(t) = Len(inbound) + 2
        /\ \A i \in 1 .. Len(inbound) : t[i] = inbound[i]
        /\ t[Len(inbound) + 1] = h /\ t[Len(inbound) + 2] = b
    BY <1>4, Grown
  <1>6. QED
    BY <1>1, <1>2, <1>5, LenProperties DEF h, b, t

\* What the node does is nothing to the calls; it tells only what it owes.
LEMMA NodeSound == ASSUME Sound, Node PROVE Sound'
  <1>1. /\ TypeOK /\ inbound \in Seq(Units) /\ owed \in Seq(1 .. calls)
        /\ calls \in Nat /\ changes \in 0 .. Changes /\ Changes \in Nat
    BY ConstantsAssumption DEF Sound, TypeOK
  <1>2. /\ UNCHANGED <<minor, peer_minor, pc, op, calls, kind, finished, result, answered,
                       feed>>
        /\ Pays \/ Strays \/ Relays \/ Breaks
    BY <1>1, NodeDoes
  <1>3. inbound' \in Seq(Units)
    <2>1. CASE Pays
      <3>1. Head(owed) \in 1 .. calls
        BY <1>1, <2>1, HeadTailProperties DEF Pays
      <3>2. Head(owed) \in Nat
        BY <1>1, <3>1
      <3>3. QED
        BY <1>1, <2>1, <3>2, SendsTwo DEF Pays
    <2>2. CASE Strays
      BY <1>1, <2>2, SendsTwo DEF Strays
    <2>3. CASE Relays
      <3>1. changes' \in Nat
        BY <1>1, <2>3 DEF Relays
      <3>2. QED
        BY <1>1, <2>3, <3>1, SendsTwo DEF Relays
    <2>4. CASE Breaks
      BY <1>1, <2>4, Cut DEF Breaks
    <2>5. QED
      BY <1>2, <2>1, <2>2, <2>3, <2>4
  <1>4. owed' \in Seq(1 .. calls')
    <2>1. owed # <<>> => Tail(owed) \in Seq(1 .. calls)
      BY <1>1, HeadTailProperties
    <2>2. QED
      BY <1>1, <1>2, <2>1 DEF Pays, Strays, Relays, Breaks
  <1>5. /\ open' \in BOOLEAN /\ cut' \in BOOLEAN /\ oddities' \in 0 .. Oddities
        /\ changes' \in 0 .. Changes /\ (~feed => changes' = changes)
    <2>1. Pays \/ Strays \/ Relays => open' \in BOOLEAN /\ cut' \in BOOLEAN /\ oddities' \in 0 .. Oddities
      <3>1. ASSUME NEW k, NEW over, NEW of, NEW good, Sends(k, over, of, good)
            PROVE  open' \in BOOLEAN /\ cut' \in BOOLEAN /\ oddities' \in 0 .. Oddities
        BY <1>1, <3>1 DEF TypeOK, Sends
      <3>2. QED
        BY <3>1 DEF Pays, Strays, Relays
    <2>2. Breaks => open' \in BOOLEAN /\ cut' \in BOOLEAN /\ oddities' \in 0 .. Oddities
      BY <1>1 DEF TypeOK, Breaks
    <2>3. changes' \in 0 .. Changes /\ (~feed => changes' = changes)
      <3>1. \/ changes' = changes
            \/ feed /\ changes' = changes + 1 /\ changes < Changes
        BY <1>2 DEF Pays, Strays, Relays, Breaks
      <3>2. QED
        BY <1>1, <3>1
    <2>4. QED
      BY <1>2, <2>1, <2>2, <2>3
  <1>6. QED
    BY <1>1, <1>2, <1>3, <1>4, <1>5 DEF Sound, TypeOK

\* A call under way returns: to a client that may be asked again, or to a feed.
LEMMA ReturnSound ==
    ASSUME Sound, NEW what \in Results, NEW of \in Nat, Return(what, of),
           pc \in {"header", "body", "feed", "idle"},
           inbound' \in Seq(Units), UNCHANGED <<open, owed, changes, feed, oddities, minor>>,
           finished' \in BOOLEAN, finished' => op \in Feeds
    PROVE  Sound'
  <1>1. /\ pc' = (IF op \in Feeds THEN "feed" ELSE "idle") /\ pc' \in Stages
        /\ result' = what /\ answered' = of
        /\ UNCHANGED <<peer_minor, op, calls, kind, cut>>
    BY DEF Return, Stages
  <1>2. QED
    BY <1>1 DEF Sound, TypeOK

\* What reading a header does: it is refused, or its body is to be read.
LEMMA ReadHeaderDoes ==
    ASSUME Sound, ReadHeader
    PROVE  /\ pc = "header" /\ inbound # <<>> /\ inbound[1].unit # "stub"
           /\ UNCHANGED <<open, owed, changes, feed, oddities, minor, finished>>
           /\ \/ \E what \in {"unknown_frame", "too_large"} :
                    Return(what, 0) /\ inbound' = Tail(inbound)
              \/ /\ pc' = "body" /\ kind' \in Kinds
                 /\ UNCHANGED <<peer_minor, op, calls, result, answered, cut>>
                 /\ inbound' \in {inbound, Tail(inbound)}
                 /\ inbound[1].unit = "header" => Known(1) /\ inbound' = Tail(inbound)
  <1> DEFINE u == Head(inbound)
  <1>1. inbound \in Seq(Units) /\ inbound # <<>> /\ u # Stub /\ pc = "header"
    BY DEF ReadHeader, Sound, TypeOK
  <1>2. u = inbound[1] /\ u \in Units
    BY <1>1, Took
  <1>3. UNCHANGED <<open, owed, changes, feed, oddities, minor, finished>>
    BY DEF ReadHeader, NodeElse
  <1>4. PICK h \in Headers(u) :
            \/ Judged(h) # "read" /\ Return(Judged(h), 0) /\ inbound' = Tail(inbound)
            \/ /\ Judged(h) = "read" /\ pc' = "body" /\ kind' = h.kind
               /\ inbound' = IF h = u THEN Tail(inbound) ELSE inbound
               /\ UNCHANGED <<peer_minor, op, calls, result, answered, cut>>
    BY DEF ReadHeader, Take
  <1> HIDE DEF u
  <1>5. h.kind \in Tags /\ (u.unit = "header" => h = u)
    BY <1>2, UnitKinds DEF Headers
  <1>6. /\ Judged(h) # "read" => Judged(h) \in {"unknown_frame", "too_large"}
        /\ Judged(h) = "read" => h.kind # "unknown" /\ h.kind \in Kinds
    BY <1>5 DEF Judged, Tags
  <1>7. inbound[1].unit # "stub"
    BY <1>1, <1>2, UnitKinds
  <1>8. QED
    BY <1>1, <1>2, <1>3, <1>4, <1>5, <1>6, <1>7 DEF Known

\* What reading a body does: the call returns.
LEMMA ReadBodyDoes ==
    ASSUME Sound, ReadBody
    PROVE  /\ pc = "body" /\ inbound # <<>> /\ inbound[1].unit # "stub"
           /\ inbound' = Tail(inbound)
           /\ UNCHANGED <<open, owed, changes, feed, oddities, minor>>
           /\ \E of \in Nat :
                 /\ inbound[1].unit = "body" => of = inbound[1].of
                 /\ op \notin Feeds =>
                       /\ finished' = finished
                       /\ \/ Return("unknown_frame", 0)
                          \/ \E what \in {"answers", "refusal", "elsewhere", "malformed"} :
                                Return(what, of)
                 /\ op \in Feeds =>
                       \/ /\ finished' = finished
                          /\ \E what \in {"change", "progress", "malformed"} : Return(what, of)
                       \/ /\ finished' = TRUE
                          /\ Return("refusal", of) \/ Return("unknown_frame", 0)
  <1> DEFINE u == Head(inbound)
  <1>1. inbound \in Seq(Units) /\ inbound # <<>> /\ u # Stub
    BY DEF ReadBody, Sound, TypeOK
  <1>2. u = inbound[1] /\ u \in Units
    BY <1>1, Took
  <1>3. u.unit # "stub" /\ (u.unit = "body" => u.of \in Nat)
    BY <1>1, <1>2, UnitKinds
  <1> DEFINE of == IF u.unit = "body" THEN u.of ELSE 0
  <1>4. PICK good \in BOOLEAN : IF op \in Feeds THEN Arrived(good, of)
                                ELSE Answered(good, of) /\ finished' = finished
    <2>1. \E good \in (IF u.unit = "body" THEN {u.good} ELSE BOOLEAN) :
              IF op \in Feeds THEN Arrived(good, of)
              ELSE Answered(good, of) /\ finished' = finished
      BY DEF ReadBody
    <2>2. u.unit = "body" => u.good \in BOOLEAN
      BY <1>2, UnitKinds
    <2> HIDE DEF of
    <2>3. QED
      BY <2>1, <2>2
  <1>5. of \in Nat /\ (u.unit = "body" => of = u.of)
    BY <1>3
  <1>6. /\ pc = "body" /\ inbound' = Tail(inbound)
        /\ UNCHANGED <<open, owed, changes, feed, oddities, minor>>
    BY DEF ReadBody, Take, NodeElse
  <1> HIDE DEF of, u
  <1>7. Answered(good, of) => \/ Return("unknown_frame", 0)
                              \/ \E what \in {"answers", "refusal", "elsewhere", "malformed"} :
                                    Return(what, of)
    BY DEF Answered
  <1>8. Arrived(good, of) =>
            \/ /\ finished' = finished
               /\ \E what \in {"change", "progress", "malformed"} : Return(what, of)
            \/ finished' = TRUE /\ (Return("refusal", of) \/ Return("unknown_frame", 0))
    BY DEF Arrived
  <1>9. QED
    BY <1>1, <1>2, <1>3, <1>4, <1>5, <1>6, <1>7, <1>8

\* What the end of the stream does.
LEMMA EndDoes ==
    ASSUME EndOfStream
    PROVE  /\ pc \in {"header", "body"}
           /\ UNCHANGED <<inbound, open, owed, changes, feed, oddities, minor>>
           /\ \/ op \in Feeds /\ Return("ended", 0) /\ finished' = TRUE
              \/ Return("truncated", 0) /\ finished' = finished
  BY DEF EndOfStream, node

LEMMA ReadingSound == ASSUME Sound, Reading PROVE Sound'
  <1>1. inbound \in Seq(Units) /\ TypeOK /\ finished \in BOOLEAN
    BY DEF Sound, TypeOK
  <1>2. finished => pc = "feed"
    BY <1>1 DEF TypeOK
  <1>3. inbound # <<>> => Tail(inbound) \in Seq(Units)
    BY <1>1, Took
  <1>4. {"unknown_frame", "too_large", "truncated", "ended", "answers", "refusal", "elsewhere",
         "malformed", "change", "progress"} \subseteq Results
    BY DEF Results, Errors
  <1>5. CASE EndOfStream
    <2>1. /\ pc \in {"header", "body"} /\ inbound' \in Seq(Units)
          /\ UNCHANGED <<open, owed, changes, feed, oddities, minor>>
          /\ \/ op \in Feeds /\ Return("ended", 0) /\ finished' = TRUE
             \/ Return("truncated", 0) /\ finished' = finished
      BY <1>1, <1>5, EndDoes
    <2>2. finished = FALSE
      BY <1>1, <1>2, <2>1
    <2>3. CASE op \in Feeds /\ Return("ended", 0) /\ finished' = TRUE
      BY <1>4, <2>1, <2>3, ReturnSound
    <2>4. CASE Return("truncated", 0) /\ finished' = finished
      BY <1>4, <2>1, <2>2, <2>4, ReturnSound
    <2>5. QED
      BY <2>1, <2>3, <2>4
  <1>6. CASE ReadHeader
    <2>1. /\ pc = "header" /\ inbound # <<>>
          /\ UNCHANGED <<open, owed, changes, feed, oddities, minor, finished>>
      BY <1>6, ReadHeaderDoes
    <2>2. CASE \E what \in {"unknown_frame", "too_large"} :
                   Return(what, 0) /\ inbound' = Tail(inbound)
      BY <1>1, <1>2, <1>3, <1>4, <2>1, <2>2, ReturnSound
    <2>3. CASE /\ pc' = "body" /\ kind' \in Kinds
               /\ UNCHANGED <<peer_minor, op, calls, result, answered, cut>>
               /\ inbound' \in {inbound, Tail(inbound)}
      <3>1. inbound' \in Seq(Units) /\ pc' \in Stages /\ ~finished
        BY <1>1, <1>2, <1>3, <2>1, <2>3 DEF Stages
      <3>2. QED
        BY <1>1, <2>1, <2>3, <3>1 DEF Sound, TypeOK
    <2>4. QED
      BY <1>6, <2>2, <2>3, ReadHeaderDoes
  <1>7. CASE ReadBody
    <2>1. /\ pc = "body" /\ inbound # <<>> /\ inbound' = Tail(inbound)
          /\ UNCHANGED <<open, owed, changes, feed, oddities, minor>>
      BY <1>7, ReadBodyDoes
    <2>2. \E what \in Results, of \in Nat :
              /\ Return(what, of) /\ finished' \in BOOLEAN
              /\ finished' => op \in Feeds
      <3>1. finished = FALSE /\ 0 \in Nat
        BY <1>1, <1>2, <2>1
      <3>2. CASE op \in Feeds
        <4>1. PICK of \in Nat :
                  \/ /\ finished' = finished
                     /\ \E what \in {"change", "progress", "malformed"} : Return(what, of)
                  \/ finished' = TRUE /\ (Return("refusal", of) \/ Return("unknown_frame", 0))
          BY <1>7, <3>2, ReadBodyDoes
        <4>2. QED
          BY <1>4, <3>1, <3>2, <4>1
      <3>3. CASE op \notin Feeds
        <4>1. PICK of \in Nat :
                  /\ finished' = finished
                  /\ \/ Return("unknown_frame", 0)
                     \/ \E what \in {"answers", "refusal", "elsewhere", "malformed"} :
                           Return(what, of)
          BY <1>7, <3>3, ReadBodyDoes
        <4>2. QED
          BY <1>4, <3>1, <4>1
      <3>4. QED
        BY <3>2, <3>3
    <2>3. QED
      BY <1>3, <2>1, <2>2, ReturnSound
  <1>8. QED
    BY <1>5, <1>6, <1>7 DEF Reading

\* What the caller does: the minor is asked for before anything is sent.
LEMMA CallerSound ==
    ASSUME Sound, Greet \/ (\E o \in Ops : NotSent(o) \/ Ask(o)) \/ (\E o \in Feeds : Follow(o))
                  \/ NextArrival \/ Lost
    PROVE  Sound'
  <1>1. /\ TypeOK /\ inbound \in Seq(Units) /\ owed \in Seq(1 .. calls) /\ calls \in 0 .. Calls
        /\ Calls \in Nat /\ finished \in BOOLEAN /\ (finished => pc = "feed") 
    BY ConstantsAssumption DEF Sound, TypeOK
  <1>2. \A n \in Nat : n \in calls .. n => owed \in Seq(1 .. n)
    <2>1. ASSUME NEW n \in Nat, calls <= n PROVE owed \in Seq(1 .. n)
      <3>1. 1 .. calls \subseteq 1 .. n
        BY <1>1, <2>1
      <3>2. QED
        BY <1>1, <3>1, SeqMonotonic
    <2>2. QED
      BY <1>1, <2>1
  <1>3. CASE Greet
    <2>1. UNCHANGED <<inbound, open, owed, changes, feed, oddities, minor, op, calls, kind,
                      finished, answered, cut>>
      BY <1>3 DEF Greet, node
    <2>2. \/ pc' = "idle" /\ peer_minor' = minor /\ result' = result
          \/ pc' = "gone" /\ result' = "lost" /\ peer_minor' = peer_minor
      BY <1>3 DEF Greet
    <2>3. pc = "new" /\ pc' \in Stages /\ result' \in Results /\ minor \in Minors /\ ~finished
      BY <1>1, <1>3, <2>2 DEF Greet, Stages, Results, Errors, TypeOK
    <2>4. QED
      BY <1>1, <2>1, <2>2, <2>3 DEF Sound, TypeOK
  <1>4. ASSUME NEW o \in Ops, NotSent(o) PROVE Sound'
    <2>1. /\ UNCHANGED <<inbound, open, owed, changes, feed, oddities, minor, peer_minor, pc, kind,
                         finished, cut>>
          /\ calls' = calls + 1 /\ calls < Calls /\ op' = o /\ answered' = 0
          /\ pc = "idle" /\ result' \in Results
      BY <1>4 DEF NotSent, Usable, node, Results, Errors
    <2>2. calls' \in 0 .. Calls /\ owed' \in Seq(1 .. calls')
      BY <1>1, <1>2, <2>1
    <2>3. ~feed /\ ~finished
      BY <1>1, <2>1 DEF Sound, Ops, Feeds
    <2>4. QED
      BY <1>1, <2>1, <2>2, <2>3 DEF Sound, TypeOK
  <1>5. ASSUME NEW o \in Ops, Ask(o) PROVE Sound'
    <2>1. /\ UNCHANGED <<inbound, open, changes, feed, oddities, minor, peer_minor, kind, finished>>
          /\ calls' = calls + 1 /\ calls < Calls /\ op' = o /\ answered' = 0
          /\ owed' = Append(owed, calls') /\ pc = "idle" /\ pc' = "header" /\ result' = "none"
          /\ cut' = cut
      BY <1>5 DEF Ask, Usable
    <2>2. calls' \in 0 .. Calls /\ calls' \in 1 .. calls' /\ owed \in Seq(1 .. calls')
      BY <1>1, <1>2, <2>1
    <2>3. owed' \in Seq(1 .. calls')
      BY <2>1, <2>2, AppendProperties
    <2>4. ~feed /\ ~finished
      BY <1>1, <2>1 DEF Sound, Ops, Feeds
    <2>5. pc' \in Stages /\ result' \in Results
      BY <2>1 DEF Stages, Results
    <2>6. QED
      BY <1>1, <2>1, <2>2, <2>3, <2>4, <2>5 DEF Sound, TypeOK
  <1>6. ASSUME NEW o \in Feeds, Follow(o) PROVE Sound'
    <2>1. /\ UNCHANGED <<inbound, open, owed, changes, oddities, minor, peer_minor, calls, kind,
                         finished>>
          /\ op' = o /\ answered' = 0 /\ pc = "idle" /\ cut' = cut
      BY <1>6 DEF Follow, Usable
    <2>2. \/ pc' = "feed" /\ feed' = TRUE /\ result' = "none"
          \/ pc' = "gone" /\ result' \in {"too_old", "lost"} /\ feed' = feed
      BY <1>6 DEF Follow
    <2>3. ~feed /\ ~finished
      BY <1>1, <2>1 DEF Sound, Ops, Feeds
    <2>4. pc' \in Stages /\ result' \in Results /\ feed' \in BOOLEAN
      BY <1>1, <2>2 DEF Stages, Results, Errors, TypeOK
    <2>5. QED
      BY <1>1, <2>1, <2>2, <2>3, <2>4 DEF Sound, TypeOK
  <1>7. CASE NextArrival
    <2>1. /\ pc = "feed" /\ finished' = finished /\ op \in Feeds
          /\ UNCHANGED <<inbound, open, owed, changes, feed, oddities, minor>>
      BY <1>7 DEF NextArrival, node, Sound
    <2>2. CASE finished
      <3>1. Return("ended", answered) /\ "ended" \in Results /\ answered \in Nat
        BY <1>1, <1>7, <2>2 DEF NextArrival, Ended, Results, TypeOK
      <3>2. QED
        BY <1>1, <2>1, <3>1, ReturnSound
    <2>3. CASE ~finished
      <3>1. /\ pc' = "header" /\ result' = "none"
            /\ UNCHANGED <<peer_minor, op, calls, kind, answered, cut>>
        BY <1>7, <2>3 DEF NextArrival, Ended
      <3>2. pc' \in Stages /\ result' \in Results
        BY <3>1 DEF Stages, Results
      <3>3. QED
        BY <1>1, <2>1, <2>3, <3>1, <3>2 DEF Sound, TypeOK
    <2>4. QED
      BY <2>2, <2>3
  <1>8. CASE Lost
    <2>1. /\ pc \in {"idle", "header", "body"} /\ Return("lost", 0) /\ finished' = finished
          /\ UNCHANGED <<inbound, open, owed, changes, feed, oddities, minor>>
          /\ "lost" \in Results
      BY <1>8 DEF Lost, Usable, node, Results, Errors
    <2>2. QED
      BY <1>1, <2>1, ReturnSound
  <1>9. QED
    BY <1>3, <1>4, <1>5, <1>6, <1>7, <1>8

-------------------------------------------------------------------------------
(* Headers and bodies.                                                     *)

LEMMA AlternateSends ==
    ASSUME inbound \in Seq(Units), Alternate, NEW k, NEW over, NEW of \in Nat, NEW good,
           Sends(k, over, of, good), pc' = pc
    PROVE  Alternate'
  <1> DEFINE n == Len(inbound)
  <1>1. /\ Len(inbound') = n + 2 /\ n \in Nat
        /\ \A i \in 1 .. n : inbound'[i] = inbound[i]
        /\ inbound'[n + 1].unit = "header" /\ inbound'[n + 2].unit = "body"
    BY SendsTwo
  <1>2. open /\ open' = open
    BY DEF Sends
  <1>3. \A i \in 1 .. n : inbound[i].unit # "stub"
    BY <1>2 DEF Alternate
  <1>4. IF n > 0 THEN inbound[n].unit = "body" ELSE pc # "body"
    BY <1>2 DEF Alternate
  <1> HIDE DEF n
  <1>5. \A i \in 1 .. n + 2 : i \in 1 .. n \/ i = n + 1 \/ i = n + 2
    BY <1>1
  <1>6. \A i \in 1 .. n + 2 : inbound'[i].unit # "stub"
    BY <1>1, <1>3, <1>5
  <1>7. ASSUME NEW i \in 1 .. n + 1
        PROVE  /\ inbound'[i].unit = "header" => inbound'[i + 1].unit \in {"body", "stub"}
               /\ inbound'[i].unit = "body" => inbound'[i + 1].unit \in {"header", "stub"}
    <2>1. CASE i < n
      <3>1. i \in 1 .. n /\ i + 1 \in 1 .. n /\ i \in 1 .. n - 1
        BY <1>1, <2>1
      <3>2. QED
        BY <1>1, <3>1 DEF Alternate, n
    <2>2. CASE i = n
      BY <1>1, <1>4, <2>2
    <2>3. CASE i = n + 1
      <3>1. i + 1 = n + 2
        BY <1>1, <2>3
      <3>2. QED
        BY <1>1, <2>3, <3>1
    <2>4. QED
      BY <1>1, <2>1, <2>2, <2>3
  <1>8. inbound'[1].unit \in {"stub", IF pc = "body" THEN "body" ELSE "header"}
    <2>1. CASE n = 0
      BY <1>1, <1>4, <2>1
    <2>2. CASE n > 0
      BY <1>1, <2>2 DEF Alternate, n
    <2>3. QED
      BY <1>1, <2>1, <2>2
  <1>9. n + 2 - 1 = n + 1 /\ n + 2 > 0
    BY <1>1
  <1>10. CutShows'
    <2>1. CutShows /\ cut' = cut
      BY DEF Alternate, Sends
    <2>2. QED
      BY <1>2, <2>1 DEF CutShows
  <1>11. QED
    BY <1>1, <1>6, <1>7, <1>8, <1>9, <1>10 DEF Alternate

LEMMA AlternateBreaks ==
    ASSUME inbound \in Seq(Units), Alternate, Breaks, pc' = pc PROVE Alternate'
  <1>1. PICK n \in 0 .. Len(inbound) :
            /\ inbound' \in {SubSeq(inbound, 1, n), Append(SubSeq(inbound, 1, n), Stub)}
            /\ cut' /\ inbound' # Append(SubSeq(inbound, 1, n), Stub) =>
                  n < Len(inbound) /\ inbound[n + 1].unit = "body"
    BY DEF Breaks
  <1>2. /\ Len(inbound') \in {n, n + 1} /\ \A i \in 1 .. n : inbound'[i] = inbound[i]
        /\ Len(inbound') = n + 1 => inbound'[n + 1] = Stub
        /\ Len(inbound') = n => inbound' # Append(SubSeq(inbound, 1, n), Stub)
    BY <1>1, Cut
  <1>3. n \in Nat /\ n <= Len(inbound) /\ Len(inbound) \in Nat /\ ~open'
    BY <1>1, LenProperties DEF Breaks
  <1>4. open
    BY DEF Breaks
  <1>5. \A i \in 1 .. n : inbound'[i].unit # "stub"
    <2>1. \A i \in 1 .. Len(inbound) : inbound[i].unit # "stub"
      BY <1>4 DEF Alternate
    <2>2. \A i \in 1 .. n : i \in 1 .. Len(inbound)
      BY <1>3
    <2>3. QED
      BY <1>2, <2>1, <2>2
  <1>6. Stub.unit = "stub"
    BY UnitTyped
  <1>7. \A i \in 1 .. Len(inbound') : i \in 1 .. n \/ (i = n + 1 /\ Len(inbound') = n + 1)
    BY <1>2, <1>3
  <1>8. \A i \in 1 .. Len(inbound') : inbound'[i].unit = "stub" => i = Len(inbound')
    BY <1>5, <1>7
  <1>9. ASSUME NEW i \in 1 .. Len(inbound') - 1
        PROVE  /\ inbound'[i].unit = "header" => inbound'[i + 1].unit \in {"body", "stub"}
               /\ inbound'[i].unit = "body" => inbound'[i + 1].unit \in {"header", "stub"}
    <2>1. i \in 1 .. n /\ (i + 1 \in 1 .. n \/ (i + 1 = n + 1 /\ Len(inbound') = n + 1))
      BY <1>2, <1>3
    <2>2. CASE i + 1 \in 1 .. n
      <3>1. i \in 1 .. Len(inbound) - 1
        BY <1>3, <2>1, <2>2
      <3>2. QED
        BY <1>2, <2>1, <2>2, <3>1 DEF Alternate
    <2>3. CASE i + 1 = n + 1 /\ Len(inbound') = n + 1
      BY <1>2, <1>6, <2>3
    <2>4. QED
      BY <2>1, <2>2, <2>3
  <1>10. Len(inbound') > 0 =>
            inbound'[1].unit \in {"stub", IF pc = "body" THEN "body" ELSE "header"}
    <2>1. CASE n = 0
      BY <1>2, <1>6, <2>1
    <2>2. CASE n > 0
      <3>1. Len(inbound) > 0 /\ 1 \in 1 .. n
        BY <1>3, <2>2
      <3>2. QED
        BY <1>2, <3>1 DEF Alternate
    <2>3. QED
      BY <1>3, <2>1, <2>2
  <1>11. CutShows'
    <2>1. CASE Len(inbound') = n + 1
      BY <1>2, <1>3, <1>6, <2>1 DEF CutShows
    <2>2. CASE Len(inbound') = n /\ cut'
      <3>1. n < Len(inbound) /\ inbound[n + 1].unit = "body"
        BY <1>1, <1>2, <2>2
      <3>2. CASE n = 0
        <4>1. inbound[1].unit = "body" /\ Len(inbound) > 0
          BY <1>3, <3>1, <3>2
        <4>2. pc = "body"
          BY <4>1 DEF Alternate
        <4>3. QED
          BY <1>3, <2>2, <3>2, <4>2 DEF CutShows
      <3>3. CASE n > 0
        <4>1. n \in 1 .. Len(inbound) - 1 /\ n \in 1 .. n
          BY <1>3, <3>1, <3>3
        <4>2. inbound[n].unit # "body"
          BY <3>1, <4>1 DEF Alternate
        <4>3. QED
          BY <1>2, <1>3, <2>2, <3>3, <4>1, <4>2 DEF CutShows
      <3>4. QED
        BY <1>3, <3>2, <3>3
    <2>3. QED
      BY <1>2, <2>1, <2>2 DEF CutShows
  <1>12. QED
    BY <1>3, <1>8, <1>9, <1>10, <1>11 DEF Alternate

\* The header is taken, and the body is next; or the body, and a header is.
LEMMA AlternateTakes ==
    ASSUME inbound \in Seq(Units), inbound # <<>>, Alternate, inbound' = Tail(inbound),
           open' = open, cut' = cut, inbound[1].unit # "stub",
           (pc' = "body") = (pc # "body")
    PROVE  Alternate'
  <1> DEFINE n == Len(inbound)
  <1>1. /\ Len(inbound') = n - 1 /\ n \in Nat /\ n > 0
        /\ \A i \in 1 .. n - 1 : inbound'[i] = inbound[i + 1]
    BY Took
  <1>2. inbound[1].unit = IF pc = "body" THEN "body" ELSE "header"
    BY <1>1 DEF Alternate
  <1> HIDE DEF n
  <1>3. \A i \in 1 .. n - 1 : inbound'[i].unit = "stub" => i = n - 1 /\ ~open
    <2>1. ASSUME NEW i \in 1 .. n - 1, inbound'[i].unit = "stub" PROVE i + 1 = n /\ ~open
      <3>1. i + 1 \in 1 .. n /\ inbound[i + 1].unit = "stub"
        BY <1>1, <2>1
      <3>2. QED
        BY <3>1 DEF Alternate, n
    <2>2. QED
      BY <1>1, <2>1
  <1>4. ASSUME NEW i \in 1 .. n - 2
        PROVE  /\ inbound'[i].unit = "header" => inbound'[i + 1].unit \in {"body", "stub"}
               /\ inbound'[i].unit = "body" => inbound'[i + 1].unit \in {"header", "stub"}
    <2>1. i \in 1 .. n - 1 /\ i + 1 \in 1 .. n - 1
      BY <1>1
    <2>2. inbound'[i] = inbound[i + 1] /\ inbound'[i + 1] = inbound[i + 1 + 1]
      BY <1>1, <2>1
    <2>3. QED
      BY <2>1, <2>2 DEF Alternate, n
  <1>5. n > 1 => inbound'[1].unit \in {"stub", IF pc' = "body" THEN "body" ELSE "header"}
    <2>1. ASSUME n > 1
          PROVE  /\ inbound'[1] = inbound[2]
                 /\ inbound[1].unit = "header" => inbound[2].unit \in {"body", "stub"}
                 /\ inbound[1].unit = "body" => inbound[2].unit \in {"header", "stub"}
      <3>1. 1 \in 1 .. n - 1 /\ 1 + 1 = 2
        BY <1>1, <2>1
      <3>2. QED
        BY <1>1, <3>1 DEF Alternate, n
    <2>2. QED
      BY <1>2, <2>1
  <1>6. open => IF n > 1 THEN inbound'[n - 1].unit = "body" ELSE pc' # "body"
    <2>1. ASSUME open PROVE inbound[n].unit = "body"
      BY <1>1, <2>1 DEF Alternate, n
    <2>2. n > 1 => n - 1 \in 1 .. n - 1 /\ inbound'[n - 1] = inbound[n]
      BY <1>1
    <2>3. n <= 1 => n = 1
      BY <1>1
    <2>4. QED
      BY <1>1, <1>2, <2>1, <2>2, <2>3
  <1>7. CutShows'
    <2>1. ASSUME cut PROVE ~open /\ inbound[n].unit # "body"
      BY <1>1, <2>1 DEF Alternate, CutShows, n
    <2>2. n > 1 => n - 1 \in 1 .. n - 1 /\ inbound'[n - 1] = inbound[n]
      BY <1>1
    <2>3. n <= 1 => n = 1
      BY <1>1
    <2>4. QED
      BY <1>1, <1>2, <2>1, <2>2, <2>3 DEF CutShows
  <1>8. /\ n > 1 <=> n - 1 > 0
        /\ n - 1 - 1 = n - 2
    BY <1>1
  <1>9. QED
    BY <1>1, <1>3, <1>4, <1>5, <1>6, <1>7, <1>8 DEF Alternate

-------------------------------------------------------------------------------
(* Replies and changes, as the node sends them.                            *)

\* The node answers the call it owes, and no frame on its way is another's.
LEMMA PaysOneReply ==
    ASSUME Sound, Alternate, OneReply, Pays, pc' = pc, calls' = calls PROVE OneReply'
  <1> DEFINE n == Len(inbound)
  <1>1. inbound \in Seq(Units) /\ calls \in Nat
    BY ConstantsAssumption DEF Sound, TypeOK
  <1>2. pc = "header" /\ owed = <<calls>> /\ owed' = <<>> /\ Head(owed) = calls
    BY DEF Pays, OneReply
  <1>3. PICK k, over, good : Sends(k, over, calls, good)
    BY <1>2 DEF Pays
  <1>4. /\ Len(inbound') = n + 2 /\ n \in Nat
        /\ \A i \in 1 .. n : inbound'[i] = inbound[i]
        /\ inbound'[n + 2].unit = "body" /\ inbound'[n + 2].of = calls
    BY <1>1, <1>3, SendsTwo
  <1>5. \A i \in 1 .. n : ~Known(i)
    BY <1>2 DEF OneReply
  <1> HIDE DEF n
  <1>6. ASSUME NEW i \in 1 .. n + 2, Known(i)' PROVE i = n + 1
    <2>1. i \in 1 .. n \/ i = n + 1 \/ i = n + 2
      BY <1>4
    <2>2. i \notin 1 .. n /\ i # n + 2
      BY <1>4, <1>5, <1>6 DEF Known
    <2>3. QED
      BY <2>1, <2>2
  <1>7. n + 1 + 1 = n + 2
    BY <1>4
  <1>8. QED
    BY <1>2, <1>4, <1>6, <1>7 DEF OneReply

\* A frame of a kind the client lacks is no reply.
LEMMA StraysOneReply ==
    ASSUME Sound, Alternate, OneReply, Strays, pc' = pc, calls' = calls PROVE OneReply'
  <1> DEFINE n == Len(inbound)
  <1>1. inbound \in Seq(Units) /\ Sends("unknown", FALSE, 0, TRUE) /\ owed' = owed
    BY DEF Sound, TypeOK, Strays
  <1>2. /\ Len(inbound') = n + 2 /\ n \in Nat
        /\ \A i \in 1 .. n : inbound'[i] = inbound[i]
        /\ inbound'[n + 1].kind = "unknown" /\ inbound'[n + 1].unit = "header"
        /\ inbound'[n + 2].unit = "body"
    BY <1>1, SendsTwo
  <1>3. IF n > 0 THEN inbound[n].unit = "body" ELSE pc # "body"
    BY <1>1 DEF Alternate, Sends
  <1> HIDE DEF n
  <1>4. ASSUME NEW i \in 1 .. n + 2, Known(i)'
        PROVE  i \in 1 .. n /\ i + 1 \in 1 .. n /\ Known(i)
    <2>1. i \in 1 .. n \/ i = n + 1 \/ i = n + 2
      BY <1>2
    <2>2. i \in 1 .. n /\ Known(i)
      BY <1>2, <1>4, <2>1 DEF Known
    <2>3. i # n
      BY <1>2, <1>3, <2>2 DEF Known
    <2>4. QED
      BY <1>2, <2>2, <2>3
  <1>5. ASSUME NEW i \in 1 .. n + 2, Known(i)'
        PROVE  /\ pc = "header" /\ owed = <<>>
               /\ \A j \in 1 .. n + 2 : Known(j)' => j = i
               /\ inbound'[i + 1].unit = "body" => inbound'[i + 1].of = calls
    <2>1. i \in 1 .. n /\ i + 1 \in 1 .. n /\ Known(i) /\ i < n
      BY <1>2, <1>4, <1>5
    <2>2. /\ pc = "header" /\ owed = <<>>
          /\ \A j \in 1 .. n : Known(j) => j = i
          /\ inbound[i + 1].unit = "body" => inbound[i + 1].of = calls
      BY <2>1 DEF OneReply, n
    <2>3. QED
      BY <1>2, <1>4, <2>1, <2>2
  <1>6. pc = "body" => /\ owed = <<>> /\ n > 0 /\ inbound'[1] = inbound[1]
                       /\ inbound[1].unit = "body" => inbound[1].of = calls
    BY <1>2, <1>3 DEF OneReply, n
  <1>7. owed # <<>> => pc = "header" /\ owed = <<calls>>
    BY DEF OneReply
  <1>8. QED
    BY <1>1, <1>2, <1>5, <1>6, <1>7 DEF OneReply

\* What is cut off is no reply.
LEMMA BreaksOneReply ==
    ASSUME Sound, OneReply, Breaks, pc' = pc, calls' = calls PROVE OneReply'
  <1>1. inbound \in Seq(Units) /\ owed' = owed
    BY DEF Sound, TypeOK, Breaks
  <1>2. PICK n \in 0 .. Len(inbound) :
            inbound' \in {SubSeq(inbound, 1, n), Append(SubSeq(inbound, 1, n), Stub)}
    BY DEF Breaks
  <1>3. /\ Len(inbound') \in {n, n + 1} /\ \A i \in 1 .. n : inbound'[i] = inbound[i]
        /\ Len(inbound') = n + 1 => inbound'[n + 1] = Stub
    BY <1>1, <1>2, Cut
  <1>4. n \in Nat /\ n <= Len(inbound) /\ Len(inbound) \in Nat /\ Stub.unit = "stub"
    BY <1>1, <1>2, LenProperties, UnitTyped
  <1>5. ASSUME NEW i \in 1 .. Len(inbound'), inbound'[i].unit # "stub"
        PROVE  i \in 1 .. n /\ i \in 1 .. Len(inbound) /\ inbound'[i] = inbound[i]
    <2>1. i \in 1 .. n \/ (i = n + 1 /\ Len(inbound') = n + 1)
      BY <1>3, <1>4
    <2>2. QED
      BY <1>3, <1>4, <1>5, <2>1
  <1>6. ASSUME NEW i \in 1 .. Len(inbound'), Known(i)'
        PROVE  /\ pc = "header" /\ owed = <<>>
               /\ \A j \in 1 .. Len(inbound') : Known(j)' => j = i
               /\ i < Len(inbound') /\ inbound'[i + 1].unit = "body" => inbound'[i + 1].of = calls
    <2>1. \A j \in 1 .. Len(inbound') : Known(j)' => j \in 1 .. Len(inbound) /\ Known(j)
      BY <1>5 DEF Known
    <2>2. i \in 1 .. Len(inbound) /\ Known(i)
      BY <1>6, <2>1
    <2>3. /\ pc = "header" /\ owed = <<>>
          /\ \A j \in 1 .. Len(inbound) : Known(j) => j = i
          /\ i < Len(inbound) /\ inbound[i + 1].unit = "body" => inbound[i + 1].of = calls
      BY <2>2 DEF OneReply
    <2>4. ASSUME i < Len(inbound'), inbound'[i + 1].unit = "body"
          PROVE  inbound'[i + 1].of = calls
      <3>1. i + 1 \in 1 .. Len(inbound')
        BY <1>3, <1>4, <2>4
      <3>2. i + 1 \in 1 .. Len(inbound) /\ inbound'[i + 1] = inbound[i + 1]
        BY <1>5, <2>4, <3>1
      <3>3. i < Len(inbound)
        BY <1>4, <2>2, <3>2
      <3>4. QED
        BY <2>3, <2>4, <3>2, <3>3
    <2>5. QED
      BY <2>1, <2>3, <2>4
  <1>7. ASSUME pc = "body", Len(inbound') > 0, inbound'[1].unit = "body"
        PROVE  inbound'[1].of = calls
    <2>1. 1 \in 1 .. Len(inbound')
      BY <1>3, <1>4, <1>7
    <2>2. 1 \in 1 .. Len(inbound) /\ inbound'[1] = inbound[1]
      BY <1>5, <1>7, <2>1
    <2>3. QED
      BY <1>4, <1>7, <2>2 DEF OneReply
  <1>8. QED
    BY <1>1, <1>6, <1>7 DEF OneReply

\* A change follows those that are on their way.
LEMMA RelaysInTurn ==
    ASSUME Sound, InTurn, Relays, UNCHANGED <<pc, answered, feed>> PROVE InTurn'
  <1> DEFINE n == Len(inbound)
  <1>1. /\ inbound \in Seq(Units) /\ changes \in Nat /\ answered \in Nat /\ owed' = owed
        /\ changes' = changes + 1 /\ changes' \in Nat
    BY ConstantsAssumption DEF Sound, TypeOK, Relays
  <1>2. PICK k, over, good : Sends(k, over, changes', good)
    BY DEF Relays
  <1>3. /\ Len(inbound') = n + 2 /\ n \in Nat
        /\ \A i \in 1 .. n : inbound'[i] = inbound[i]
        /\ inbound'[n + 1].unit = "header"
        /\ inbound'[n + 2].unit = "body" /\ inbound'[n + 2].of = changes + 1
    BY <1>1, <1>2, SendsTwo
  <1>4. open /\ open' = open
    BY <1>2 DEF Sends
  <1>5. Taken \in {0, 1} /\ Taken' = Taken
    BY DEF Taken
  <1>6. ASSUME ~Doomed' PROVE ~Doomed
    <2>1. Doomed => n > 0 /\ pc # "body" /\ inbound[1].unit = "header" /\ ~Known(1)
      BY DEF Doomed
    <2>2. n > 0 => inbound'[1] = inbound[1] /\ n + 2 > 0
      BY <1>3
    <2>3. QED
      BY <1>3, <1>6, <2>1, <2>2 DEF Doomed, Known
  <1> HIDE DEF n
  <1>7. ASSUME ~Doomed
        PROVE  /\ \A i \in 1 .. n + 2 : inbound'[i].unit = "body" =>
                      2 * inbound'[i].of = 2 * answered + i + Taken
               /\ 2 * (changes + 1) = 2 * answered + (n + 2) + Taken
    <2>1. /\ \A i \in 1 .. n : inbound[i].unit = "body" =>
                 2 * inbound[i].of = 2 * answered + i + Taken
          /\ 2 * changes = 2 * answered + n + Taken
      BY <1>4, <1>7 DEF InTurn, n
    <2>2. 2 * (changes + 1) = 2 * answered + (n + 2) + Taken
      BY <1>1, <1>3, <1>5, <2>1
    <2>3. ASSUME NEW i \in 1 .. n + 2, inbound'[i].unit = "body"
          PROVE  2 * inbound'[i].of = 2 * answered + i + Taken
      <3>1. i \in 1 .. n \/ i = n + 1 \/ i = n + 2
        BY <1>3
      <3>2. i # n + 1
        BY <1>3, <2>3
      <3>3. CASE i \in 1 .. n
        BY <1>3, <2>1, <2>3, <3>3
      <3>4. CASE i = n + 2
        BY <1>3, <2>2, <3>4
      <3>5. QED
        BY <3>1, <3>2, <3>3, <3>4
    <2>4. QED
      BY <2>2, <2>3
  <1>8. QED
    BY <1>1, <1>3, <1>5, <1>6, <1>7 DEF InTurn

\* What is left of them when the connection breaks off keeps its turn.
LEMMA BreaksInTurn ==
    ASSUME Sound, InTurn, Breaks, UNCHANGED <<pc, answered, feed>> PROVE InTurn'
  <1>1. inbound \in Seq(Units) /\ owed' = owed /\ ~open'
    BY DEF Sound, TypeOK, Breaks
  <1>2. PICK n \in 0 .. Len(inbound) :
            inbound' \in {SubSeq(inbound, 1, n), Append(SubSeq(inbound, 1, n), Stub)}
    BY DEF Breaks
  <1>3. /\ Len(inbound') \in {n, n + 1} /\ \A i \in 1 .. n : inbound'[i] = inbound[i]
        /\ Len(inbound') = n + 1 => inbound'[n + 1] = Stub
    BY <1>1, <1>2, Cut
  <1>4. n \in Nat /\ n <= Len(inbound) /\ Len(inbound) \in Nat /\ Stub.unit = "stub"
    BY <1>1, <1>2, LenProperties, UnitTyped
  <1>5. Taken' = Taken
    BY DEF Taken
  <1>6. ASSUME ~Doomed', NEW i \in 1 .. Len(inbound'), inbound'[i].unit = "body"
        PROVE  2 * inbound'[i].of = 2 * answered + i + Taken
    <2>1. i \in 1 .. n
      <3>1. i \in 1 .. n \/ (i = n + 1 /\ Len(inbound') = n + 1)
        BY <1>3, <1>4
      <3>2. QED
        BY <1>3, <1>4, <1>6, <3>1
    <2>2. i \in 1 .. Len(inbound) /\ inbound'[i] = inbound[i]
          /\ inbound'[1] = inbound[1] /\ Len(inbound') > 0
      BY <1>3, <1>4, <2>1
    <2>3. ~Doomed
      BY <1>6, <2>2 DEF Doomed, Known
    <2>4. QED
      BY <1>6, <2>2, <2>3 DEF InTurn
  <1>7. QED
    BY <1>1, <1>5, <1>6 DEF InTurn

LEMMA NodeMatched == ASSUME Sound, Matched, Node PROVE Matched'
  <1>1. /\ UNCHANGED <<minor, peer_minor, pc, op, calls, kind, finished, result, answered,
                       feed>>
        /\ Pays \/ Strays \/ Relays \/ Breaks
    BY NodeDoes DEF Sound
  <1>2. RepliesBelong' /\ (InStep' <=> InStep)
    BY <1>1 DEF Matched, RepliesBelong, InStep
  <1>3. ASSUME InStep PROVE Alternate' /\ (op \in Ops => OneReply') /\ (op \in Feeds => InTurn')
    <2>1. /\ Alternate /\ (op \in Ops => OneReply) /\ (op \in Feeds => InTurn)
          /\ inbound \in Seq(Units) /\ owed \in Seq(1 .. calls) /\ calls \in Nat
          /\ changes \in Nat
      BY <1>3, ConstantsAssumption DEF Matched, Sound, TypeOK
    <2>2. op \in Ops \cup Feeds /\ (feed => op \in Feeds) /\ ~(op \in Ops /\ op \in Feeds)
      BY DEF Sound, TypeOK, Ops, Feeds
    <2>3. CASE Pays
      <3>1. op \in Ops
        BY <2>1, <2>2, <2>3 DEF Pays, InTurn
      <3>2. Head(owed) \in Nat
        BY <2>1, <2>3, HeadTailProperties DEF Pays
      <3>3. Alternate'
        BY <1>1, <2>1, <2>3, <3>2, AlternateSends DEF Pays
      <3>4. OneReply'
        BY <1>1, <2>1, <2>3, <3>1, PaysOneReply
      <3>5. QED
        BY <2>2, <3>1, <3>3, <3>4
    <2>4. CASE Strays
      <3>1. op \in Ops
        BY <2>1, <2>2, <2>4 DEF Strays, InTurn
      <3>2. Alternate'
        BY <1>1, <2>1, <2>4, AlternateSends DEF Strays
      <3>3. OneReply'
        BY <1>1, <2>1, <2>4, <3>1, StraysOneReply
      <3>4. QED
        BY <2>2, <3>1, <3>2, <3>3
    <2>5. CASE Relays
      <3>1. op \in Feeds /\ changes' \in Nat
        BY <2>1, <2>2, <2>5 DEF Relays
      <3>2. Alternate'
        BY <1>1, <2>1, <2>5, <3>1, AlternateSends DEF Relays
      <3>3. InTurn'
        BY <1>1, <2>1, <2>5, <3>1, RelaysInTurn
      <3>4. QED
        BY <2>2, <3>1, <3>2, <3>3
    <2>6. CASE Breaks
      BY <1>1, <2>1, <2>6, AlternateBreaks, BreaksOneReply, BreaksInTurn
    <2>7. QED
      BY <1>1, <2>3, <2>4, <2>5, <2>6
  <1>4. QED
    BY <1>1, <1>2, <1>3 DEF Matched

-------------------------------------------------------------------------------
(* Replies and changes, as the client reads them.                          *)

LEMMA InitMatched == ASSUME Init PROVE Matched
  <1>1. /\ Len(inbound) = 0 /\ pc \in {"new", "idle"} /\ op \in Ops /\ op \notin Feeds
        /\ owed = <<>> /\ ~cut
    BY DEF Init, Ops, Feeds
  <1>2. RepliesBelong
    BY DEF Init, RepliesBelong
  <1>3. Alternate /\ OneReply
    BY <1>1 DEF Alternate, CutShows, OneReply
  <1>4. QED
    BY <1>1, <1>2, <1>3 DEF Matched

\* A call that returns what ends the client's use of the connection.
LEMMA OutOfStep ==
    ASSUME NEW what \in Broken \cup {"ended"}, NEW of, Return(what, of),
           what = "ended" => finished'
    PROVE  Matched'
  BY DEF Return, Matched, InStep, RepliesBelong, Broken

\* A call under way is in step.
LEMMA UnderWay == ASSUME Sound, pc \in {"header", "body"} PROVE InStep
  BY DEF Sound, TypeOK, InStep, Broken

\* The header read is of the one reply there is, or of the next change.
LEMMA ReadHeaderMatched == ASSUME Sound, Matched, ReadHeader PROVE Matched'
  <1> DEFINE n == Len(inbound)
  <1>1. /\ pc = "header" /\ inbound # <<>> /\ inbound[1].unit # "stub"
        /\ UNCHANGED <<open, owed, changes, feed, oddities, minor, finished>>
    BY ReadHeaderDoes
  <1>2. /\ inbound \in Seq(Units) /\ InStep /\ n \in Nat /\ n > 0
        /\ op \in Ops \cup Feeds /\ ~(op \in Ops /\ op \in Feeds)
        /\ answered \in Nat /\ changes \in Nat
    <2>1. inbound \in Seq(Units) /\ InStep
      BY <1>1, UnderWay DEF Sound, TypeOK
    <2>2. /\ op \in Ops \cup Feeds /\ ~(op \in Ops /\ op \in Feeds)
          /\ answered \in Nat /\ changes \in Nat
      BY ConstantsAssumption DEF Sound, TypeOK, Ops, Feeds
    <2>3. QED
      BY <1>1, <2>1, <2>2, Took
  <1>3. CASE \E what \in {"unknown_frame", "too_large"} :
                 Return(what, 0) /\ inbound' = Tail(inbound)
    BY <1>3, OutOfStep DEF Broken
  <1>4. CASE /\ pc' = "body" /\ kind' \in Kinds
             /\ UNCHANGED <<peer_minor, op, calls, result, answered, cut>>
             /\ inbound[1].unit = "header" => Known(1) /\ inbound' = Tail(inbound)
    <2>1. Alternate /\ (op \in Ops => OneReply) /\ (op \in Feeds => InTurn) /\ RepliesBelong
      BY <1>2 DEF Matched
    <2>2. Known(1) /\ inbound' = Tail(inbound)
      BY <1>1, <1>2, <1>4, <2>1 DEF Alternate
    <2>3. Alternate'
      BY <1>1, <1>2, <1>4, <2>1, <2>2, AlternateTakes
    <2>4. Len(inbound') = n - 1 /\ \A i \in 1 .. n - 1 : inbound'[i] = inbound[i + 1]
      BY <1>1, <1>2, <2>2, Took
    <2>5. ASSUME OneReply PROVE OneReply'
      <3>1. /\ owed = <<>> /\ \A j \in 1 .. n : Known(j) => j = 1
            /\ 1 < n /\ inbound[1 + 1].unit = "body" => inbound[1 + 1].of = calls
        BY <1>2, <2>2, <2>5 DEF OneReply
      <3> HIDE DEF n
      <3>2. \A i \in 1 .. n - 1 : i + 1 \in 1 .. n /\ i + 1 # 1
        BY <1>2
      <3>3. \A i \in 1 .. n - 1 : ~Known(i)'
        BY <2>4, <3>1, <3>2 DEF Known
      <3>4. n - 1 > 0 => 1 < n /\ inbound'[1] = inbound[1 + 1]
        BY <1>2, <2>4
      <3>5. QED
        BY <1>1, <1>4, <2>4, <3>1, <3>3, <3>4 DEF OneReply
    <2>6. ASSUME InTurn PROVE InTurn'
      <3>1. ~Doomed /\ Taken = 0 /\ Taken' = 1
        BY <1>1, <1>4, <2>2 DEF Doomed, Taken
      <3>2. /\ \A i \in 1 .. n : inbound[i].unit = "body" => 2 * inbound[i].of = 2 * answered + i + 0
            /\ open => 2 * changes = 2 * answered + n + 0
            /\ feed /\ owed = <<>>
        BY <2>6, <3>1 DEF InTurn
      <3> HIDE DEF n
      <3>3. ASSUME NEW i \in 1 .. n - 1, inbound'[i].unit = "body"
            PROVE  2 * inbound'[i].of = 2 * answered + i + 1
        <4>1. i + 1 \in 1 .. n /\ inbound'[i] = inbound[i + 1]
          BY <1>2, <2>4
        <4>2. 2 * inbound[i + 1].of = 2 * answered + (i + 1) + 0
          BY <3>2, <3>3, <4>1
        <4>3. QED
          BY <1>2, <4>1, <4>2
      <3>4. open => 2 * changes = 2 * answered + (n - 1) + 1
        BY <1>2, <3>2
      <3>5. QED
        BY <1>1, <1>4, <2>4, <3>1, <3>2, <3>3, <3>4 DEF InTurn
    <2>7. RepliesBelong'
      BY <1>4, <2>1 DEF RepliesBelong
    <2>8. QED
      BY <1>4, <2>1, <2>3, <2>5, <2>6, <2>7 DEF Matched
  <1>5. QED
    BY <1>3, <1>4, ReadHeaderDoes

\* The body read is of the reply to this call, or of the change after the last.
LEMMA ReadBodyIsNext ==
    ASSUME Sound, Matched, ReadBody
    PROVE  /\ inbound[1].unit = "body" /\ inbound[1].of \in Nat /\ InStep /\ inbound \in Seq(Units)
           /\ op \in Ops => inbound[1].of = calls
           /\ op \in Feeds => inbound[1].of = answered + 1
  <1>1. pc = "body" /\ inbound # <<>> /\ inbound[1].unit # "stub"
    BY ReadBodyDoes
  <1>2. inbound \in Seq(Units) /\ answered \in Nat /\ InStep
    BY <1>1, UnderWay DEF Sound, TypeOK
  <1>3. Len(inbound) \in Nat /\ Len(inbound) > 0 /\ Head(inbound) = inbound[1] /\ Head(inbound) \in Units
    BY <1>1, <1>2, Took
  <1>4. Alternate /\ (op \in Ops => OneReply) /\ (op \in Feeds => InTurn)
    BY <1>2 DEF Matched
  <1>5. inbound[1].unit = "body" /\ inbound[1].of \in Nat
    BY <1>1, <1>3, <1>4, UnitKinds DEF Alternate
  <1>6. op \in Ops => inbound[1].of = calls
    BY <1>1, <1>3, <1>4, <1>5 DEF OneReply
  <1>7. op \in Feeds => 2 * inbound[1].of = 2 * answered + 1 + 1
    BY <1>1, <1>3, <1>4, <1>5 DEF InTurn, Doomed, Taken
  <1>8. QED
    BY <1>2, <1>5, <1>6, <1>7

LEMMA ReadBodyMatched == ASSUME Sound, Matched, ReadBody PROVE Matched'
  <1> DEFINE n == Len(inbound)
             of == inbound[1].of
  <1>1. /\ pc = "body" /\ inbound # <<>> /\ inbound[1].unit # "stub"
        /\ inbound' = Tail(inbound)
        /\ UNCHANGED <<open, owed, changes, feed, oddities, minor>>
    BY ReadBodyDoes
  <1>2. /\ inbound[1].unit = "body" /\ of \in Nat /\ InStep /\ inbound \in Seq(Units)
        /\ op \in Ops => of = calls
        /\ op \in Feeds => of = answered + 1
    BY ReadBodyIsNext
  <1>3. /\ n \in Nat /\ n > 0 /\ Len(inbound') = n - 1
        /\ \A i \in 1 .. n - 1 : inbound'[i] = inbound[i + 1]
    BY <1>1, <1>2, Took
  <1>4. /\ op \in Ops \cup Feeds /\ ~(op \in Ops /\ op \in Feeds)
        /\ answered \in Nat /\ changes \in Nat
    BY ConstantsAssumption DEF Sound, TypeOK, Ops, Feeds
  <1>5. Alternate /\ (op \in Ops => OneReply) /\ (op \in Feeds => InTurn)
    BY <1>2 DEF Matched
  <1>6. pc' # "body" /\ cut' = cut => Alternate'
    BY <1>1, <1>2, <1>5, AlternateTakes
  <1> HIDE DEF n, of
  <1>7. CASE op \in Ops
    <2>1. CASE Return("unknown_frame", 0)
      BY <2>1, OutOfStep DEF Broken
    <2>2. CASE \E what \in {"answers", "refusal", "elsewhere", "malformed"} : Return(what, of)
      <3>1. pc' = "idle" /\ op' = op /\ calls' = calls /\ answered' = of /\ cut' = cut
        BY <1>4, <1>7, <2>2 DEF Return
      <3>2. RepliesBelong'
        BY <1>2, <1>7, <3>1 DEF RepliesBelong
      <3>3. owed = <<>> /\ \A i \in 1 .. n : ~Known(i)
        BY <1>1, <1>5, <1>7 DEF OneReply, n
      <3>4. \A i \in 1 .. n - 1 : i + 1 \in 1 .. n
        BY <1>3
      <3>5. \A i \in 1 .. n - 1 : ~Known(i)'
        BY <1>3, <3>3, <3>4 DEF Known
      <3>6. OneReply'
        BY <1>1, <1>3, <3>1, <3>3, <3>5 DEF OneReply
      <3>7. QED
        BY <1>4, <1>6, <1>7, <3>1, <3>2, <3>6 DEF Matched
    <2>3. QED
      BY <1>2, <1>4, <1>7, <2>1, <2>2, ReadBodyDoes DEF of
  <1>8. CASE op \in Feeds
    <2>1. CASE finished' = TRUE /\ (\E what, x : Return(what, x))
      <3>1. op' = op /\ op' \notin Ops
        BY <1>4, <1>8, <2>1 DEF Return
      <3>2. QED
        BY <2>1, <3>1 DEF Matched, InStep, RepliesBelong
    <2>2. CASE \E what \in {"change", "progress", "malformed"} : Return(what, of)
      <3>1. pc' = "feed" /\ op' = op /\ answered' = answered + 1 /\ cut' = cut
        BY <1>2, <1>8, <2>2 DEF Return
      <3>2. RepliesBelong'
        BY <1>4, <1>8, <3>1 DEF RepliesBelong
      <3>3. ~Doomed /\ Taken = 1 /\ Taken' = 0
        BY <1>1, <3>1 DEF Doomed, Taken
      <3>4. /\ \A i \in 1 .. n : inbound[i].unit = "body" => 2 * inbound[i].of = 2 * answered + i + 1
            /\ open => 2 * changes = 2 * answered + n + 1
            /\ feed /\ owed = <<>>
        BY <1>5, <1>8, <3>3 DEF InTurn, n
      <3>5. ASSUME NEW i \in 1 .. n - 1, inbound'[i].unit = "body"
            PROVE  2 * inbound'[i].of = 2 * (answered + 1) + i + 0
        <4>1. i + 1 \in 1 .. n /\ inbound'[i] = inbound[i + 1]
          BY <1>3
        <4>2. 2 * inbound[i + 1].of = 2 * answered + (i + 1) + 1
          BY <3>4, <3>5, <4>1
        <4>3. QED
          BY <1>3, <1>4, <4>1, <4>2
      <3>6. open => 2 * changes = 2 * (answered + 1) + (n - 1) + 0
        BY <1>3, <1>4, <3>4
      <3>7. InTurn'
        BY <1>1, <1>3, <3>1, <3>3, <3>4, <3>5, <3>6 DEF InTurn
      <3>8. QED
        BY <1>4, <1>6, <1>8, <3>1, <3>2, <3>7 DEF Matched
    <2>3. QED
      BY <1>2, <1>8, <2>1, <2>2, ReadBodyDoes DEF of
  <1>9. QED
    BY <1>4, <1>7, <1>8

LEMMA ReadingMatched == ASSUME Sound, Matched, Reading PROVE Matched'
  <1>1. CASE EndOfStream
    BY <1>1, EndDoes, OutOfStep DEF Broken
  <1>2. QED
    BY <1>1, ReadHeaderMatched, ReadBodyMatched DEF Reading

-------------------------------------------------------------------------------
(* What a caller does, that goes on only where it may.                     *)

\* A connection that is used again is in step, and between calls.
LEMMA UsedInStep ==
    ASSUME Sound, Matched, Reused \cap Broken = {}, Usable
    PROVE  /\ InStep /\ Alternate /\ OneReply /\ pc = "idle" /\ op \in Ops /\ ~feed /\ changes = 0
           /\ owed = <<>> /\ \A i \in 1 .. Len(inbound) : ~Known(i)
  <1>1. pc = "idle" /\ op \in Ops /\ ~feed /\ changes = 0 /\ ~finished
    BY DEF Usable, Sound, TypeOK, Ops, Feeds
  <1>2. result \notin Broken
    BY DEF Usable, GoesOn, Broken, Errors
  <1>3. Alternate /\ OneReply /\ InStep
    BY <1>1, <1>2 DEF Matched, InStep
  <1>4. QED
    BY <1>1, <1>3 DEF OneReply

LEMMA CallerMatched ==
    ASSUME Sound, Matched, Reused \cap Broken = {},
           Greet \/ (\E o \in Ops : NotSent(o) \/ Ask(o)) \/ (\E o \in Feeds : Follow(o))
                 \/ NextArrival \/ Lost
    PROVE  Matched'
  <1>1. CASE Greet
    <2>1. /\ pc = "new" /\ op \in Ops /\ op \notin Feeds /\ result = "none" /\ ~finished
          /\ UNCHANGED <<inbound, open, cut, owed, op, calls, finished, answered>>
      BY <1>1 DEF Greet, node, Sound, TypeOK, Ops, Feeds
    <2>2. CASE pc' = "gone" /\ result' = "lost"
      BY <2>2 DEF Matched, InStep, RepliesBelong
    <2>3. CASE pc' = "idle" /\ result' = result
      <3>1. Alternate /\ OneReply
        BY <2>1 DEF Matched, InStep, Broken
      <3>2. Alternate' /\ OneReply'
        BY <2>1, <2>3, <3>1 DEF Alternate, CutShows, OneReply, Known
      <3>3. QED
        BY <2>1, <2>3, <3>2 DEF Matched, RepliesBelong
    <2>4. QED
      BY <1>1, <2>2, <2>3 DEF Greet
  <1>2. ASSUME NEW o \in Ops, NotSent(o) PROVE Matched'
    <2>1. /\ UNCHANGED <<inbound, open, cut, owed, pc>>
          /\ op' = o /\ o \notin Feeds /\ result' \in {"too_old", "not_sent"} /\ Usable
      BY <1>2 DEF NotSent, node, Ops, Feeds
    <2>2. /\ Alternate /\ pc = "idle" /\ owed = <<>>
          /\ \A i \in 1 .. Len(inbound) : ~Known(i)
      BY <2>1, UsedInStep
    <2>3. Alternate' /\ OneReply'
      BY <2>1, <2>2 DEF Alternate, CutShows, OneReply, Known
    <2>4. QED
      BY <2>1, <2>3 DEF Matched, RepliesBelong
  <1>3. ASSUME NEW o \in Ops, Ask(o) PROVE Matched'
    <2>1. /\ UNCHANGED <<inbound, open, cut>> /\ owed' = Append(owed, calls') /\ pc' = "header"
          /\ op' = o /\ o \notin Feeds /\ result' = "none" /\ Usable
      BY <1>3 DEF Ask, Ops, Feeds
    <2>2. /\ Alternate /\ pc = "idle" /\ owed = <<>>
          /\ \A i \in 1 .. Len(inbound) : ~Known(i)
      BY <2>1, UsedInStep
    <2>3. owed' = <<calls'>>
      BY <2>1, <2>2
    <2>4. Alternate' /\ OneReply'
      BY <2>1, <2>2, <2>3 DEF Alternate, CutShows, OneReply, Known
    <2>5. QED
      BY <2>1, <2>4 DEF Matched, RepliesBelong
  <1>4. ASSUME NEW o \in Feeds, Follow(o) PROVE Matched'
    <2>1. /\ UNCHANGED <<inbound, open, cut, owed, changes>> /\ op' = o /\ o \notin Ops /\ answered' = 0
          /\ Usable
          /\ \/ pc' = "feed" /\ feed' = TRUE
             \/ pc' = "gone"
      BY <1>4 DEF Follow, Ops, Feeds
    <2>2. /\ Alternate /\ pc = "idle" /\ owed = <<>> /\ changes = 0
          /\ \A i \in 1 .. Len(inbound) : ~Known(i)
      BY <2>1, UsedInStep
    <2>3. CASE pc' = "gone"
      BY <2>1, <2>3 DEF Matched, InStep, RepliesBelong
    <2>4. CASE pc' = "feed" /\ feed' = TRUE
      <3>1. Alternate'
        BY <2>1, <2>2, <2>4 DEF Alternate, CutShows
      <3>2. Len(inbound) \in Nat
        BY LenProperties DEF Sound, TypeOK
      <3>3. ASSUME ~Doomed'
            PROVE  /\ \A i \in 1 .. Len(inbound) : inbound[i].unit # "body"
                   /\ open => Len(inbound) = 0
        <4>1. Len(inbound) > 0 => 1 \in 1 .. Len(inbound) /\ inbound[1].unit = "stub"
          BY <2>1, <2>2, <2>4, <3>2, <3>3 DEF Alternate, Doomed, Known
        <4>2. Len(inbound) > 0 => 1 = Len(inbound) /\ ~open
          BY <2>2, <4>1 DEF Alternate
        <4>3. open => Len(inbound) = 0
          BY <3>2, <4>2
        <4>4. ASSUME NEW i \in 1 .. Len(inbound) PROVE inbound[i].unit # "body"
          <5>1. Len(inbound) > 0
            BY <3>2
          <5>2. Len(inbound) = 1
            BY <4>2, <5>1
          <5>3. i = 1
            BY <5>2
          <5>4. QED
            BY <4>1, <5>1, <5>3
        <4>5. QED
          BY <4>3, <4>4
      <3>4. Taken' = 0
        BY <2>4 DEF Taken
      <3>5. InTurn'
        BY <2>1, <2>2, <2>4, <3>3, <3>4 DEF InTurn
      <3>6. QED
        BY <2>1, <3>1, <3>5 DEF Matched, RepliesBelong
    <2>5. QED
      BY <2>1, <2>3, <2>4
  <1>5. CASE NextArrival
    <2>1. pc = "feed" /\ op \in Feeds /\ op \notin Ops /\ finished' = finished
      BY <1>5 DEF NextArrival, Sound, Ops, Feeds
    <2>2. CASE finished
      BY <1>5, <2>1, <2>2, OutOfStep DEF NextArrival, Ended
    <2>3. CASE ~finished
      <3>1. /\ pc' = "header" /\ result' = "none" /\ result \notin Broken
            /\ UNCHANGED <<inbound, open, cut, owed, changes, feed, op, calls, answered>>
        BY <1>5, <2>3 DEF NextArrival, GoesOn, Ended, node, Broken, Errors
      <3>2. Alternate /\ InTurn
        BY <1>5, <2>1, <2>3, <3>1 DEF Matched, InStep, NextArrival
      <3>3. Alternate' /\ InTurn'
        BY <2>1, <3>1, <3>2 DEF Alternate, CutShows, InTurn, Doomed, Known, Taken
      <3>4. QED
        BY <2>1, <3>1, <3>3 DEF Matched, RepliesBelong
    <2>4. QED
      BY <2>2, <2>3
  <1>6. CASE Lost
    BY <1>6, OutOfStep DEF Lost, Broken
  <1>7. QED
    BY <1>1, <1>2, <1>3, <1>4, <1>5, <1>6

-------------------------------------------------------------------------------
(* The theorems.                                                           *)

LEMMA NextSound == ASSUME Sound, [Next]_vars PROVE Sound'
  <1>1. CASE UNCHANGED vars
    BY <1>1 DEF vars, node, client, Sound, TypeOK
  <1>2. QED
    BY <1>1, NodeSound, ReadingSound, CallerSound DEF Next

LEMMA AlwaysSound == Spec => []Sound
  BY InitSound, NextSound, PTL DEF Spec, Safety

\* Every variable keeps to its values: a node owes only calls that were made, and a feed
\* that ended reads no more.
THEOREM Typed == Spec => []TypeOK
  <1>1. Sound => TypeOK
    BY DEF Sound
  <1>2. QED
    BY <1>1, AlwaysSound, PTL

LEMMA NextMatched ==
    ASSUME Reused \cap Broken = {}, Sound, Matched, [Next]_vars PROVE Matched'
  <1>1. CASE UNCHANGED vars
    BY <1>1 DEF vars, node, client, Matched, InStep, RepliesBelong, Alternate, CutShows, OneReply, InTurn,
                Doomed, Known, Taken
  <1>2. QED
    BY <1>1, NodeMatched, ReadingMatched, CallerMatched DEF Next

LEMMA AlwaysMatched == ASSUME Reused \cap Broken = {} PROVE Spec => []Matched
  <1>1. Sound /\ Matched /\ [Next]_vars => Matched'
    BY NextMatched
  <1>2. QED
    BY InitMatched, AlwaysSound, <1>1, PTL DEF Spec, Safety

\* A reply returned is the reply to the call, however many calls were made and whatever
\* else the node sent, when callers give up a connection after the errors that leave it
\* out of step.
THEOREM RepliesBelongAlways == ASSUME Reused \cap Broken = {} PROVE Spec => []RepliesBelong
  <1>1. Matched => RepliesBelong
    BY DEF Matched
  <1>2. QED
    BY <1>1, AlwaysMatched, PTL

\* A feed on such a connection hands over every change in its turn.
THEOREM FeedInOrder == ASSUME Reused \cap Broken = {} PROVE Spec => FeedMissesNothing
  <1> DEFINE InTurnTold == pc = "body" /\ op \in Feeds /\ result' \in {"change", "progress"}
                               => answered' = answered + 1
  <1>1. ASSUME Sound, Matched, Next PROVE InTurnTold
    <2> SUFFICES ASSUME pc = "body", op \in Feeds, result' \in {"change", "progress"}
                 PROVE  answered' = answered + 1
      OBVIOUS
    <2>1. result = "none" /\ pc # "idle"
      BY <1>1 DEF Sound
    <2>2. ~Node
      <3>1. Node => result' = result
        BY <1>1, NodeDoes DEF Sound
      <3>2. QED
        BY <2>1, <3>1
    <2>3. ~EndOfStream /\ ~Lost
      <3>1. EndOfStream => result' \in {"ended", "truncated"}
        BY EndDoes DEF Return
      <3>2. Lost => result' = "lost"
        BY DEF Lost, Return
      <3>3. QED
        BY <3>1, <3>2
    <2>4. ~ReadHeader /\ ~Greet /\ ~NextArrival
      BY DEF ReadHeader, Greet, NextArrival
    <2>5. \A o : ~NotSent(o) /\ ~Ask(o) /\ ~Follow(o)
      BY <2>1 DEF NotSent, Ask, Follow, Usable
    <2>6. ReadBody
      BY <1>1, <2>2, <2>3, <2>4, <2>5 DEF Next, Reading
    <2>7. inbound[1].unit = "body" /\ inbound[1].of = answered + 1
      BY <1>1, <2>6, ReadBodyIsNext
    <2>8. \/ \E what \in {"change", "progress", "malformed"} : Return(what, inbound[1].of)
          \/ \E of \in Nat : Return("refusal", of) \/ Return("unknown_frame", 0)
      BY <1>1, <2>6, <2>7, ReadBodyDoes
    <2>9. QED
      BY <2>7, <2>8 DEF Return
  <1>2. Sound /\ Matched /\ [Next]_vars => [InTurnTold]_vars
    BY <1>1
  <1>3. QED
    BY <1>2, AlwaysSound, AlwaysMatched, PTL DEF Spec, Safety, FeedMissesNothing

\* Nor does it take for an end of the feed what was cut off, however often the connection
\* was used before and wherever it broke off.
THEOREM EndsAreWhole == ASSUME Reused \cap Broken = {} PROVE Spec => CutShortIsNoEnd
  <1> DEFINE EndIsWhole == ~finished /\ finished' /\ result' = "ended" => ~cut
  <1>1. ASSUME Sound, Matched, Next PROVE EndIsWhole
    <2> SUFFICES ASSUME ~finished, finished', result' = "ended" PROVE ~cut
      OBVIOUS
    <2>1. ~Node
      <3>1. Node => finished' = finished
        BY <1>1, NodeDoes DEF Sound
      <3>2. QED
        BY <3>1
    <2>2. /\ ~Greet /\ ~NextArrival /\ ~Lost /\ ~ReadHeader
          /\ \A o : ~NotSent(o) /\ ~Ask(o) /\ ~Follow(o)
      BY DEF Greet, NextArrival, Lost, ReadHeader, NotSent, Ask, Follow
    <2>3. ~ReadBody
      <3>1. ReadBody => result' # "ended"
        BY DEF ReadBody, Arrived, Answered, Return
      <3>2. QED
        BY <3>1
    <2>4. EndOfStream
      BY <1>1, <2>1, <2>2, <2>3 DEF Next, Reading
    <2>5. pc = "header" /\ inbound = <<>>
      BY <2>4 DEF EndOfStream, Return
    <2>6. Alternate
      BY <1>1, <2>5, UnderWay DEF Matched
    <2>7. QED
      BY <2>5, <2>6 DEF Alternate, CutShows
  <1>2. Sound /\ Matched /\ [Next]_vars => [EndIsWhole]_vars
    BY <1>1
  <1>3. QED
    BY <1>2, AlwaysSound, AlwaysMatched, PTL DEF Spec, Safety, CutShortIsNoEnd
=============================================================================
