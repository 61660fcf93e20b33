-------------------------- MODULE Subscription_proofs --------------------------
(* Proofs about Subscription. *)
EXTENDS Subscription, SequenceTheorems, FiniteSetTheorems, TLAPS

-------------------------------------------------------------------------------
(* The invariants.                                                         *)

\* Commits follow one another in the log.
LogOrdered ==
    \A i, j \in 1 .. Len(log) : i <= j => log[i].sequence <= log[j].sequence

\* The last change of a commit.
LastOfCommit(n) ==
    \A i \in 1 .. Len(log) : log[i].sequence <= log[n].sequence => i <= n

\* What the feed sends is a change of the log, or the end of a commit.
OfTheLog(a) ==
    /\ a.cursor \in 1 .. Len(log) /\ a.sequence = log[a.cursor].sequence
    /\ a.kind = "change" =>
          a.record = log[a.cursor].record /\ a.became = Seen(log[a.cursor].became)
    /\ a.kind = "progress" => LastOfCommit(a.cursor)

Sound ==
    /\ TypeOK
    /\ LogOrdered
    /\ \A i \in 1 .. Len(inbound) : OfTheLog(inbound[i])
    /\ pc = "keeping" => OfTheLog(arrival)
    /\ pc = "away" => ~open /\ inbound = <<>>
    /\ skipped => read > 0
    /\ kept.from <= Sequence + 1

\* The record r was v after the first n changes of a log.
Was(changes, r, n, v) ==
    \/ \E i \in 1 .. n : /\ changes[i].record = r /\ changes[i].became = v
                         /\ \A j \in i + 1 .. n : changes[j].record # r
    \/ v = "gone" /\ \A j \in 1 .. n : changes[j].record # r

\* The table is what the log made of it.
TableIsTheLog == \A r \in Records : Was(log, r, Len(log), records[r])

\* No change between two places of the log concerns the subscriber for this record.
Unconcerned(r, m, n) ==
    \A k \in m + 1 .. n : log[k].record = r => ~Concerns(log[k])

\* Such changes leave a record, as the subscriber sees it, what it was.
SeenAsBefore ==
    \A r \in Records, m, n \in 0 .. Len(log), v \in Values :
        m <= n /\ Unconcerned(r, m, n) /\ Was(log, r, m, v) =>
            \E w \in Values : Was(log, r, n, w) /\ Seen(w) = Seen(v)

\* What is on its way comes from the changes after p and up to e, in order,
Within(p, e) ==
    \A i \in 1 .. Len(inbound) :
        /\ inbound[i].cursor \in p .. e
        /\ inbound[i].kind = "change" => inbound[i].cursor > p

Ascending ==
    \A i, j \in 1 .. Len(inbound) : i < j =>
        /\ inbound[i].cursor <= inbound[j].cursor
        /\ inbound[j].kind = "change" => inbound[i].cursor < inbound[j].cursor

\* and is all of them that concerns the subscriber.
Whole(p, e) ==
    \A n \in p + 1 .. e : Concerns(log[n]) =>
        \E i \in 1 .. Len(inbound) : inbound[i].kind = "change" /\ inbound[i].cursor = n

Between(p, e) ==
    p <= e /\ (open => e = read) /\ Within(p, e) /\ Ascending /\ Whole(p, e)

\* Each record of the mirror is what it was at p or later.
AtLeast(p) ==
    \A r \in Records : \E m \in p .. Len(log), v \in Values :
        Was(log, r, m, v) /\ mirror[r] = Seen(v)

\* The subscriber has taken all up to p, and would resume there or before.
TakenUpTo(p) ==
    /\ AtLeast(p)
    /\ Before(kept) <= p
    /\ pc = "keeping" => Before(PlaceAfter(arrival)) <= p

Placed == \E p, e \in 0 .. Len(log) : TakenUpTo(p) /\ Between(p, e)

Mirrored == TableIsTheLog /\ SeenAsBefore /\ Placed

-------------------------------------------------------------------------------
(* The log.                                                                *)

LEMMA LogTyped ==
    ASSUME TypeOK
    PROVE  /\ Len(log) \in Nat
           /\ \A i \in 1 .. Len(log) : log[i] \in Changes
  BY LenProperties, ElementOfSeq DEF TypeOK

LEMMA ChangeTyped ==
    ASSUME NEW c \in Changes
    PROVE  c.sequence \in 1 .. Commits /\ c.record \in Records /\ c.became \in Values
  BY DEF Changes

\* The last commit's sequence is the greatest.
LEMMA SequenceTyped ==
    ASSUME TypeOK, LogOrdered
    PROVE  /\ Sequence \in 0 .. Commits
           /\ \A i \in 1 .. Len(log) :
                 log[i].sequence \in 1 .. Commits /\ log[i].sequence <= Sequence
  <1>1. CASE log = <<>>
    BY <1>1, ConstantsAssumption DEF Sequence
  <1>2. CASE log # <<>>
    <2>1. Len(log) \in 1 .. Len(log)
      BY <1>2, EmptySeq DEF TypeOK
    <2>2. \A i \in 1 .. Len(log) : log[i].sequence \in 1 .. Commits
      BY LogTyped, ChangeTyped
    <2>3. Sequence = log[Len(log)].sequence
      BY <1>2 DEF Sequence
    <2>4. \A i \in 1 .. Len(log) : i <= Len(log)
      BY LogTyped
    <2>5. \A i \in 1 .. Len(log) : log[i].sequence <= log[Len(log)].sequence
      BY <2>1, <2>4 DEF LogOrdered
    <2>6. QED
      BY <2>1, <2>2, <2>3, <2>5, ConstantsAssumption
  <1>3. QED
    BY <1>1, <1>2

LEMMA NoMoreThan ==
    ASSUME NEW n \in Nat, NEW S, S \subseteq 1 .. n
    PROVE  Cardinality(S) \in Nat /\ Cardinality(S) <= n
  <1>1. \A a, b \in Int : /\ IsFiniteSet(a .. b)
                         /\ Cardinality(a .. b) = IF a > b THEN 0 ELSE b - a + 1
    BY FS_Interval
  <1>2. IsFiniteSet(1 .. n) /\ Cardinality(1 .. n) = IF 1 > n THEN 0 ELSE n - 1 + 1
    <2>1. 1 \in Int /\ n \in Int
      OBVIOUS
    <2>2. QED
      BY <1>1, <2>1, Zenon
  <1>3. (IF 1 > n THEN 0 ELSE n - 1 + 1) = n
    OBVIOUS
  <1>4. S \in SUBSET (1 .. n)
    OBVIOUS
  <1>5. IsFiniteSet(S) /\ Cardinality(S) <= Cardinality(1 .. n)
    BY <1>2, <1>4, FS_Subset, Zenon
  <1>6. Cardinality(S) \in Nat
    BY <1>5, FS_CardinalityType
  <1>7. QED
    BY <1>2, <1>3, <1>5, <1>6

\* Where the node begins, bounded by what is known of where it should.
LEMMA BeginsBy ==
    ASSUME Len(log) \in Nat, NEW follow, follow.cursor = None,
           NEW p \in Nat,
           \A i \in 1 .. Len(log) : log[i].sequence < follow.from => i <= p
    PROVE  Before(follow) \in Nat /\ Before(follow) <= p /\ Before(follow) <= Len(log)
  <1> DEFINE S == {n \in 1 .. Len(log) : log[n].sequence < follow.from}
  <1>1. Before(follow) = Cardinality(S)
    BY DEF Before
  <1>2. S \subseteq 1 .. p /\ S \subseteq 1 .. Len(log)
    OBVIOUS
  <1> HIDE DEF S
  <1>3. QED
    BY <1>1, <1>2, NoMoreThan

LEMMA BeginsInTheLog ==
    ASSUME TypeOK
    PROVE  Before(kept) \in 0 .. Len(log)
  <1>1. CASE kept.cursor # None
    BY <1>1, LogTyped DEF Before, TypeOK
  <1>2. CASE kept.cursor = None
    <2>1. Len(log) \in Nat
      BY LogTyped
    <2>2. \A i \in 1 .. Len(log) : log[i].sequence < kept.from => i <= Len(log)
      BY <2>1
    <2>3. QED
      BY <1>2, <2>1, <2>2, BeginsBy
  <1>3. QED
    BY <1>1, <1>2

\* The place kept after an arrival is in the log, and nothing that follows the
\* arrival is before it, unless the commit is taken for handled.
LEMMA PlaceAfterTyped ==
    ASSUME TypeOK, LogOrdered, NEW a \in Arrivals, OfTheLog(a)
    PROVE  /\ PlaceAfter(a) \in [from : 0 .. Commits + 1, cursor : 1 .. Len(log) \cup {None}]
           /\ PlaceAfter(a).from <= Sequence + 1
           /\ place # "commit_handled" => Before(PlaceAfter(a)) <= a.cursor
  <1>1. /\ a.kind \in {"change", "progress"} /\ a.sequence \in 1 .. Commits
        /\ a.cursor \in 1 .. Len(log) /\ a.sequence = log[a.cursor].sequence
    BY DEF Arrivals, OfTheLog
  <1>2. Sequence \in Nat /\ a.sequence <= Sequence
    BY <1>1, SequenceTyped
  <1>3. Len(log) \in Nat /\ \A i \in 1 .. Len(log) : log[i].sequence \in Nat
    BY LogTyped, SequenceTyped
  <1>4. place \in KeptBy
    BY ConstantsAssumption DEF TypeOK
  <1>5. CASE place = "cursor"
    <2>1. PlaceAfter(a) = [from |-> 0, cursor |-> a.cursor]
      BY <1>5 DEF PlaceAfter, ResumingAt
    <2>2. a.cursor # None
      BY <1>1, ConstantsAssumption
    <2>3. QED
      BY <1>1, <1>2, <2>1, <2>2, ConstantsAssumption DEF Before
  <1>6. CASE place = "commit_handled"
    <2>1. PlaceAfter(a) = [from |-> a.sequence + 1, cursor |-> None]
      BY <1>6 DEF PlaceAfter, ResumingAfter
    <2>2. QED
      BY <1>1, <1>2, <1>6, <2>1, ConstantsAssumption
  <1>7. CASE place = "commits_whole" /\ a.kind = "change"
    <2>1. PlaceAfter(a) = [from |-> a.sequence - 1 + 1, cursor |-> None]
      BY <1>7 DEF PlaceAfter, ResumingAfter
    <2>2. PlaceAfter(a) = [from |-> a.sequence, cursor |-> None]
      BY <1>1, <2>1
    <2>3. \A i \in 1 .. Len(log) : log[i].sequence < a.sequence => i <= a.cursor
      BY <1>1, <1>3 DEF LogOrdered
    <2>4. Before(PlaceAfter(a)) <= a.cursor
      BY <1>1, <1>3, <2>2, <2>3, BeginsBy
    <2>5. QED
      BY <1>1, <1>2, <2>2, <2>4, ConstantsAssumption
  <1>8. CASE place = "commits_whole" /\ a.kind = "progress"
    <2>1. PlaceAfter(a) = [from |-> a.sequence + 1, cursor |-> None]
      BY <1>8 DEF PlaceAfter, ResumingAfter
    <2>2. \A i \in 1 .. Len(log) : log[i].sequence <= a.sequence => i <= a.cursor
      BY <1>1, <1>8 DEF OfTheLog, LastOfCommit
    <2>3. \A i \in 1 .. Len(log) : log[i].sequence < a.sequence + 1 => i <= a.cursor
      BY <1>1, <1>3, <2>2
    <2>4. Before(PlaceAfter(a)) <= a.cursor
      BY <1>1, <1>3, <2>1, <2>3, BeginsBy
    <2>5. QED
      BY <1>1, <1>2, <2>1, <2>4, ConstantsAssumption
  <1>9. QED
    BY <1>1, <1>4, <1>5, <1>6, <1>7, <1>8 DEF KeptBy

\* What a commit does to the log and the table.
Extended ==
    /\ log' \in Seq(Changes) /\ Len(log') \in Nat /\ Len(log) < Len(log')
    /\ records' \in [Records -> Values]
    /\ Sequence + 1 <= Commits
    /\ \A i \in 1 .. Len(log) : log'[i] = log[i]
    /\ \A i \in Len(log) + 1 .. Len(log') :
          /\ log'[i].record \in Records
          /\ log'[i].sequence = Sequence + 1
          /\ log'[i].was = records[log'[i].record]
          /\ log'[i].became = records'[log'[i].record]
          /\ \A j \in Len(log) + 1 .. Len(log') : log'[j].record = log'[i].record => j = i
    /\ \A r \in Records :
          (\A i \in Len(log) + 1 .. Len(log') : log'[i].record # r) => records'[r] = records[r]

LEMMA CommitExtends ==
    ASSUME TypeOK, LogOrdered,
           NEW order \in Orders, NEW became \in [Records -> Values], Commit(order, became)
    PROVE  Extended
  <1> DEFINE added == [i \in DOMAIN order |-> [sequence |-> Sequence + 1,
                                             record   |-> order[i],
                                             was      |-> records[order[i]],
                                             became   |-> became[order[i]]]]
  <1>1. PICK n \in {1, 2} : order \in [1 .. n -> Records]
    BY DEF Orders
  <1>2. \A i, j \in 1 .. n : order[i] = order[j] => i = j
    BY <1>1 DEF Orders
  <1>3. Sequence + 1 \in 1 .. Commits
    BY SequenceTyped, ConstantsAssumption DEF Commit
  <1>4. /\ added \in Seq(Changes) /\ Len(added) = n
        /\ \A i \in 1 .. n : added[i] = [sequence |-> Sequence + 1, record |-> order[i],
                                       was |-> records[order[i]], became |-> became[order[i]]]
    <2>1. added \in [1 .. n -> Changes]
      BY <1>1, <1>3 DEF TypeOK, Changes
    <2>2. DOMAIN order = 1 .. n
      BY <1>1
    <2>3. added \in Seq(Changes) /\ Len(added) = n
      BY <1>1, <2>1
    <2>4. QED
      BY <2>2, <2>3
  <1>5. log' = log \o added /\ log \in Seq(Changes)
    BY DEF Commit, TypeOK
  <1> HIDE DEF added
  <1>6. /\ log' \in Seq(Changes) /\ Len(log') = Len(log) + n
        /\ \A i \in 1 .. Len(log) + n : log'[i] = IF i <= Len(log) THEN log[i]
                                                               ELSE added[i - Len(log)]
    BY <1>4, <1>5, ConcatProperties
  <1>7. Len(log) \in Nat
    BY LogTyped
  <1>8. /\ Len(log') \in Nat /\ Len(log) < Len(log')
        /\ \A i \in 1 .. Len(log) : log'[i] = log[i]
        /\ \A i \in Len(log) + 1 .. Len(log') :
              i - Len(log) \in 1 .. n /\ log'[i] = added[i - Len(log)]
        /\ \A i \in 1 .. n : /\ i + Len(log) \in Len(log) + 1 .. Len(log')
                            /\ log'[i + Len(log)] = added[i]
    BY <1>1, <1>6, <1>7
  <1>9. records' = [r \in Records |-> IF \E i \in 1 .. n : order[i] = r THEN became[r]
                                                                   ELSE records[r]]
    BY <1>1 DEF Commit
  <1>10. records' \in [Records -> Values]
    BY <1>9 DEF TypeOK
  <1>11. ASSUME NEW i \in Len(log) + 1 .. Len(log')
         PROVE  /\ log'[i].record \in Records
                /\ log'[i].sequence = Sequence + 1
                /\ log'[i].was = records[log'[i].record]
                /\ log'[i].became = records'[log'[i].record]
                /\ \A j \in Len(log) + 1 .. Len(log') :
                      log'[j].record = log'[i].record => j = i
    <2>1. /\ log'[i].record = order[i - Len(log)] /\ log'[i].record \in Records
          /\ log'[i].sequence = Sequence + 1
          /\ log'[i].was = records[log'[i].record]
          /\ log'[i].became = became[log'[i].record]
      BY <1>1, <1>4, <1>8
    <2>2. records'[log'[i].record] = became[log'[i].record]
      BY <1>8, <1>9, <2>1
    <2>3. ASSUME NEW j \in Len(log) + 1 .. Len(log'), log'[j].record = log'[i].record
          PROVE  j = i
      <3>1. log'[j].record = order[j - Len(log)]
        BY <1>4, <1>8
      <3>2. /\ order[j - Len(log)] = order[i - Len(log)]
            /\ j - Len(log) \in 1 .. n /\ i - Len(log) \in 1 .. n
        BY <1>8, <2>1, <2>3, <3>1
      <3> DEFINE k == j - Len(log)
                 l == i - Len(log)
      <3> HIDE DEF k, l
      <3>3. k = l
        <4>1. k \in 1 .. n /\ l \in 1 .. n /\ order[k] = order[l]
          BY <3>2 DEF k, l
        <4>2. QED
          BY <1>2, <4>1
      <3>4. QED
        BY <1>7, <1>8, <3>3 DEF k, l
    <2>4. QED
      BY <2>1, <2>2, <2>3
  <1>12. ASSUME NEW r \in Records, \A i \in Len(log) + 1 .. Len(log') : log'[i].record # r
         PROVE  records'[r] = records[r]
    <2>1. \A i \in 1 .. n : order[i] # r
      BY <1>4, <1>8, <1>12
    <2>2. QED
      BY <1>9, <2>1
  <1>13. Sequence + 1 <= Commits
    BY <1>3, ConstantsAssumption
  <1>14. QED
    BY <1>6, <1>8, <1>10, <1>11, <1>12, <1>13 DEF Extended

\* It is the last commit then.
LEMMA ExtendsSequence ==
    ASSUME TypeOK, LogOrdered, Extended
    PROVE  Sequence' = Sequence + 1 /\ LogOrdered'
  <1>1. Len(log) \in Nat /\ Sequence \in Nat
    BY LogTyped, SequenceTyped
  <1>2. log' # <<>> /\ Len(log') \in Len(log) + 1 .. Len(log')
    BY <1>1, EmptySeq DEF Extended
  <1>3. Sequence' = Sequence + 1
    BY <1>2 DEF Sequence, Extended
  <1>4. ASSUME NEW i \in 1 .. Len(log'), NEW j \in 1 .. Len(log'), i <= j
        PROVE  log'[i].sequence <= log'[j].sequence
    <2>1. CASE j <= Len(log)
      <3>1. i \in 1 .. Len(log) /\ j \in 1 .. Len(log)
        BY <1>1, <1>4, <2>1 DEF Extended
      <3>2. QED
        BY <1>4, <3>1 DEF Extended, LogOrdered
    <2>2. CASE j > Len(log)
      <3>1. log'[j].sequence = Sequence + 1
        BY <1>1, <2>2 DEF Extended
      <3>2. CASE i <= Len(log)
        <4>1. i \in 1 .. Len(log)
          BY <1>1, <3>2
        <4>2. log'[i] = log[i] /\ log[i].sequence \in Nat /\ log[i].sequence <= Sequence
          BY <4>1, SequenceTyped DEF Extended
        <4>3. QED
          BY <1>1, <3>1, <4>2
      <3>3. CASE i > Len(log)
        <4>1. log'[i].sequence = Sequence + 1
          BY <1>1, <3>3 DEF Extended
        <4>2. QED
          BY <1>1, <3>1, <4>1
      <3>4. QED
        BY <1>1, <3>2, <3>3
    <2>3. QED
      BY <1>1, <2>1, <2>2 DEF Extended
  <1>5. QED
    BY <1>3, <1>4 DEF LogOrdered

\* An image of the log stays one, a place in it stays where it was.
LEMMA StillOfTheLog ==
    ASSUME TypeOK, LogOrdered, Extended, narrowed' = narrowed, NEW a, OfTheLog(a)
    PROVE  OfTheLog(a)'
  <1>1. Len(log) \in Nat /\ Sequence \in Nat
    BY LogTyped, SequenceTyped
  <1>2. /\ a.cursor \in 1 .. Len(log') /\ log'[a.cursor] = log[a.cursor]
        /\ a.cursor \in 1 .. Len(log) /\ a.sequence = log[a.cursor].sequence
    BY <1>1 DEF OfTheLog, Extended
  <1>3. ASSUME a.kind = "progress", NEW i \in 1 .. Len(log'),
               log'[i].sequence <= log'[a.cursor].sequence
        PROVE  i <= a.cursor
    <2>1. i \in 1 .. Len(log)
      <3>1. log[a.cursor].sequence \in Nat /\ log[a.cursor].sequence <= Sequence
        BY <1>2, SequenceTyped
      <3>2. i > Len(log) => log'[i].sequence = Sequence + 1
        BY <1>1 DEF Extended
      <3>3. QED
        BY <1>1, <1>2, <1>3, <3>1, <3>2
    <2>2. QED
      BY <1>2, <1>3, <2>1 DEF OfTheLog, LastOfCommit, Extended
  <1>4. QED
    BY <1>2, <1>3 DEF OfTheLog, LastOfCommit, Seen

-------------------------------------------------------------------------------
(* The feed.                                                               *)

\* What was sent is one change, as the subscriber sees it,
LEMMA ChangeSent ==
    ASSUME TypeOK, NEW n \in 1 .. Len(log), NEW a, a = [Change(n) EXCEPT !.became = Seen(@)]
    PROVE  a \in Arrivals /\ OfTheLog(a) /\ a.cursor = n /\ a.kind = "change"
  <1>1. log[n] \in Changes /\ n \in Nat
    BY LogTyped
  <1>2. a = [kind |-> "change", sequence |-> log[n].sequence, cursor |-> n,
             record |-> log[n].record, became |-> Seen(log[n].became)]
    BY DEF Change
  <1>3. Seen(log[n].became) \in Values
    BY <1>1, ChangeTyped DEF Seen, Values
  <1>4. log[n].sequence \in 1 .. Commits /\ log[n].record \in Records
    BY <1>1, ChangeTyped
  <1>5. a \in Arrivals
    <2> DEFINE s == log[n].sequence
               r == log[n].record
               v == Seen(log[n].became)
    <2>1. s \in 1 .. Commits /\ r \in Records /\ v \in Values
      BY <1>3, <1>4
    <2>2. a = [kind |-> "change", sequence |-> s, cursor |-> n, record |-> r, became |-> v]
      BY <1>2
    <2> HIDE DEF s, r, v
    <2>3. [kind |-> "change", sequence |-> s, cursor |-> n, record |-> r, became |-> v]
          \in Arrivals
      BY <1>1, <2>1 DEF Arrivals
    <2>4. QED
      BY <2>2, <2>3
  <1>6. OfTheLog(a) /\ a.cursor = n /\ a.kind = "change"
    BY <1>2 DEF OfTheLog
  <1>7. QED
    BY <1>5, <1>6

\* or that the log was read to its end.
LEMMA ProgressSent ==
    ASSUME TypeOK, Len(log) > 0, NEW a, a = Progress(Len(log))
    PROVE  a \in Arrivals /\ OfTheLog(a) /\ a.cursor = Len(log) /\ a.kind = "progress"
  <1>1. Len(log) \in 1 .. Len(log) /\ Len(log) \in Nat
    BY LogTyped
  <1>2. log[Len(log)] \in Changes
    BY <1>1, LogTyped
  <1>3. a = [kind |-> "progress", sequence |-> log[Len(log)].sequence, cursor |-> Len(log)]
    BY DEF Progress
  <1>4. QED
    BY <1>1, <1>2, <1>3, ChangeTyped DEF Arrivals, OfTheLog, LastOfCommit

LEMMA InboundTyped ==
    ASSUME TypeOK
    PROVE  /\ Len(inbound) \in Nat
           /\ \A i \in 1 .. Len(inbound) : inbound[i] \in Arrivals
           /\ inbound # <<>> => Len(inbound) > 0
  BY LenProperties, ElementOfSeq, EmptySeq DEF TypeOK

\* A frame is sent after those sent before,
LEMMA Longer ==
    ASSUME TypeOK, NEW a \in Arrivals, NEW t, t = Append(inbound, a)
    PROVE  /\ t \in Seq(Arrivals) /\ Len(t) = Len(inbound) + 1
           /\ t[Len(inbound) + 1] = a
           /\ \A i \in 1 .. Len(inbound) : t[i] = inbound[i]
  BY DEF TypeOK

\* the first is taken first,
LEMMA Shorter ==
    ASSUME TypeOK, inbound # <<>>, NEW t, t = Tail(inbound)
    PROVE  /\ Head(inbound) = inbound[1] /\ inbound[1] \in Arrivals
           /\ t \in Seq(Arrivals) /\ Len(t) = Len(inbound) - 1
           /\ \A i \in 1 .. Len(t) : t[i] = inbound[i + 1]
  <1>1. inbound \in Seq(Arrivals)
    BY DEF TypeOK
  <1>2. Head(inbound) = inbound[1]
    BY <1>1
  <1>3. QED
    BY <1>1, <1>2, HeadTailProperties

\* and what is lost with the connection is the last.
LEMMA CutOff ==
    ASSUME TypeOK, NEW n \in 0 .. Len(inbound), NEW t, t = SubSeq(inbound, 1, n)
    PROVE  /\ t \in Seq(Arrivals) /\ Len(t) = n
           /\ \A i \in 1 .. n : t[i] = inbound[i]
  <1>1. /\ Len(inbound) \in Nat
        /\ \A i \in 1 .. Len(inbound) : inbound[i] \in Arrivals
    BY InboundTyped
  <1>2. n \in Int /\ 1 \in Int /\ \A i \in 1 .. n : inbound[i] \in Arrivals
    BY <1>1
  <1>3. /\ t \in Seq(Arrivals)
        /\ Len(t) = IF 1 <= n THEN n - 1 + 1 ELSE 0
        /\ \A i \in 1 .. n - 1 + 1 : t[i] = inbound[1 + i - 1]
    BY <1>2, SubSeqProperties
  <1>4. QED
    BY <1>1, <1>3

-------------------------------------------------------------------------------
(* The values of the variables, and what is in the log.                    *)

LEMMA InitSound == Init => Sound
  <1> SUFFICES ASSUME Init PROVE Sound
    OBVIOUS
  <1>1. log = <<>> /\ inbound = <<>> /\ Len(log) = 0 /\ Len(inbound) = 0
    BY EmptySeq DEF Init
  <1>2. log \in Seq(Changes) /\ inbound \in Seq(Arrivals)
    BY <1>1, EmptySeq
  <1>3. TypeOK
    <2>1. kept \in [from : 0 .. Commits + 1, cursor : 1 .. Len(log) \cup {None}]
      BY ConstantsAssumption DEF Init, Everything
    <2>2. 0 \in 0 .. Len(log) /\ 0 \in 0 .. Breaks
      BY <1>1, ConstantsAssumption
    <2>3. QED
      BY <1>2, <2>1, <2>2 DEF Init, TypeOK, Values
  <1>4. kept.from <= Sequence + 1
    BY <1>1 DEF Init, Everything, Sequence
  <1>5. QED
    BY <1>1, <1>3, <1>4 DEF Sound, Init, LogOrdered

LEMMA CommitSound ==
    ASSUME Sound, NEW order \in Orders, NEW became \in [Records -> Values],
           Commit(order, became)
    PROVE  Sound'
  <1>1. TypeOK /\ LogOrdered /\ Extended
    BY CommitExtends DEF Sound
  <1>2. Len(log) \in Nat /\ Sequence \in Nat
    BY <1>1, LogTyped, SequenceTyped
  <1>3. /\ UNCHANGED <<open, read, skipped, inbound, pc, arrival, mirror, kept>>
        /\ UNCHANGED <<place, narrowed, breaks>>
    BY DEF Commit, subscriber
  <1>4. TypeOK'
    BY <1>1, <1>2, <1>3 DEF TypeOK, Extended
  <1>5. \A a : OfTheLog(a) => OfTheLog(a)'
    BY <1>1, <1>3, StillOfTheLog
  <1>6. Sequence' = Sequence + 1 /\ LogOrdered'
    BY <1>1, ExtendsSequence
  <1>7. kept'.from <= Sequence' + 1
    BY <1>2, <1>3, <1>6 DEF Sound, TypeOK
  <1>8. (\A i \in 1 .. Len(inbound) : OfTheLog(inbound[i]))'
    BY <1>3, <1>5 DEF Sound
  <1>9. (pc = "keeping" => OfTheLog(arrival))'
    BY <1>3, <1>5 DEF Sound
  <1>10. QED
    BY <1>3, <1>4, <1>6, <1>7, <1>8, <1>9 DEF Sound

\* What the other steps leave of the log.
LogStays == UNCHANGED <<records, log, place, narrowed>>

LEMMA StaysInTheLog ==
    ASSUME LogStays
    PROVE  /\ \A a : OfTheLog(a)' <=> OfTheLog(a)
           /\ Sequence' = Sequence /\ LogOrdered' = LogOrdered
  BY DEF LogStays, OfTheLog, LastOfCommit, Seen, Sequence, LogOrdered

LEMMA SendDoes ==
    ASSUME Sound, Send
    PROVE  /\ LogStays /\ UNCHANGED <<open, subscriber, breaks>>
           /\ open /\ read' = read + 1 /\ read' \in 1 .. Len(log)
           /\ \/ /\ ~Concerns(log[read']) /\ skipped' = TRUE /\ inbound' = inbound
              \/ \E a \in Arrivals :
                    /\ OfTheLog(a) /\ a.cursor = read' /\ a.kind = "change"
                    /\ inbound' = Append(inbound, a) /\ skipped' = skipped
  <1>1. LogStays /\ UNCHANGED <<open, subscriber, breaks>> /\ open /\ read' = read + 1
    BY DEF Send, LogStays
  <1>2. read' \in 1 .. Len(log)
    BY LogTyped DEF Send, Sound, TypeOK
  <1>3. CASE Concerns(log[read'])
    <2> DEFINE a == [Change(read') EXCEPT !.became = Seen(@)]
    <2>1. inbound' = Append(inbound, a) /\ skipped' = skipped
      BY <1>3 DEF Send
    <2>2. a \in Arrivals /\ OfTheLog(a) /\ a.cursor = read' /\ a.kind = "change"
      BY <1>2, ChangeSent DEF Sound
    <2> HIDE DEF a
    <2>3. QED
      BY <1>1, <1>2, <2>1, <2>2
  <1>4. CASE ~Concerns(log[read'])
    BY <1>1, <1>2, <1>4 DEF Send
  <1>5. QED
    BY <1>3, <1>4

LEMMA SendSound ==
    ASSUME Sound, Send
    PROVE  Sound'
  <1>1. /\ LogStays /\ UNCHANGED <<open, pc, arrival, mirror, kept, breaks>>
        /\ open /\ read' = read + 1 /\ read' \in 1 .. Len(log)
    BY SendDoes DEF subscriber
  <1>2. /\ inbound' \in Seq(Arrivals) /\ skipped' \in BOOLEAN
        /\ \A i \in 1 .. Len(inbound') : OfTheLog(inbound'[i])
    <2>1. CASE inbound' = inbound /\ skipped' = TRUE
      BY <2>1 DEF Sound, TypeOK
    <2>2. ASSUME NEW a \in Arrivals, OfTheLog(a),
                 inbound' = Append(inbound, a), skipped' = skipped
          PROVE  /\ inbound' \in Seq(Arrivals) /\ skipped' \in BOOLEAN
                 /\ \A i \in 1 .. Len(inbound') : OfTheLog(inbound'[i])
      <3>1. /\ inbound' \in Seq(Arrivals) /\ Len(inbound') = Len(inbound) + 1
            /\ inbound'[Len(inbound) + 1] = a
            /\ \A i \in 1 .. Len(inbound) : inbound'[i] = inbound[i]
        <4>1. TypeOK
          BY DEF Sound
        <4>2. QED
          BY <2>2, <4>1, Longer
      <3>2. Len(inbound) \in Nat
        BY InboundTyped DEF Sound
      <3>3. \A i \in 1 .. Len(inbound') : i \in 1 .. Len(inbound) \/ i = Len(inbound) + 1
        BY <3>1, <3>2
      <3>4. QED
        BY <2>2, <3>1, <3>3 DEF Sound, TypeOK
    <2>3. QED
      BY <2>1, <2>2, SendDoes
  <1>3. Len(log') = Len(log) /\ Len(log) \in Nat
    BY <1>1, LogTyped DEF LogStays, Sound
  <1>4. TypeOK'
    BY <1>1, <1>2, <1>3 DEF Sound, TypeOK, LogStays
  <1>5. QED
    BY <1>1, <1>2, <1>3, <1>4, StaysInTheLog DEF Sound, TypeOK

LEMMA TellDoes ==
    ASSUME Sound, Tell
    PROVE  /\ LogStays /\ UNCHANGED <<open, read, subscriber, breaks>>
           /\ open /\ read = Len(log) /\ skipped' = FALSE
           /\ \E a \in Arrivals : /\ OfTheLog(a) /\ a.cursor = read /\ a.kind = "progress"
                                /\ inbound' = Append(inbound, a)
  <1>1. Len(log) > 0
    BY DEF Tell, Sound
  <1>2. Progress(Len(log)) \in Arrivals /\ OfTheLog(Progress(Len(log)))
        /\ Progress(Len(log)).cursor = Len(log) /\ Progress(Len(log)).kind = "progress"
    BY <1>1, ProgressSent DEF Sound
  <1>3. inbound' = Append(inbound, Progress(Len(log)))
    BY DEF Tell
  <1>4. QED
    BY <1>2, <1>3 DEF Tell, LogStays

LEMMA TellSound ==
    ASSUME Sound, Tell
    PROVE  Sound'
  <1>1. /\ LogStays /\ UNCHANGED <<open, read, pc, arrival, mirror, kept, breaks>>
        /\ open /\ skipped' = FALSE
    BY TellDoes DEF subscriber
  <1>2. PICK a \in Arrivals : OfTheLog(a) /\ inbound' = Append(inbound, a)
    BY TellDoes
  <1>3. /\ inbound' \in Seq(Arrivals) /\ Len(inbound') = Len(inbound) + 1
        /\ inbound'[Len(inbound) + 1] = a
        /\ \A i \in 1 .. Len(inbound) : inbound'[i] = inbound[i]
    <2>1. TypeOK
      BY DEF Sound
    <2>2. QED
      BY <1>2, <2>1, Longer
  <1>4. Len(inbound) \in Nat /\ Len(log) \in Nat
    BY InboundTyped, LogTyped DEF Sound
  <1>5. \A i \in 1 .. Len(inbound') : i \in 1 .. Len(inbound) \/ i = Len(inbound) + 1
    BY <1>3, <1>4
  <1>6. \A i \in 1 .. Len(inbound') : OfTheLog(inbound'[i])
    BY <1>2, <1>3, <1>5 DEF Sound
  <1>7. TypeOK'
    BY <1>1, <1>3 DEF Sound, TypeOK, LogStays
  <1>8. QED
    BY <1>1, <1>6, <1>7, StaysInTheLog DEF Sound

LEMMA HangUpSound ==
    ASSUME Sound, HangUp
    PROVE  Sound'
  <1>1. /\ LogStays /\ UNCHANGED <<read, skipped, pc, arrival, mirror, kept>>
        /\ open /\ open' = FALSE /\ breaks < Breaks /\ breaks' = breaks + 1
    BY DEF HangUp, LogStays, subscriber, Break
  <1>2. PICK n \in 0 .. Len(inbound) : inbound' = SubSeq(inbound, 1, n)
    BY DEF HangUp
  <1>3. /\ inbound' \in Seq(Arrivals) /\ Len(inbound') = n
        /\ \A i \in 1 .. n : inbound'[i] = inbound[i]
    <2>1. TypeOK
      BY DEF Sound
    <2>2. QED
      BY <1>2, <2>1, CutOff
  <1>4. Len(inbound) \in Nat
    BY InboundTyped DEF Sound
  <1>5. \A i \in 1 .. Len(inbound') : OfTheLog(inbound'[i])
    BY <1>3, <1>4 DEF Sound
  <1>6. breaks' \in 0 .. Breaks
    BY <1>1, ConstantsAssumption DEF Sound, TypeOK
  <1>7. TypeOK'
    BY <1>1, <1>3, <1>6 DEF Sound, TypeOK, LogStays
  <1>8. QED
    BY <1>1, <1>5, <1>7, StaysInTheLog DEF Sound

LEMMA FollowSound ==
    ASSUME Sound, Follow
    PROVE  Sound'
  <1>1. /\ LogStays /\ UNCHANGED <<arrival, mirror, kept, breaks>>
        /\ pc = "away" /\ pc' = "reading" /\ open' = TRUE /\ skipped' = FALSE
        /\ read' = Before(kept) /\ inbound' = <<>>
    BY DEF Follow, LogStays
  <1>2. read' \in 0 .. Len(log)
    BY <1>1, BeginsInTheLog DEF Sound
  <1>3. inbound' \in Seq(Arrivals) /\ Len(inbound') = 0
    BY <1>1, EmptySeq
  <1>4. TypeOK'
    BY <1>1, <1>2, <1>3 DEF Sound, TypeOK, LogStays
  <1>5. QED
    BY <1>1, <1>3, <1>4, StaysInTheLog DEF Sound

LEMMA ArriveDoes ==
    ASSUME Sound, Arrive
    PROVE  /\ LogStays /\ UNCHANGED <<open, read, skipped, kept, breaks>>
           /\ pc = "reading" /\ pc' = "keeping" /\ inbound # <<>>
           /\ Len(inbound) \in Nat \ {0} /\ inbound[1] \in Arrivals /\ OfTheLog(inbound[1])
           /\ arrival' = inbound[1]
           /\ inbound' \in Seq(Arrivals) /\ Len(inbound') = Len(inbound) - 1
           /\ \A i \in 1 .. Len(inbound') : inbound'[i] = inbound[i + 1]
           /\ inbound[1].kind = "progress" => mirror' = mirror
           /\ inbound[1].kind = "change" =>
                 /\ inbound[1].record \in Records /\ inbound[1].became \in Values
                 /\ mirror' = [mirror EXCEPT ![inbound[1].record] = inbound[1].became]
           /\ inbound[1].kind \in {"change", "progress"}
  <1>1. TypeOK /\ inbound # <<>>
    BY DEF Sound, Arrive
  <1>2. /\ Head(inbound) = inbound[1] /\ inbound[1] \in Arrivals
        /\ inbound' \in Seq(Arrivals) /\ Len(inbound') = Len(inbound) - 1
        /\ \A i \in 1 .. Len(inbound') : inbound'[i] = inbound[i + 1]
    <2>1. inbound' = Tail(inbound)
      BY DEF Arrive
    <2>2. QED
      BY <1>1, <2>1, Shorter
  <1>3. Len(inbound) \in Nat \ {0}
    BY <1>1, InboundTyped
  <1>4. OfTheLog(inbound[1])
    BY <1>3 DEF Sound
  <1>5. arrival' = inbound[1]
    BY <1>2 DEF Arrive
  <1>6. mirror' = IF inbound[1].kind = "change"
                  THEN [mirror EXCEPT ![inbound[1].record] = inbound[1].became]
                  ELSE mirror
    BY <1>5 DEF Arrive
  <1>7. /\ inbound[1].kind \in {"change", "progress"}
        /\ inbound[1].kind = "change" =>
              inbound[1].record \in Records /\ inbound[1].became \in Values
    BY <1>2 DEF Arrivals
  <1>8. LogStays /\ UNCHANGED <<open, read, skipped, kept, breaks>>
        /\ pc = "reading" /\ pc' = "keeping"
    BY DEF Arrive, LogStays
  <1>9. QED
    BY <1>1, <1>2, <1>3, <1>4, <1>5, <1>6, <1>7, <1>8

LEMMA ArriveSound ==
    ASSUME Sound, Arrive
    PROVE  Sound'
  <1>1. /\ LogStays /\ UNCHANGED <<open, read, skipped, kept, breaks>>
        /\ pc' = "keeping" /\ OfTheLog(inbound[1])
        /\ arrival' = inbound[1] /\ inbound[1] \in Arrivals
    BY ArriveDoes
  <1>2. /\ inbound' \in Seq(Arrivals)
        /\ \A i \in 1 .. Len(inbound') : OfTheLog(inbound'[i])
    <2>1. \A i \in 1 .. Len(inbound') : i + 1 \in 1 .. Len(inbound)
      BY ArriveDoes
    <2>2. QED
      BY <2>1, ArriveDoes DEF Sound
  <1>3. mirror' \in [Records -> Values]
    <2>1. mirror \in [Records -> Values]
      BY DEF Sound, TypeOK
    <2>2. QED
      BY <2>1, ArriveDoes
  <1>4. TypeOK'
    BY <1>1, <1>2, <1>3 DEF Sound, TypeOK, LogStays
  <1>5. QED
    BY <1>1, <1>2, <1>4, StaysInTheLog DEF Sound

LEMMA KeepDoes ==
    ASSUME Sound, Keep
    PROVE  /\ LogStays /\ UNCHANGED <<open, read, skipped, inbound, mirror, breaks>>
           /\ pc = "keeping" /\ pc' = "reading" /\ arrival' = None
           /\ arrival \in Arrivals /\ OfTheLog(arrival) /\ kept' = PlaceAfter(arrival)
  BY DEF Keep, node, LogStays, Sound, TypeOK

LEMMA KeepSound ==
    ASSUME Sound, Keep
    PROVE  Sound'
  <1>1. /\ LogStays /\ UNCHANGED <<open, read, skipped, inbound, mirror, breaks>>
        /\ pc' = "reading" /\ arrival' = None
    BY KeepDoes
  <1>2. /\ kept' \in [from : 0 .. Commits + 1, cursor : 1 .. Len(log) \cup {None}]
        /\ kept'.from <= Sequence + 1
    <2>1. TypeOK /\ LogOrdered
      BY DEF Sound
    <2>2. QED
      BY <2>1, KeepDoes, PlaceAfterTyped
  <1>3. TypeOK'
    BY <1>1, <1>2 DEF Sound, TypeOK, LogStays
  <1>4. QED
    BY <1>1, <1>2, <1>3, StaysInTheLog DEF Sound

LEMMA OverSound ==
    ASSUME Sound, Over
    PROVE  Sound'
  <1>1. /\ LogStays /\ UNCHANGED <<open, read, skipped, inbound, arrival, mirror, kept, breaks>>
        /\ pc = "reading" /\ pc' = "away" /\ ~open /\ inbound = <<>>
    BY DEF Over, node, LogStays, Ended
  <1>2. TypeOK'
    BY <1>1 DEF Sound, TypeOK, LogStays
  <1>3. QED
    BY <1>1, <1>2, StaysInTheLog DEF Sound

LEMMA DieSound ==
    ASSUME Sound, Die
    PROVE  Sound'
  <1>1. /\ LogStays /\ UNCHANGED <<read, skipped, mirror, kept>>
        /\ pc' = "away" /\ arrival' = None /\ open' = FALSE /\ inbound' = <<>>
        /\ breaks < Breaks /\ breaks' = breaks + 1
    BY DEF Die, LogStays, Break
  <1>2. breaks' \in 0 .. Breaks
    BY <1>1, ConstantsAssumption DEF Sound, TypeOK
  <1>3. inbound' \in Seq(Arrivals) /\ Len(inbound') = 0
    BY <1>1, EmptySeq
  <1>4. TypeOK'
    BY <1>1, <1>2, <1>3 DEF Sound, TypeOK, LogStays
  <1>5. QED
    BY <1>1, <1>3, <1>4, StaysInTheLog DEF Sound

LEMMA NextSound == Sound /\ [Next]_vars => Sound'
  <1> SUFFICES ASSUME Sound, [Next]_vars PROVE Sound'
    OBVIOUS
  <1>1. CASE UNCHANGED vars
    <2>1. LogStays /\ UNCHANGED <<open, read, skipped, inbound, pc, arrival, mirror, kept, breaks>>
      BY <1>1 DEF vars, node, subscriber, LogStays
    <2>2. TypeOK'
      BY <2>1 DEF Sound, TypeOK, LogStays
    <2>3. QED
      BY <2>1, <2>2, StaysInTheLog DEF Sound
  <1>2. QED
    BY <1>1, CommitSound, SendSound, TellSound, HangUpSound, FollowSound, ArriveSound,
       KeepSound, OverSound, DieSound DEF Next, Step

LEMMA AlwaysSound == Safety => []Sound
  BY InitSound, NextSound, PTL DEF Safety

\* Every variable keeps its type: what is kept is a place of the log, or one past its
\* last commit, in each way of keeping it.
THEOREM Typed == Safety => []TypeOK
  <1>1. Sound => TypeOK
    BY DEF Sound
  <1>2. QED
    BY <1>1, AlwaysSound, PTL

-------------------------------------------------------------------------------
(* What a record was.                                                      *)

LEMMA WasOne ==
    ASSUME NEW changes, NEW r, NEW n \in Nat, NEW v, NEW w,
           Was(changes, r, n, v), Was(changes, r, n, w)
    PROVE  v = w
  BY DEF Was

LEMMA WasSame ==
    ASSUME NEW changes, NEW others, NEW r, NEW n \in Nat, NEW v,
           \A i \in 1 .. n : changes[i] = others[i]
    PROVE  Was(changes, r, n, v) <=> Was(others, r, n, v)
  BY DEF Was

\* Changes of other records leave it what it was,
LEMMA WasStill ==
    ASSUME NEW changes, NEW r, NEW m \in Nat, NEW n \in Nat, m <= n, NEW v,
           \A k \in m + 1 .. n : changes[k].record # r, Was(changes, r, m, v)
    PROVE  Was(changes, r, n, v)
  <1>1. CASE v = "gone" /\ \A j \in 1 .. m : changes[j].record # r
    <2>1. \A j \in 1 .. n : changes[j].record # r
      BY <1>1
    <2>2. QED
      BY <1>1, <2>1 DEF Was
  <1>2. ASSUME NEW i \in 1 .. m, changes[i].record = r, changes[i].became = v,
               \A j \in i + 1 .. m : changes[j].record # r
        PROVE  Was(changes, r, n, v)
    <2>1. i \in 1 .. n /\ \A j \in i + 1 .. n : changes[j].record # r
      BY <1>2
    <2>2. QED
      BY <1>2, <2>1 DEF Was
  <1>3. QED
    BY <1>1, <1>2 DEF Was

LEMMA WasBefore ==
    ASSUME NEW changes, NEW r, NEW m \in Nat, NEW n \in Nat, m <= n, NEW v,
           \A k \in m + 1 .. n : changes[k].record # r, Was(changes, r, n, v)
    PROVE  Was(changes, r, m, v)
  <1>1. CASE v = "gone" /\ \A j \in 1 .. n : changes[j].record # r
    <2>1. \A j \in 1 .. m : changes[j].record # r
      BY <1>1
    <2>2. QED
      BY <1>1, <2>1 DEF Was
  <1>2. ASSUME NEW i \in 1 .. n, changes[i].record = r, changes[i].became = v,
               \A j \in i + 1 .. n : changes[j].record # r
        PROVE  Was(changes, r, m, v)
    <2>1. i \in 1 .. m
      BY <1>2
    <2>2. \A j \in i + 1 .. m : changes[j].record # r
      BY <1>2
    <2>3. QED
      BY <1>2, <2>1, <2>2 DEF Was
  <1>3. QED
    BY <1>1, <1>2 DEF Was

\* and its own change makes it what it became.
LEMMA WasMade ==
    ASSUME NEW changes, NEW r, NEW n \in Nat, NEW k \in 1 .. n, changes[k].record = r,
           \A j \in k + 1 .. n : changes[j].record # r
    PROVE  Was(changes, r, n, changes[k].became)
  BY DEF Was

\* A change that does not concern the subscriber is not seen by it.
LEMMA NotSeen ==
    ASSUME NEW c, ~Concerns(c), c.was \in Values, c.became \in Values
    PROVE  Seen(c.was) = Seen(c.became)
  BY DEF Concerns, Seen, Values

-------------------------------------------------------------------------------
(* The mirror: commits.                                                    *)

LEMMA CommitTable ==
    ASSUME TypeOK, Extended, TableIsTheLog
    PROVE  TableIsTheLog'
  <1>1. Len(log) \in Nat /\ Len(log') \in Nat /\ Len(log) <= Len(log')
    BY LogTyped DEF Extended
  <1>2. SUFFICES ASSUME NEW r \in Records PROVE Was(log', r, Len(log'), records'[r])
    BY DEF TableIsTheLog
  <1>3. CASE \A k \in Len(log) + 1 .. Len(log') : log'[k].record # r
    <2>1. Was(log, r, Len(log), records[r])
      BY DEF TableIsTheLog
    <2>2. Was(log', r, Len(log), records[r])
      BY <1>1, <2>1, WasSame DEF Extended
    <2>3. Was(log', r, Len(log'), records[r])
      BY <1>1, <1>3, <2>2, WasStill
    <2>4. records'[r] = records[r]
      BY <1>3 DEF Extended
    <2>5. QED
      BY <2>3, <2>4
  <1>4. ASSUME NEW k \in Len(log) + 1 .. Len(log'), log'[k].record = r
        PROVE  Was(log', r, Len(log'), records'[r])
    <2>1. k \in 1 .. Len(log') /\ log'[k].became = records'[r]
      BY <1>1, <1>4 DEF Extended
    <2>2. \A j \in k + 1 .. Len(log') : log'[j].record # r
      <3>1. SUFFICES ASSUME NEW j \in k + 1 .. Len(log'), log'[j].record = r PROVE FALSE
        OBVIOUS
      <3>2. j \in Len(log) + 1 .. Len(log') /\ j # k
        BY <1>1
      <3>3. QED
        BY <1>4, <3>1, <3>2 DEF Extended
    <2>3. Was(log', r, Len(log'), log'[k].became)
      BY <1>1, <1>4, <2>1, <2>2, WasMade
    <2>4. QED
      BY <2>1, <2>3
  <1>5. QED
    BY <1>3, <1>4

LEMMA CommitSeen ==
    ASSUME TypeOK, Extended, TableIsTheLog, SeenAsBefore, narrowed' = narrowed
    PROVE  SeenAsBefore'
  <1>1. Len(log) \in Nat /\ Len(log') \in Nat /\ Len(log) <= Len(log')
    BY LogTyped DEF Extended
  <1>2. \A v : Seen(v)' = Seen(v)
    BY DEF Seen
  <1>3. SUFFICES ASSUME NEW r \in Records, NEW m \in 0 .. Len(log'), NEW n \in 0 .. Len(log'),
                        NEW v \in Values, m <= n, Unconcerned(r, m, n)', Was(log', r, m, v)
                 PROVE  \E w \in Values : Was(log', r, n, w) /\ Seen(w) = Seen(v)
    BY <1>2 DEF SeenAsBefore
  <1>4. m \in Nat /\ n \in Nat
    BY <1>1
  <1>5. \A k \in m + 1 .. n : log'[k].record = r => ~Concerns(log'[k])
    BY <1>3 DEF Unconcerned, Concerns
  \* Up to where the log was,
  <1>6. ASSUME NEW n0 \in 0 .. Len(log), m <= n0, n0 <= n
        PROVE  \E w \in Values : Was(log', r, n0, w) /\ Seen(w) = Seen(v)
    <2>1. m \in 0 .. Len(log) /\ n0 \in Nat
      BY <1>1, <1>4, <1>6
    <2>2. /\ \A i \in 1 .. m : log'[i] = log[i]
          /\ \A i \in 1 .. n0 : log'[i] = log[i]
      BY <1>1, <2>1 DEF Extended
    <2>3. Was(log, r, m, v)
      BY <1>3, <1>4, <2>2, WasSame
    <2>4. Unconcerned(r, m, n0)
      <3>1. \A k \in m + 1 .. n0 : k \in m + 1 .. n /\ k \in 1 .. n0
        BY <1>4, <1>6, <2>1
      <3>2. QED
        BY <1>5, <2>2, <3>1 DEF Unconcerned
    <2>5. PICK w \in Values : Was(log, r, n0, w) /\ Seen(w) = Seen(v)
      BY <1>6, <2>1, <2>3, <2>4 DEF SeenAsBefore
    <2>6. Was(log', r, n0, w)
      BY <2>1, <2>2, <2>5, WasSame
    <2>7. QED
      BY <2>5, <2>6
  \* and from there on at most one change of the record.
  <1>7. ASSUME NEW l \in Nat, Len(log) <= l, m <= l, l <= n,
               NEW u \in Values, Was(log', r, l, u), Seen(u) = Seen(v)
        PROVE  \E w \in Values : Was(log', r, n, w) /\ Seen(w) = Seen(v)
    <2>1. CASE \A k \in l + 1 .. n : log'[k].record # r
      BY <1>4, <1>7, <2>1, WasStill
    <2>2. ASSUME NEW k \in l + 1 .. n, log'[k].record = r
          PROVE  \E w \in Values : Was(log', r, n, w) /\ Seen(w) = Seen(v)
      <3>1. /\ k \in Len(log) + 1 .. Len(log') /\ k \in m + 1 .. n /\ k \in 1 .. n
            /\ n <= Len(log')
        BY <1>1, <1>3, <1>4, <1>7
      <3>2. \A j \in Len(log) + 1 .. Len(log') : j # k => log'[j].record # r
        BY <2>2, <3>1 DEF Extended
      <3>3. log'[k].was = records[r] /\ log'[k].became = records'[r]
        BY <2>2, <3>1 DEF Extended
      <3>4. \A j \in k + 1 .. n : log'[j].record # r
        <4>1. \A j \in k + 1 .. n : j \in Len(log) + 1 .. Len(log') /\ j # k
          BY <1>1, <1>4, <3>1
        <4>2. QED
          BY <3>2, <4>1
      <3>5. \A j \in Len(log) + 1 .. l : log'[j].record # r
        <4>1. \A j \in Len(log) + 1 .. l : j \in Len(log) + 1 .. Len(log') /\ j # k
          BY <1>1, <1>4, <1>7, <3>1
        <4>2. QED
          BY <3>2, <4>1
      <3>6. u = records[r]
        <4>1. Was(log', r, Len(log), u)
          BY <1>1, <1>7, <3>5, WasBefore
        <4>2. Was(log, r, Len(log), u)
          BY <1>1, <4>1, WasSame DEF Extended
        <4>3. Was(log, r, Len(log), records[r])
          BY DEF TableIsTheLog
        <4>4. QED
          BY <1>1, <4>2, <4>3, WasOne
      <3>7. Was(log', r, n, log'[k].became)
        BY <1>4, <2>2, <3>1, <3>4, WasMade
      <3>8. log'[k].became \in Values /\ log'[k].was \in Values /\ ~Concerns(log'[k])
        BY <1>5, <2>2, <3>1, <3>3 DEF Extended, TypeOK
      <3>9. Seen(log'[k].became) = Seen(v)
        BY <1>7, <3>3, <3>6, <3>8, NotSeen
      <3>10. QED
        BY <3>7, <3>8, <3>9
    <2>3. QED
      BY <2>1, <2>2
  <1>8. CASE n <= Len(log)
    <2>1. n \in 0 .. Len(log) /\ n <= n
      BY <1>1, <1>4, <1>8
    <2>2. QED
      BY <1>3, <1>6, <2>1
  <1>9. CASE m <= Len(log) /\ Len(log) <= n
    <2>1. Len(log) \in 0 .. Len(log) /\ Len(log) <= Len(log)
      BY <1>1
    <2>2. PICK u \in Values : Was(log', r, Len(log), u) /\ Seen(u) = Seen(v)
      BY <1>6, <1>9, <2>1
    <2>3. QED
      BY <1>1, <1>7, <1>9, <2>1, <2>2
  <1>10. CASE Len(log) <= m
    <2>1. m <= m
      BY <1>4
    <2>2. QED
      BY <1>3, <1>4, <1>7, <1>10, <2>1
  <1>11. QED
    BY <1>1, <1>4, <1>8, <1>9, <1>10

\* What is committed later is after every place that can be asked for.
LEMMA CommitIsLater ==
    ASSUME TypeOK, LogOrdered, Extended, NEW from \in Nat, from <= Sequence + 1
    PROVE  {n \in 1 .. Len(log') : log'[n].sequence < from}
               = {n \in 1 .. Len(log) : log[n].sequence < from}
  <1>1. Len(log) \in Nat /\ Sequence \in Nat
    BY LogTyped, SequenceTyped
  <1>2. \A n \in 1 .. Len(log) : n \in 1 .. Len(log') /\ log'[n] = log[n]
    BY <1>1 DEF Extended
  <1>3. \A n \in 1 .. Len(log') : log'[n].sequence < from => n \in 1 .. Len(log)
    <2>1. \A n \in 1 .. Len(log') : n \notin 1 .. Len(log) => log'[n].sequence = Sequence + 1
      BY <1>1 DEF Extended
    <2>2. QED
      BY <1>1, <2>1
  <1>4. QED
    BY <1>2, <1>3

LEMMA CommitPlaced ==
    ASSUME Sound, Extended, Placed,
           UNCHANGED <<open, read, skipped, inbound, subscriber, place, narrowed>>
    PROVE  Placed'
  <1>1. PICK p, e \in 0 .. Len(log) : TakenUpTo(p) /\ Between(p, e)
    BY DEF Placed
  <1>2. Len(log) \in Nat /\ Len(log') \in Nat /\ Len(log) <= Len(log')
    BY LogTyped DEF Extended, Sound
  <1>3. p \in 0 .. Len(log') /\ e \in 0 .. Len(log') /\ p \in Nat /\ e \in Nat
    BY <1>2
  <1>4. AtLeast(p)'
    <2>1. SUFFICES ASSUME NEW r \in Records
                   PROVE  \E m \in p .. Len(log'), v \in Values :
                              Was(log', r, m, v) /\ mirror[r] = Seen(v)
      BY DEF AtLeast, subscriber, Seen
    <2>2. PICK m \in p .. Len(log), v \in Values : Was(log, r, m, v) /\ mirror[r] = Seen(v)
      BY <1>1 DEF TakenUpTo, AtLeast
    <2>3. m \in Nat /\ m \in p .. Len(log') /\ \A i \in 1 .. m : i \in 1 .. Len(log)
      BY <1>2, <1>3
    <2>4. Was(log', r, m, v)
      BY <2>2, <2>3, WasSame DEF Extended
    <2>5. QED
      BY <2>2, <2>3, <2>4
  <1>5. TypeOK /\ LogOrdered
    BY DEF Sound
  <1>6. Before(kept)' = Before(kept)
    <2>1. kept.from \in Nat /\ kept.from <= Sequence + 1
      BY ConstantsAssumption DEF Sound, TypeOK
    <2>2. {n \in 1 .. Len(log') : log'[n].sequence < kept.from}
              = {n \in 1 .. Len(log) : log[n].sequence < kept.from}
      BY <1>5, <2>1, CommitIsLater
    <2>3. QED
      BY <2>2 DEF Before, subscriber
  <1>7. pc = "keeping" => Before(PlaceAfter(arrival))' = Before(PlaceAfter(arrival))
    <2> SUFFICES ASSUME pc = "keeping"
                 PROVE  Before(PlaceAfter(arrival))' = Before(PlaceAfter(arrival))
      OBVIOUS
    <2>1. PlaceAfter(arrival)' = PlaceAfter(arrival)
      BY DEF PlaceAfter, ResumingAfter, ResumingAt, subscriber
    <2>2. PlaceAfter(arrival).from \in Nat /\ PlaceAfter(arrival).from <= Sequence + 1
      <3>1. arrival \in Arrivals /\ OfTheLog(arrival)
        BY DEF Sound, TypeOK
      <3>2. QED
        BY <1>5, <3>1, PlaceAfterTyped, ConstantsAssumption
    <2>3. {n \in 1 .. Len(log') : log'[n].sequence < PlaceAfter(arrival).from}
              = {n \in 1 .. Len(log) : log[n].sequence < PlaceAfter(arrival).from}
      BY <1>5, <2>2, CommitIsLater
    <2>4. QED
      BY <2>1, <2>3 DEF Before
  <1>8. TakenUpTo(p)'
    BY <1>1, <1>4, <1>6, <1>7 DEF TakenUpTo, subscriber
  <1>9. Between(p, e)'
    <2>1. \A n \in p + 1 .. e : log'[n] = log[n]
      BY <1>2, <1>3 DEF Extended
    <2>2. QED
      BY <1>1, <2>1 DEF Between, Within, Ascending, Whole, Concerns
  <1>10. QED
    BY <1>3, <1>8, <1>9 DEF Placed

-------------------------------------------------------------------------------
(* The mirror: the feed and the subscriber.                                *)

LEMMA StaysMirrored ==
    ASSUME LogStays
    PROVE  /\ TableIsTheLog' <=> TableIsTheLog
           /\ SeenAsBefore' <=> SeenAsBefore
           /\ \A c : Concerns(c)' <=> Concerns(c)
           /\ kept' = kept => Before(kept)' = Before(kept)
           /\ mirror' = mirror => \A p : AtLeast(p)' <=> AtLeast(p)
           /\ arrival' = arrival => Before(PlaceAfter(arrival))' = Before(PlaceAfter(arrival))
  <1>1. \A v : Seen(v)' = Seen(v)
    BY DEF Seen, LogStays
  <1>2. \A c : Concerns(c)' <=> Concerns(c)
    BY DEF Concerns, LogStays
  <1>3. TableIsTheLog' <=> TableIsTheLog
    BY DEF TableIsTheLog, LogStays
  <1>4. \A r, m, n : Unconcerned(r, m, n)' <=> Unconcerned(r, m, n)
    BY <1>2 DEF Unconcerned, LogStays
  <1>5. SeenAsBefore' <=> SeenAsBefore
    BY <1>1, <1>4 DEF SeenAsBefore, LogStays
  <1>6. mirror' = mirror => \A p : AtLeast(p)' <=> AtLeast(p)
    BY <1>1 DEF AtLeast, LogStays
  <1>7. kept' = kept => Before(kept)' = Before(kept)
    BY DEF Before, LogStays
  <1>8. arrival' = arrival => Before(PlaceAfter(arrival))' = Before(PlaceAfter(arrival))
    <2> SUFFICES ASSUME arrival' = arrival
                 PROVE  Before(PlaceAfter(arrival))' = Before(PlaceAfter(arrival))
      OBVIOUS
    <2>1. PlaceAfter(arrival)' = PlaceAfter(arrival)
      BY DEF PlaceAfter, ResumingAfter, ResumingAt, LogStays
    <2>2. QED
      BY <2>1 DEF Before, LogStays
  <1>9. QED
    BY <1>2, <1>3, <1>5, <1>6, <1>7, <1>8

\* Where the subscriber is is of its own doing.
LEMMA StaysTaken ==
    ASSUME LogStays, UNCHANGED subscriber, NEW p, TakenUpTo(p)
    PROVE  TakenUpTo(p)'
  BY StaysMirrored DEF TakenUpTo, subscriber

LEMMA SendPlaced ==
    ASSUME Sound, Placed, Send
    PROVE  Placed'
  <1>1. /\ LogStays /\ UNCHANGED <<open, subscriber, breaks>>
        /\ open /\ read' = read + 1 /\ read' \in 1 .. Len(log)
    BY SendDoes
  <1>2. PICK p, e \in 0 .. Len(log) : TakenUpTo(p) /\ Between(p, e)
    BY DEF Placed
  <1>3. /\ Len(log) \in Nat /\ Len(inbound) \in Nat /\ e = read /\ p <= e
        /\ p \in Nat /\ e \in Nat /\ log' = log /\ read' = e + 1
    BY <1>1, <1>2, LogTyped, InboundTyped DEF Between, Sound, LogStays
  <1>4. TakenUpTo(p)'
    BY <1>1, <1>2, StaysTaken
  <1>5. Within(p, e) /\ Ascending /\ Whole(p, e)
    BY <1>2 DEF Between
  <1>6. \A c : Concerns(c)' <=> Concerns(c)
    BY <1>1, StaysMirrored
  <1>7. \A n \in p + 1 .. e + 1 : n \in p + 1 .. e \/ n = e + 1
    BY <1>1, <1>3
  <1>8. Within(p, e + 1)' /\ Ascending' /\ Whole(p, e + 1)'
    <2>1. CASE ~Concerns(log[read']) /\ inbound' = inbound
      <3>1. Within(p, e + 1)'
        BY <1>1, <1>3, <1>5, <2>1 DEF Within
      <3>2. Ascending'
        BY <1>5, <2>1 DEF Ascending
      <3>3. Whole(p, e + 1)'
        BY <1>3, <1>5, <1>6, <1>7, <2>1 DEF Whole
      <3>4. QED
        BY <3>1, <3>2, <3>3
    <2>2. ASSUME NEW a \in Arrivals, a.cursor = read', a.kind = "change",
                 inbound' = Append(inbound, a)
          PROVE  Within(p, e + 1)' /\ Ascending' /\ Whole(p, e + 1)'
      <3>1. /\ Len(inbound') = Len(inbound) + 1
            /\ inbound'[Len(inbound) + 1] = a
            /\ \A i \in 1 .. Len(inbound) : inbound'[i] = inbound[i]
        <4>1. TypeOK
          BY DEF Sound
        <4>2. QED
          BY <2>2, <4>1, Longer
      <3>2. \A i \in 1 .. Len(inbound') : i \in 1 .. Len(inbound) \/ i = Len(inbound')
        BY <1>3, <3>1
      <3>3. Len(inbound') \in 1 .. Len(inbound') /\ \A i \in 1 .. Len(inbound) :
                i \in 1 .. Len(inbound')
        BY <1>3, <3>1
      <3>4. Within(p, e + 1)'
        <4>1. \A i \in 1 .. Len(inbound) :
                 /\ inbound'[i].cursor \in p .. e + 1
                 /\ inbound'[i].kind = "change" => inbound'[i].cursor > p
          BY <1>1, <1>3, <1>5, <3>1 DEF Within
        <4>2. /\ inbound'[Len(inbound')].cursor \in p .. e + 1
              /\ inbound'[Len(inbound')].cursor > p
          BY <1>1, <1>3, <2>2, <3>1
        <4>3. QED
          BY <3>2, <4>1, <4>2 DEF Within
      <3>5. Ascending'
        <4>1. SUFFICES ASSUME NEW i \in 1 .. Len(inbound'), NEW j \in 1 .. Len(inbound'), i < j
                       PROVE  /\ inbound'[i].cursor <= inbound'[j].cursor
                              /\ inbound'[j].kind = "change" =>
                                    inbound'[i].cursor < inbound'[j].cursor
          BY DEF Ascending
        <4>2. i \in 1 .. Len(inbound) /\ inbound'[i] = inbound[i]
          BY <1>3, <3>1, <4>1
        <4>3. CASE j \in 1 .. Len(inbound)
          BY <1>5, <3>1, <4>1, <4>2, <4>3 DEF Ascending
        <4>4. CASE j = Len(inbound')
          <5>1. inbound[i].cursor \in p .. e
            BY <1>5, <4>2 DEF Within
          <5>2. inbound'[j].cursor = e + 1
            BY <1>1, <1>3, <2>2, <3>1, <4>4
          <5>3. QED
            BY <1>3, <4>2, <5>1, <5>2
        <4>5. QED
          BY <3>2, <4>3, <4>4
      <3>6. Whole(p, e + 1)'
        <4>1. SUFFICES ASSUME NEW n \in p + 1 .. e + 1, Concerns(log[n])
                       PROVE  \E i \in 1 .. Len(inbound') :
                                  inbound'[i].kind = "change" /\ inbound'[i].cursor = n
          BY <1>3, <1>6 DEF Whole
        <4>2. CASE n \in p + 1 .. e
          <5>1. PICK i \in 1 .. Len(inbound) : inbound[i].kind = "change" /\ inbound[i].cursor = n
            BY <1>5, <4>1, <4>2 DEF Whole
          <5>2. QED
            BY <3>1, <3>3, <5>1
        <4>3. CASE n = e + 1
          <5>1. inbound'[Len(inbound')].kind = "change" /\ inbound'[Len(inbound')].cursor = n
            BY <1>3, <2>2, <3>1, <4>3
          <5>2. QED
            BY <3>3, <5>1
        <4>4. QED
          BY <1>7, <4>2, <4>3
      <3>7. QED
        BY <3>4, <3>5, <3>6
    <2>3. QED
      BY <2>1, <2>2, SendDoes
  <1>9. Between(p, e + 1)'
    BY <1>1, <1>3, <1>8 DEF Between
  <1>10. p \in 0 .. Len(log') /\ e + 1 \in 0 .. Len(log')
    BY <1>1, <1>3
  <1>11. QED
    BY <1>4, <1>9, <1>10 DEF Placed

LEMMA TellPlaced ==
    ASSUME Sound, Placed, Tell
    PROVE  Placed'
  <1>1. /\ LogStays /\ UNCHANGED <<open, read, subscriber, breaks>> /\ open
    BY TellDoes
  <1>2. PICK p, e \in 0 .. Len(log) : TakenUpTo(p) /\ Between(p, e)
    BY DEF Placed
  <1>3. /\ Len(log) \in Nat /\ Len(inbound) \in Nat /\ e = read /\ p <= e
        /\ p \in Nat /\ e \in Nat /\ log' = log
    BY <1>1, <1>2, LogTyped, InboundTyped DEF Between, Sound, LogStays
  <1>4. TakenUpTo(p)'
    BY <1>1, <1>2, StaysTaken
  <1>5. Within(p, e) /\ Ascending /\ Whole(p, e)
    BY <1>2 DEF Between
  <1>6. \A c : Concerns(c)' <=> Concerns(c)
    BY <1>1, StaysMirrored
  <1>7. PICK a \in Arrivals : /\ a.cursor = read /\ a.kind = "progress"
                              /\ inbound' = Append(inbound, a)
    BY TellDoes
  <1>8. /\ Len(inbound') = Len(inbound) + 1
        /\ inbound'[Len(inbound) + 1] = a
        /\ \A i \in 1 .. Len(inbound) : inbound'[i] = inbound[i]
    <2>1. TypeOK
      BY DEF Sound
    <2>2. QED
      BY <1>7, <2>1, Longer
  <1>9. /\ \A i \in 1 .. Len(inbound') : i \in 1 .. Len(inbound) \/ i = Len(inbound')
        /\ \A i \in 1 .. Len(inbound) : i \in 1 .. Len(inbound')
    BY <1>3, <1>8
  <1>10. Within(p, e)'
    <2>1. /\ inbound'[Len(inbound')].cursor \in p .. e
          /\ inbound'[Len(inbound')].kind # "change"
      BY <1>3, <1>7, <1>8
    <2>2. QED
      BY <1>5, <1>8, <1>9, <2>1 DEF Within
  <1>11. Ascending'
    <2>1. SUFFICES ASSUME NEW i \in 1 .. Len(inbound'), NEW j \in 1 .. Len(inbound'), i < j
                   PROVE  /\ inbound'[i].cursor <= inbound'[j].cursor
                          /\ inbound'[j].kind = "change" =>
                                inbound'[i].cursor < inbound'[j].cursor
      BY DEF Ascending
    <2>2. i \in 1 .. Len(inbound) /\ inbound'[i] = inbound[i]
      BY <1>3, <1>8, <2>1
    <2>3. CASE j \in 1 .. Len(inbound)
      BY <1>5, <1>8, <2>1, <2>2, <2>3 DEF Ascending
    <2>4. CASE j = Len(inbound')
      <3>1. inbound[i].cursor \in p .. e
        BY <1>5, <2>2 DEF Within
      <3>2. inbound'[j].cursor = e /\ inbound'[j].kind = "progress"
        BY <1>3, <1>7, <1>8, <2>4
      <3>3. QED
        BY <1>3, <2>2, <3>1, <3>2
    <2>5. QED
      BY <1>9, <2>3, <2>4
  <1>12. Whole(p, e)'
    BY <1>3, <1>5, <1>6, <1>8, <1>9 DEF Whole
  <1>13. Between(p, e)'
    BY <1>1, <1>3, <1>10, <1>11, <1>12 DEF Between
  <1>14. QED
    BY <1>2, <1>3, <1>4, <1>13 DEF Placed

LEMMA HangUpPlaced ==
    ASSUME Sound, Placed, HangUp
    PROVE  Placed'
  <1>1. LogStays /\ UNCHANGED subscriber /\ open' = FALSE
    BY DEF HangUp, LogStays
  <1>2. PICK p, e \in 0 .. Len(log) : TakenUpTo(p) /\ Between(p, e)
    BY DEF Placed
  <1>3. /\ Len(log) \in Nat /\ Len(inbound) \in Nat /\ p <= e
        /\ p \in Nat /\ e \in Nat /\ log' = log
    BY <1>1, <1>2, LogTyped, InboundTyped DEF Between, Sound, LogStays
  <1>4. TakenUpTo(p)'
    BY <1>1, <1>2, StaysTaken
  <1>5. Within(p, e) /\ Ascending /\ Whole(p, e)
    BY <1>2 DEF Between
  <1>6. \A c : Concerns(c)' <=> Concerns(c)
    BY <1>1, StaysMirrored
  <1>7. PICK n \in 0 .. Len(inbound) : inbound' = SubSeq(inbound, 1, n)
    BY DEF HangUp
  <1>8. Len(inbound') = n /\ \A i \in 1 .. n : inbound'[i] = inbound[i]
    <2>1. TypeOK
      BY DEF Sound
    <2>2. QED
      BY <1>7, <2>1, CutOff
  <1>9. \A i \in 1 .. n : i \in 1 .. Len(inbound)
    BY <1>3
  <1>10. Ascending'
    BY <1>5, <1>8, <1>9 DEF Ascending
  \* Nothing was kept of what was on its way,
  <1>11. CASE n = 0
    <2>1. Within(p, p)' /\ Whole(p, p)'
      <3>1. 1 .. Len(inbound') = {} /\ p + 1 .. p = {}
        BY <1>3, <1>8, <1>11
      <3>2. QED
        BY <3>1 DEF Within, Whole
    <2>2. Between(p, p)'
      BY <1>1, <1>3, <1>10, <2>1 DEF Between
    <2>3. QED
      BY <1>2, <1>3, <1>4, <2>2 DEF Placed
  \* or all up to some frame.
  <1>12. CASE n # 0
    <2>1. n \in 1 .. n /\ n \in 1 .. Len(inbound) /\ inbound[n].cursor \in p .. e
      BY <1>3, <1>5, <1>12 DEF Within
    <2> PICK c \in p .. e : c = inbound[n].cursor
      BY <2>1
    <2>2. c \in 0 .. Len(log) /\ p <= c /\ c <= e /\ c \in Nat
      BY <1>2, <1>3, <2>1
    <2>3. \A i \in 1 .. Len(inbound) :
             /\ inbound[i].cursor \in Nat /\ p <= inbound[i].cursor
             /\ i <= n => inbound[i].cursor <= c
             /\ i > n /\ inbound[i].kind = "change" => c < inbound[i].cursor
      <3>1. SUFFICES ASSUME NEW i \in 1 .. Len(inbound)
                     PROVE  /\ inbound[i].cursor \in Nat /\ p <= inbound[i].cursor
                            /\ i <= n => inbound[i].cursor <= c
                            /\ i > n /\ inbound[i].kind = "change" => c < inbound[i].cursor
        OBVIOUS
      <3>2. inbound[i].cursor \in Nat /\ p <= inbound[i].cursor
        BY <1>3, <1>5 DEF Within
      <3>3. CASE i < n
        BY <1>3, <1>5, <2>1, <3>2, <3>3 DEF Ascending
      <3>4. CASE i = n
        BY <2>2, <3>2, <3>4
      <3>5. CASE i > n
        BY <1>3, <1>5, <2>1, <3>2, <3>5 DEF Ascending
      <3>6. QED
        BY <1>3, <3>3, <3>4, <3>5
    <2>4. Within(p, c)'
      <3>1. SUFFICES ASSUME NEW i \in 1 .. Len(inbound')
                     PROVE  /\ inbound'[i].cursor \in p .. c
                            /\ inbound'[i].kind = "change" => inbound'[i].cursor > p
        BY DEF Within
      <3>2. i \in 1 .. Len(inbound) /\ i <= n /\ inbound'[i] = inbound[i]
        BY <1>3, <1>8
      <3>3. inbound[i].cursor \in Nat /\ p <= inbound[i].cursor /\ inbound[i].cursor <= c
        BY <2>3, <3>2
      <3>4. inbound[i].kind = "change" => inbound[i].cursor > p
        BY <1>5, <3>2 DEF Within
      <3>5. QED
        BY <1>3, <2>2, <3>2, <3>3, <3>4
    <2>5. Whole(p, c)'
      <3>1. SUFFICES ASSUME NEW m \in p + 1 .. c, Concerns(log[m])
                     PROVE  \E i \in 1 .. n : inbound[i].kind = "change" /\ inbound[i].cursor = m
        BY <1>3, <1>6, <1>8 DEF Whole
      <3>2. m \in p + 1 .. e
        BY <1>3, <2>2
      <3>3. PICK i \in 1 .. Len(inbound) : inbound[i].kind = "change" /\ inbound[i].cursor = m
        BY <1>5, <3>1, <3>2 DEF Whole
      <3>4. i <= n
        BY <1>3, <2>2, <2>3, <3>3
      <3>5. QED
        BY <3>3, <3>4
    <2>6. Between(p, c)'
      BY <1>1, <1>10, <2>2, <2>4, <2>5 DEF Between
    <2>7. QED
      BY <1>2, <1>3, <1>4, <2>2, <2>6 DEF Placed
  <1>13. QED
    BY <1>11, <1>12

\* A feed begins no later than where the subscriber was.
LEMMA FollowPlaced ==
    ASSUME Sound, Placed, Follow
    PROVE  Placed'
  <1>1. /\ LogStays /\ UNCHANGED <<arrival, mirror, kept>>
        /\ pc' = "reading" /\ open' = TRUE /\ read' = Before(kept) /\ inbound' = <<>>
    BY DEF Follow, LogStays
  <1>2. PICK p, e \in 0 .. Len(log) : TakenUpTo(p) /\ Between(p, e)
    BY DEF Placed
  <1>3. PICK b \in 0 .. Len(log) : b = Before(kept)
    BY BeginsInTheLog DEF Sound
  <1>4. Len(log) \in Nat /\ b \in Nat /\ p \in Nat /\ b <= p /\ log' = log
    BY <1>1, <1>2, <1>3, LogTyped DEF TakenUpTo, Sound, LogStays
  <1>5. AtLeast(b)
    BY <1>2, <1>4 DEF TakenUpTo, AtLeast
  <1>6. TakenUpTo(b)'
    <2>1. AtLeast(b)' /\ Before(kept)' = Before(kept)
      BY <1>1, <1>5, StaysMirrored
    <2>2. Before(kept)' <= b
      BY <1>3, <1>4, <2>1
    <2>3. QED
      BY <1>1, <2>1, <2>2 DEF TakenUpTo
  <1>7. Between(b, b)'
    <2>1. 1 .. Len(inbound') = {} /\ b + 1 .. b = {}
      BY <1>1, <1>4
    <2>2. b <= b /\ read' = b
      BY <1>1, <1>3, <1>4
    <2>3. QED
      BY <2>1, <2>2 DEF Between, Within, Ascending, Whole
  <1>8. QED
    BY <1>3, <1>4, <1>6, <1>7 DEF Placed

LEMMA ArrivePlaced ==
    ASSUME Sound, SeenAsBefore, Placed, place # "commit_handled", Arrive
    PROVE  Placed'
  <1>1. /\ LogStays /\ UNCHANGED <<open, read, kept>>
        /\ pc' = "keeping" /\ arrival' = inbound[1]
        /\ Len(inbound) \in Nat \ {0} /\ inbound[1] \in Arrivals /\ OfTheLog(inbound[1])
        /\ Len(inbound') = Len(inbound) - 1
        /\ \A i \in 1 .. Len(inbound') : inbound'[i] = inbound[i + 1]
        /\ inbound[1].kind \in {"change", "progress"}
    BY ArriveDoes
  <1>2. PICK p, e \in 0 .. Len(log) : TakenUpTo(p) /\ Between(p, e)
    BY DEF Placed
  <1>3. Within(p, e) /\ Ascending /\ Whole(p, e) /\ p <= e /\ (open => e = read)
    BY <1>2 DEF Between
  <1>4. 1 \in 1 .. Len(inbound) /\ inbound[1].cursor \in p .. e
    BY <1>1, <1>3 DEF Within
  <1>5. PICK c \in p .. e : c = inbound[1].cursor
    BY <1>4
  <1>6. /\ Len(log) \in Nat /\ p \in Nat /\ e \in Nat /\ c \in Nat /\ p <= c /\ c <= e
        /\ c \in 1 .. Len(log) /\ c \in 0 .. Len(log) /\ log' = log
    BY <1>1, <1>2, <1>5, LogTyped DEF Sound, OfTheLog, LogStays
  <1>7. \A q : Concerns(q)' <=> Concerns(q)
    BY <1>1, StaysMirrored
  <1>8. \A i \in 1 .. Len(inbound') : i + 1 \in 1 .. Len(inbound) /\ 1 < i + 1
    BY <1>1
  \* Between p and the arrival nothing concerned the subscriber.
  <1>9. ASSUME NEW k \in p + 1 .. c, Concerns(log[k])
        PROVE  k = c /\ inbound[1].kind = "change"
    <2>1. k \in p + 1 .. e
      BY <1>6
    <2>2. PICK i \in 1 .. Len(inbound) : inbound[i].kind = "change" /\ inbound[i].cursor = k
      BY <1>3, <1>9, <2>1 DEF Whole
    <2>3. CASE i = 1
      BY <1>5, <2>2, <2>3
    <2>4. CASE 1 < i
      <3>1. inbound[1].cursor < inbound[i].cursor
        BY <1>3, <1>4, <2>2, <2>4 DEF Ascending
      <3>2. QED
        BY <1>5, <1>6, <2>2, <3>1
    <2>5. QED
      BY <1>1, <2>3, <2>4
  <1>10. AtLeast(c)'
    <2>1. SUFFICES ASSUME NEW r \in Records
                   PROVE  \E m \in c .. Len(log), v \in Values :
                              Was(log, r, m, v) /\ mirror'[r] = Seen(v)
      BY <1>1 DEF AtLeast, LogStays, Seen
    <2>2. CASE inbound[1].kind = "change" /\ r = inbound[1].record
      <3>1. log[c].record = r /\ inbound[1].became = Seen(log[c].became)
        BY <1>1, <1>5, <2>2 DEF OfTheLog
      <3>2. mirror'[r] = Seen(log[c].became)
        <4>1. mirror \in [Records -> Values]
          BY DEF Sound, TypeOK
        <4>2. mirror' = [mirror EXCEPT ![inbound[1].record] = inbound[1].became]
          BY <2>2, ArriveDoes
        <4>3. QED
          BY <2>2, <3>1, <4>1, <4>2
      <3>3. c \in 1 .. c /\ \A j \in c + 1 .. c : log[j].record # r
        BY <1>6
      <3>4. Was(log, r, c, log[c].became)
        BY <1>6, <3>1, <3>3, WasMade
      <3>5. log[c].became \in Values
        BY <1>6, LogTyped, ChangeTyped DEF Sound
      <3>6. c \in c .. Len(log)
        BY <1>6
      <3>7. QED
        BY <3>2, <3>4, <3>5, <3>6
    <2>3. CASE ~(inbound[1].kind = "change" /\ r = inbound[1].record)
      <3>1. mirror'[r] = mirror[r]
        <4>1. mirror \in [Records -> Values]
          BY DEF Sound, TypeOK
        <4>2. QED
          BY <1>1, <2>3, <4>1, ArriveDoes
      <3>2. PICK m \in p .. Len(log), v \in Values : Was(log, r, m, v) /\ mirror[r] = Seen(v)
        BY <1>2 DEF TakenUpTo, AtLeast
      <3>3. CASE c <= m
        BY <1>6, <3>1, <3>2, <3>3
      <3>4. CASE m < c
        <4>1. Unconcerned(r, m, c)
          <5>1. SUFFICES ASSUME NEW k \in m + 1 .. c, log[k].record = r, Concerns(log[k])
                         PROVE  FALSE
            BY DEF Unconcerned
          <5>2. k \in p + 1 .. c
            BY <1>6, <3>2
          <5>3. k = c /\ inbound[1].kind = "change"
            BY <1>9, <5>1, <5>2
          <5>4. inbound[1].record = r
            BY <1>1, <1>5, <5>1, <5>3 DEF OfTheLog
          <5>5. QED
            BY <2>3, <5>3, <5>4
        <4>2. m \in 0 .. Len(log) /\ m <= c
          BY <1>6, <3>2, <3>4
        <4>3. PICK w \in Values : Was(log, r, c, w) /\ Seen(w) = Seen(v)
          BY <1>6, <3>2, <4>1, <4>2 DEF SeenAsBefore
        <4>4. c \in c .. Len(log)
          BY <1>6
        <4>5. QED
          BY <3>1, <3>2, <4>3, <4>4
      <3>5. QED
        BY <1>6, <3>2, <3>3, <3>4
    <2>4. QED
      BY <2>2, <2>3
  <1>11. Before(kept)' <= c
    <2>1. Before(kept)' = Before(kept) /\ Before(kept) <= p
      BY <1>1, <1>2, StaysMirrored DEF TakenUpTo
    <2>2. Before(kept) \in Nat
      BY <1>6, BeginsInTheLog DEF Sound
    <2>3. QED
      BY <1>6, <2>1, <2>2
  <1>12. Before(PlaceAfter(arrival))' <= c
    <2>1. Before(PlaceAfter(inbound[1])) <= c
      BY <1>1, <1>5, PlaceAfterTyped DEF Sound
    <2>2. PlaceAfter(arrival)' = PlaceAfter(inbound[1])
      BY <1>1 DEF PlaceAfter, ResumingAfter, ResumingAt, LogStays
    <2>3. Before(PlaceAfter(arrival))' = Before(PlaceAfter(inbound[1]))
      BY <1>1, <2>2 DEF Before, LogStays
    <2>4. QED
      BY <2>1, <2>3
  <1>13. TakenUpTo(c)'
    BY <1>10, <1>11, <1>12 DEF TakenUpTo
  <1>14. Within(c, e)'
    <2>1. SUFFICES ASSUME NEW i \in 1 .. Len(inbound')
                   PROVE  /\ inbound'[i].cursor \in c .. e
                          /\ inbound'[i].kind = "change" => inbound'[i].cursor > c
      BY DEF Within
    <2>2. /\ i + 1 \in 1 .. Len(inbound) /\ 1 < i + 1 /\ inbound'[i] = inbound[i + 1]
      BY <1>1, <1>8
    <2>3. /\ inbound[1].cursor <= inbound[i + 1].cursor
          /\ inbound[i + 1].kind = "change" => inbound[1].cursor < inbound[i + 1].cursor
      BY <1>3, <1>4, <2>2 DEF Ascending
    <2>4. inbound[i + 1].cursor \in p .. e
      BY <1>3, <2>2 DEF Within
    <2>5. QED
      BY <1>5, <1>6, <2>2, <2>3, <2>4
  <1>15. Ascending'
    <2>1. SUFFICES ASSUME NEW i \in 1 .. Len(inbound'), NEW j \in 1 .. Len(inbound'), i < j
                   PROVE  /\ inbound'[i].cursor <= inbound'[j].cursor
                          /\ inbound'[j].kind = "change" =>
                                inbound'[i].cursor < inbound'[j].cursor
      BY DEF Ascending
    <2>2. /\ i + 1 \in 1 .. Len(inbound) /\ j + 1 \in 1 .. Len(inbound) /\ i + 1 < j + 1
          /\ inbound'[i] = inbound[i + 1] /\ inbound'[j] = inbound[j + 1]
      BY <1>1, <1>8, <2>1
    <2>3. QED
      BY <1>3, <2>2 DEF Ascending
  <1>16. Whole(c, e)'
    <2>1. SUFFICES ASSUME NEW n \in c + 1 .. e, Concerns(log[n])
                   PROVE  \E i \in 1 .. Len(inbound') :
                              inbound'[i].kind = "change" /\ inbound'[i].cursor = n
      BY <1>6, <1>7 DEF Whole
    <2>2. n \in p + 1 .. e
      BY <1>6
    <2>3. PICK i \in 1 .. Len(inbound) : inbound[i].kind = "change" /\ inbound[i].cursor = n
      BY <1>3, <2>1, <2>2 DEF Whole
    <2>4. i # 1
      BY <1>5, <1>6, <2>3
    <2>5. i - 1 \in 1 .. Len(inbound') /\ inbound'[i - 1] = inbound[i]
      <3>1. i - 1 \in 1 .. Len(inbound') /\ (i - 1) + 1 = i
        BY <1>1, <2>4
      <3>2. QED
        BY <1>1, <3>1
    <2>6. QED
      BY <2>3, <2>5
  <1>17. Between(c, e)'
    BY <1>1, <1>3, <1>6, <1>14, <1>15, <1>16 DEF Between
  <1>18. QED
    BY <1>2, <1>6, <1>13, <1>17 DEF Placed

LEMMA KeepPlaced ==
    ASSUME Sound, Placed, Keep
    PROVE  Placed'
  <1>1. /\ LogStays /\ UNCHANGED <<open, read, inbound, mirror>>
        /\ pc = "keeping" /\ pc' = "reading" /\ kept' = PlaceAfter(arrival)
    BY KeepDoes
  <1>2. PICK p, e \in 0 .. Len(log) : TakenUpTo(p) /\ Between(p, e)
    BY DEF Placed
  <1>3. Before(kept)' = Before(PlaceAfter(arrival))
    BY <1>1 DEF Before, LogStays
  <1>4. TakenUpTo(p)'
    BY <1>1, <1>2, <1>3, StaysMirrored DEF TakenUpTo
  <1>5. Between(p, e)'
    BY <1>1, <1>2, StaysMirrored DEF Between, Within, Ascending, Whole, LogStays
  <1>6. QED
    BY <1>1, <1>2, <1>4, <1>5 DEF Placed, LogStays

\* One that is away keeps its mirror and its place.
LEMMA AwayPlaced ==
    ASSUME Sound, Placed, LogStays, UNCHANGED <<mirror, kept>>,
           pc' = "away", open' = FALSE, inbound' = <<>>
    PROVE  Placed'
  <1>1. PICK p, e \in 0 .. Len(log) : TakenUpTo(p) /\ Between(p, e)
    BY DEF Placed
  <1>2. Len(log) \in Nat /\ p \in Nat
    BY <1>1, LogTyped DEF Sound
  <1>3. TakenUpTo(p)'
    BY <1>1, StaysMirrored DEF TakenUpTo
  <1>4. Between(p, p)'
    <2>1. 1 .. Len(inbound') = {} /\ p + 1 .. p = {} /\ p <= p
      BY <1>2
    <2>2. QED
      BY <2>1 DEF Between, Within, Ascending, Whole
  <1>5. QED
    BY <1>1, <1>3, <1>4 DEF Placed, LogStays

-------------------------------------------------------------------------------
(* The mirror is the table.                                                *)

LEMMA InitMirrored == Init => Mirrored
  <1> SUFFICES ASSUME Init PROVE Mirrored
    OBVIOUS
  <1>1. Len(log) = 0 /\ Len(inbound) = 0
    BY EmptySeq DEF Init
  <1>2. \A r \in Records : Was(log, r, 0, "gone")
    BY DEF Was
  <1>3. TableIsTheLog
    BY <1>1, <1>2 DEF TableIsTheLog, Init
  <1>4. SeenAsBefore
    BY <1>1 DEF SeenAsBefore
  <1>5. AtLeast(0)
    <2>1. 0 \in 0 .. Len(log) /\ "gone" \in Values /\ Seen("gone") = "gone"
      BY <1>1 DEF Values, Seen
    <2>2. \A r \in Records : mirror[r] = "gone"
      BY DEF Init
    <2>3. QED
      BY <1>2, <2>1, <2>2 DEF AtLeast
  <1>6. Before(kept) <= 0
    <2>1. Sound
      BY InitSound
    <2>2. Before(kept) \in 0 .. Len(log)
      BY <2>1, BeginsInTheLog DEF Sound
    <2>3. QED
      BY <1>1, <2>2
  <1>7. TakenUpTo(0)
    BY <1>5, <1>6 DEF TakenUpTo, Init
  <1>8. Between(0, 0)
    BY <1>1 DEF Between, Within, Ascending, Whole, Init
  <1>9. Placed
    BY <1>1, <1>7, <1>8 DEF Placed
  <1>10. QED
    BY <1>3, <1>4, <1>9 DEF Mirrored

LEMMA NextMirrored ==
    ASSUME "commit_handled" \notin Places
    PROVE  Sound /\ Mirrored /\ [Next]_vars => Mirrored'
  <1> SUFFICES ASSUME Sound, Mirrored, [Next]_vars PROVE Mirrored'
    OBVIOUS
  <1>1. place # "commit_handled"
    BY DEF Sound, TypeOK
  <1>2. TableIsTheLog /\ SeenAsBefore /\ Placed
    BY DEF Mirrored
  <1>3. LogStays /\ Placed' => Mirrored'
    BY <1>2, StaysMirrored DEF Mirrored
  <1>4. ASSUME NEW order \in Orders, NEW became \in [Records -> Values], Commit(order, became)
        PROVE  Mirrored'
    <2>1. TypeOK /\ LogOrdered
      BY DEF Sound
    <2>2. Extended
      BY <1>4, <2>1, CommitExtends
    <2>3. UNCHANGED <<open, read, skipped, inbound, subscriber, place, narrowed>>
      BY <1>4 DEF Commit
    <2>4. TableIsTheLog' /\ SeenAsBefore'
      BY <1>2, <2>1, <2>2, <2>3, CommitTable, CommitSeen
    <2>5. Placed'
      BY <1>2, <2>2, <2>3, CommitPlaced
    <2>6. QED
      BY <2>4, <2>5 DEF Mirrored
  <1>5. CASE Send
    BY <1>2, <1>3, <1>5, SendDoes, SendPlaced
  <1>6. CASE Tell
    BY <1>2, <1>3, <1>6, TellDoes, TellPlaced
  <1>7. CASE HangUp
    <2>1. LogStays
      BY <1>7 DEF HangUp, LogStays
    <2>2. QED
      BY <1>2, <1>3, <1>7, <2>1, HangUpPlaced
  <1>8. CASE Follow
    <2>1. LogStays
      BY <1>8 DEF Follow, LogStays
    <2>2. QED
      BY <1>2, <1>3, <1>8, <2>1, FollowPlaced
  <1>9. CASE Arrive
    BY <1>1, <1>2, <1>3, <1>9, ArriveDoes, ArrivePlaced
  <1>10. CASE Keep
    BY <1>2, <1>3, <1>10, KeepDoes, KeepPlaced
  <1>11. CASE Over
    <2>1. LogStays /\ UNCHANGED <<mirror, kept>>
          /\ pc' = "away" /\ open' = FALSE /\ inbound' = <<>>
      BY <1>11 DEF Over, Ended, node, LogStays, Sound, TypeOK
    <2>2. QED
      BY <1>2, <1>3, <2>1, AwayPlaced
  <1>12. CASE Die
    <2>1. LogStays /\ UNCHANGED <<mirror, kept>>
          /\ pc' = "away" /\ open' = FALSE /\ inbound' = <<>>
      BY <1>12 DEF Die, LogStays
    <2>2. QED
      BY <1>2, <1>3, <2>1, AwayPlaced
  <1>13. CASE UNCHANGED vars
    <2>1. LogStays /\ UNCHANGED <<open, read, inbound, pc, subscriber>>
      BY <1>13 DEF vars, node, subscriber, LogStays
    <2>2. PICK p, e \in 0 .. Len(log) : TakenUpTo(p) /\ Between(p, e)
      BY <1>2 DEF Placed
    <2>3. TakenUpTo(p)' /\ Between(p, e)'
      BY <2>1, <2>2, StaysTaken, StaysMirrored DEF Between, Within, Ascending, Whole, LogStays
    <2>4. Placed'
      BY <2>1, <2>2, <2>3 DEF Placed, LogStays
    <2>5. QED
      BY <1>3, <2>1, <2>4
  <1>14. QED
    BY <1>4, <1>5, <1>6, <1>7, <1>8, <1>9, <1>10, <1>11, <1>12, <1>13 DEF Next, Step

\* Once level with the log the mirror is the table, or what matches of it, however often
\* the subscriber was cut off or died, when it resumes by a cursor or after the last
\* commit it knows whole.
THEOREM MirrorsTheTable == ASSUME "commit_handled" \notin Places
                           PROVE  Safety => []MirrorIsTheTable
  <1>1. Sound /\ Mirrored => MirrorIsTheTable
    <2> SUFFICES ASSUME Sound, Mirrored, Level PROVE mirror = Wanted
      BY DEF MirrorIsTheTable
    <2>1. PICK p, e \in 0 .. Len(log) : TakenUpTo(p) /\ Between(p, e)
      BY DEF Mirrored, Placed
    <2>2. /\ Len(log) \in Nat /\ p \in Nat /\ e = Len(log) /\ Whole(p, e)
          /\ 1 .. Len(inbound) = {}
      BY <2>1, LogTyped, EmptySeq DEF Sound, Level, Between
    <2>3. ASSUME NEW r \in Records
          PROVE  mirror[r] = Seen(records[r])
      <3>1. PICK m \in p .. Len(log), v \in Values : Was(log, r, m, v) /\ mirror[r] = Seen(v)
        BY <2>1 DEF TakenUpTo, AtLeast
      <3>2. m \in 0 .. Len(log) /\ Len(log) \in 0 .. Len(log) /\ m <= Len(log)
        BY <2>2
      <3>3. Unconcerned(r, m, Len(log))
        <4>1. \A k \in m + 1 .. Len(log) : k \in p + 1 .. e
          BY <2>2, <3>2
        <4>2. QED
          BY <2>2, <4>1 DEF Whole, Unconcerned
      <3>4. PICK w \in Values : Was(log, r, Len(log), w) /\ Seen(w) = Seen(v)
        BY <3>1, <3>2, <3>3 DEF Mirrored, SeenAsBefore
      <3>5. w = records[r]
        <4>1. Was(log, r, Len(log), records[r])
          BY DEF Mirrored, TableIsTheLog
        <4>2. QED
          BY <2>2, <3>4, <4>1, WasOne
      <3>6. QED
        BY <3>1, <3>4, <3>5
    <2>4. mirror \in [Records -> Values]
      BY DEF Sound, TypeOK
    <2>5. QED
      BY <2>3, <2>4 DEF Wanted
  <1>2. Sound /\ Mirrored /\ [Next]_vars => Mirrored'
    BY NextMirrored
  <1>3. QED
    BY <1>1, <1>2, InitMirrored, AlwaysSound, PTL DEF Safety
================================================================================
