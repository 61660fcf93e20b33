----------------------------- MODULE Subscription -----------------------------
(***************************************************************************)
(* A mirror kept by following a node's changes, through connections that   *)
(* end (wire/push.rs, feed.rs, client.rs).                                 *)
(*                                                                         *)
(* A subscription says where in the node's log to begin; the feed hands    *)
(* over changes one by one until its connection ends, and the subscriber   *)
(* then asks again from the place it kept.  A place is the sequence of a   *)
(* commit, shared by every change of that commit; on a feed over a split   *)
(* table it is a cursor, each change having its own.  A subscription with  *)
(* a condition is sent what matches it and what stops matching, and on     *)
(* what it skipped a word of how far it read.                              *)
(*                                                                         *)
(* The log and the sending belong to the node and the mirror to the        *)
(* caller; the code is what turns places into subscriptions and frames     *)
(* into arrivals.  Frames arrive in order and the last of them may be      *)
(* lost with the connection (Wire is about the frames themselves).         *)
(***************************************************************************)
EXTENDS Naturals, Sequences, FiniteSets

CONSTANTS
    Records,     \* the records of the table
    Commits,     \* how many commits are made
    Breaks,      \* how often connections end and subscribers die
    Places,      \* how a subscriber may keep its place: some of KeptBy
    None

KeptBy == {"commit_handled", "commits_whole", "cursor"}

ASSUME ConstantsAssumption ==
    /\ Commits \in Nat /\ Breaks \in Nat
    /\ Places \subseteq KeptBy
    /\ None \notin Nat

VARIABLES
    records,     \* what the table holds
    log,         \* the changes, commit after commit
    place,       \* how this subscriber keeps its place
    narrowed,    \* whether its subscription has a condition
    breaks,      \* how many of Breaks happened
    open,        \* the node's end of the connection
    read,        \* how many changes the feed has read from the log
    skipped,     \* whether it passed over some since it last said so
    inbound,     \* what it sent that the subscriber has not taken
    pc,          \* where the subscriber is
    arrival,     \* what it was handed and has not kept the place of
    mirror,      \* its copy of the table
    kept         \* the place it kept: the subscription to resume with

node       == <<records, log, open, read, skipped, inbound>>
subscriber == <<pc, arrival, mirror, kept>>
vars       == <<node, subscriber, place, narrowed, breaks>>

\* What a record is to a condition: there and matching it, there, not there.
Values == {"matching", "there", "gone"}

Changes  == [sequence : 1 .. Commits, record : Records, was : Values, became : Values]
Arrivals == [kind : {"change"}, sequence : 1 .. Commits, cursor : Nat,
             record : Records, became : Values]
            \cup [kind : {"progress"}, sequence : 1 .. Commits, cursor : Nat]

ASSUME NoneAssumption == None \notin Arrivals

Change(n)   == [kind |-> "change", sequence |-> log[n].sequence, cursor |-> n,
                record |-> log[n].record, became |-> log[n].became]
Progress(n) == [kind |-> "progress", sequence |-> log[n].sequence, cursor |-> n]

-------------------------------------------------------------------------------
(* Subscriptions.                                                          *)

Everything == [from |-> 0, cursor |-> None]

\* Faulty: one further, for the commit handled and for `from`.
TwoFurther(sequence) == [from |-> sequence + 2, cursor |-> None]

ResumingAfter(sequence) == [from |-> sequence + 1, cursor |-> None]
ResumingAt(cursor)      == [from |-> 0, cursor |-> cursor]

-------------------------------------------------------------------------------
(* The node.                                                               *)

\* A commit writes or removes each of some records once.
Orders == {s \in UNION {[1 .. n -> Records] : n \in {1, 2}} :
              \A i, j \in DOMAIN s : s[i] = s[j] => i = j}

Sequence == IF log = <<>> THEN 0 ELSE log[Len(log)].sequence

Commit(order, became) ==
    /\ Sequence < Commits
    /\ \A i \in DOMAIN order : records[order[i]] = "gone" => became[order[i]] # "gone"
    /\ log' = log \o [i \in DOMAIN order |->
                         [sequence |-> Sequence + 1,
                          record   |-> order[i],
                          was      |-> records[order[i]],
                          became   |-> became[order[i]]]]
    /\ records' = [r \in Records |->
                      IF \E i \in DOMAIN order : order[i] = r THEN became[r] ELSE records[r]]
    /\ UNCHANGED <<open, read, skipped, inbound, subscriber, place, narrowed, breaks>>

\* How many changes are before the place a subscription resumes from.
Before(follow) ==
    IF follow.cursor # None
    THEN follow.cursor
    ELSE Cardinality({n \in 1 .. Len(log) : log[n].sequence < follow.from})

\* A condition is told of what matches it, and of what did and no longer does.
Concerns(c) == narrowed => c.became = "matching" \/ c.was = "matching"

Seen(value) == IF narrowed /\ value = "there" THEN "gone" ELSE value

Send ==
    /\ open /\ read < Len(log)
    /\ read' = read + 1
    /\ IF Concerns(log[read'])
       THEN /\ inbound' = Append(inbound, [Change(read') EXCEPT !.became = Seen(@)])
            /\ UNCHANGED skipped
       ELSE skipped' = TRUE /\ UNCHANGED inbound
    /\ UNCHANGED <<records, log, open, subscriber, place, narrowed, breaks>>

\* Having skipped changes and come to the end, it says how far it read.
Tell ==
    /\ open /\ skipped /\ read = Len(log)
    /\ skipped' = FALSE
    /\ inbound' = Append(inbound, Progress(read))
    /\ UNCHANGED <<records, log, open, read, subscriber, place, narrowed, breaks>>

Break == breaks < Breaks /\ breaks' = breaks + 1

\* The connection ends, with what was not taken from it in part or whole.
HangUp ==
    /\ open /\ Break
    /\ open' = FALSE
    /\ \E n \in 0 .. Len(inbound) : inbound' = SubSeq(inbound, 1, n)
    /\ UNCHANGED <<records, log, read, skipped, subscriber, place, narrowed>>

-------------------------------------------------------------------------------
(* The subscriber.                                                         *)

Init ==
    /\ records = [r \in Records |-> "gone"]
    /\ log = <<>>
    /\ place \in Places /\ narrowed \in BOOLEAN
    /\ breaks = 0
    /\ open = FALSE /\ read = 0 /\ skipped = FALSE /\ inbound = <<>>
    /\ pc = "away" /\ arrival = None
    /\ mirror = [r \in Records |-> "gone"]
    /\ kept = Everything

\* `Client::follow`: a new connection, from the place kept.
Follow ==
    /\ pc = "away"
    /\ pc' = "reading"
    /\ open' = TRUE /\ read' = Before(kept) /\ skipped' = FALSE /\ inbound' = <<>>
    /\ UNCHANGED <<records, log, arrival, mirror, kept, place, narrowed, breaks>>

\* `Feed::next` hands over a change, which the subscriber applies to its mirror,
\* or how far the feed read.
Arrive ==
    /\ pc = "reading" /\ inbound # <<>>
    /\ pc' = "keeping"
    /\ arrival' = Head(inbound)
    /\ inbound' = Tail(inbound)
    /\ mirror' = IF arrival'.kind = "change"
                 THEN [mirror EXCEPT ![arrival'.record] = arrival'.became]
                 ELSE mirror
    /\ UNCHANGED <<records, log, open, read, skipped, kept, place, narrowed, breaks>>

\* The place to resume from after an arrival.  A feed says of a commit that it
\* is whole only by going past it.
PlaceAfter(a) ==
    CASE place = "cursor"         -> ResumingAt(a.cursor)
      [] place = "commit_handled" -> ResumingAfter(a.sequence)
      [] place = "commits_whole"  ->
            ResumingAfter(IF a.kind = "change" THEN a.sequence - 1 ELSE a.sequence)

Keep ==
    /\ pc = "keeping"
    /\ pc' = "reading"
    /\ kept' = PlaceAfter(arrival)
    /\ arrival' = None
    /\ UNCHANGED <<node, mirror, place, narrowed, breaks>>

\* Faulty: a feed whose connection ended reads on.
NeverEnded == FALSE

Ended == ~open /\ inbound = <<>>

\* `Feed::next` answers that the feed is over, or fails.
Over ==
    /\ pc = "reading" /\ Ended
    /\ pc' = "away"
    /\ UNCHANGED <<node, arrival, mirror, kept, place, narrowed, breaks>>

\* The subscriber dies; it comes back with its mirror and the place it kept.
Die ==
    /\ pc # "away" /\ Break
    /\ pc' = "away"
    /\ arrival' = None
    /\ open' = FALSE /\ inbound' = <<>>
    /\ UNCHANGED <<records, log, read, skipped, mirror, kept, place, narrowed>>

-------------------------------------------------------------------------------
Step == Send \/ Tell \/ Follow \/ Arrive \/ Keep \/ Over

Next ==
    \/ \E order \in Orders, became \in [Records -> Values] : Commit(order, became)
    \/ HangUp \/ Die
    \/ Step

Safety == Init /\ [][Next]_vars

\* The node sends what it has, and the subscriber takes what arrived and asks
\* again when its feed is over.
Spec == Safety /\ WF_vars(Step)

-------------------------------------------------------------------------------
(* Properties.                                                             *)

\* The values of every variable, and where an arrival is in hand; a place is never
\* further than one past the log.
TypeOK ==
    /\ records \in [Records -> Values] /\ mirror \in [Records -> Values]
    /\ log \in Seq(Changes) /\ inbound \in Seq(Arrivals)
    /\ place \in Places /\ narrowed \in BOOLEAN /\ breaks \in 0 .. Breaks
    /\ open \in BOOLEAN /\ skipped \in BOOLEAN
    /\ read \in 0 .. Len(log)
    /\ pc \in {"away", "reading", "keeping"}
    /\ arrival \in IF pc = "keeping" THEN Arrivals ELSE {None}
    /\ kept \in [from : 0 .. Commits + 1, cursor : 1 .. Len(log) \cup {None}]

Wanted == [r \in Records |-> Seen(records[r])]

\* The feed has sent all there is, and all of it was taken.
Level == open /\ pc = "reading" /\ inbound = <<>> /\ read = Len(log)

\* "A mirror applying the feed holds exactly the matching records", and "nothing
\* is lost": once level with the log a mirror is the table, or what matches of
\* it, however often it was cut off and wherever it resumed.
MirrorIsTheTable == Level => mirror = Wanted

\* A mirror comes level with the log and stays so, once commits and breaks end.
MirrorCatchesUp == <>[](mirror = Wanted)
==============================================================================
