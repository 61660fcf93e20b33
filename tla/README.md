# Verification of the TessariDB Rust client

TLA+ modules of the client library under `src/`, TLC configurations that check
them on small instances, and theorems about them with proofs for TLAPS. The code
is the reference: `PROJECT.json` maps every definition to the lines it stands for.
All source paths below are relative to `src/src/`.

The library is a client. What it keeps is small - a connection, a batch, a lease,
a token - and what can go wrong lies between it and a node, or between two of its
users: replies lost after the statement ran, statements executed long after their
sender gave up, holds and leases that end with time, a stop arriving in the middle
of a batch, a frame read by the wrong call. So each module has the client's state
and steps as the code has them, and a store or a node that does only what the
client's statements ask of it and what the documentation in `src/` says of it.
Those definitions are marked external in the map.

## The system

| Part | State it keeps | Operations | What is hard |
| --- | --- | --- | --- |
| Client and redirects: `client.rs`, `client/follow.rs`, `wire/redirect.rs` | stream, peer's minor, credentials, how to dial; during a send: redirect, floor, hops, tenancy to select | `connect`, `run`, `run_with`, `send`, `follow` | a request that wanders between nodes while leaderships change, with the session it ran in, and must not run twice |
| Frames: `wire/frame.rs`, `lib.rs` (versions), `refusal.rs` | none but the stream's position | `greet`, `read`, `write`, version checks | a header read and its body not; answers carry no request number |
| Feed: `feed.rs`, `wire/push.rs` | `finished`; the caller's place | `next`, subscriptions and where they resume | the connection ends between two changes of one commit |
| Queue worker: `queue.rs`, `queue/statements.rs` | batch in hand, stop flag | `run_auto`, `run_manual`, `claim`, `done`, `release`, `stop` | holds that lapse under a running handler, stops, deaths, late statements |
| Group consumer: `consumer.rs`, `consumer/statements.rs` | batch in hand, stop flag | `run_auto`, `run_manual`, `read`, `ack`, `nack`, `stop` | as the queue, but settlements do not name the member |
| Space: `cache.rs`, `cache/statements.rs` | none but a lease's key and holder | `get_or_set`, `lock`, `extend`, `release`, plain writes | time ends leases silently; late statements; racing loaders |
| Cache handle: `cache.rs`, `cache/statements*`, `cache/containers*` | where it is: namespace, database, space | one statement a call: values, conditions, TTLs, key listings, lists, hashes, sets, rankings | numbering of parameters, order of clauses, an absent container told from an empty one, a page's last key |
| HTTP surface: `http/*` | credential, session token, attempts | `as_user`, sessions, `change_password`, `backup`, files, `append`, probes | retries next to calls that must not be retried; stale tokens |
| Vault: `vault*` | where it is, its name, keys | statements with keys or without, `unseal`, `seal`, `lock` as frames of their own | which keys go with which call, which minor may be sent one |
| Codec and messages: `codec/*`, `value.rs`, `geometry.rs`, `wire/message.rs`, `wire/push.rs`, `refusal.rs`, `wire/redirect.rs` | none | encode, decode | boundaries of widths, order, depth, outcomes of newer nodes, fields older nodes do not have |
| Query builder: `query/*` | what was built so far | `select`, `create`, `update`, `upsert`, `delete` and their filters | values never in the text, numbered over several clauses |
| Mapping: `mapping/*` | none | pure conversion | types |
| TLS, errors: `tls.rs`, `error.rs` | none | - | - |

How they interact: the builders and a vault make text and parameters, and a worker, a
consumer, a vault and a space call `Client::send`, one statement at a time; `send` calls
`exchange`, which checks versions, writes one frame and reads one; `send` hands an
answer that redirects to `followed`, which may replace the client's connection. `follow`
turns a client into a feed, which owns the connection from then on. The HTTP surface
shares nothing with these but errors: each call there has a connection of its own. Stops
come from other tasks through a `watch` channel. `PROJECT.json` lists the hazards at
their lines with the properties that would catch them.

## The modules

| Module | Models | Variables and the code | Composed with |
| --- | --- | --- | --- |
| `OneAnswer` | what `send` promises: a request runs at most once, and the verdict is true | abstract | implemented by `Redirect` |
| `Redirect` | `send`, `exchange`, `followed` and sessions on several nodes | `home` is `self`; `there`, `redirect`, `floor`, `hops`, `selecting` are the locals of `followed`; `ran`, `asked`, `dated` are history | refines `OneAnswer` |
| `AtLeastOnce` | what a queue or a group promises: an item is settled only when a handler finished it | abstract | implemented by `Queue` and `Consumer` |
| `Queue` | workers' run loops against one queue | `jobs`, `job`, `decision`, `stopped` are the loop's; `store` is the queue's records with holds and attempts; `late` the statements whose senders gave up | refines `AtLeastOnce` |
| `Consumer` | members' run loops against one group | the same, with positions, deliveries and deadlines | refines `AtLeastOnce` |
| `Wire` | one connection: greeting, frames in two reads, calls, a feed | `inbound` is what the node sent and nobody read; `peer_minor`, `finished` as in the code | stands below `Redirect` and `Subscription`, which take a whole exchange or arrival as a step |
| `Subscription` | a mirror fed through connections that end | `place` is how the caller resumes, `kept` what it stored, `mirror` what it built | stands on the feed of `Wire` |
| `Space` | `get_or_set` against other writers, and a lock with leases | `cell` and `lock` are two keys; `leases` what callers hold; `late` as above | |
| `Http` | handles, retries, sessions, files, appends, backups | `credential`, `session` as in `Operations`; `made` is `send`'s local; `tokens`, `password`, `file`, `landed` the node's | |
| `Loops` | either run loop under fairness | those of `Queue` and `Consumer`, the shared ones once | instantiates both |
| `Codec` | values as bytes: `encode`, `decode` and their parts | none; texts and bytes are sequences of numbers | used by `Query`, `Messages`, `Node` |
| `Query` | the builders: a question as text and parameters | none; a text is a sequence of words | as above |
| `Messages` | the bodies of requests, subscriptions, acts, answers, refusals, redirects and changes, and the vault's readers of answers | none | extends `Query` |
| `CacheCalls` | a cache handle's statements and its readers of answers | none | extends `Messages` |
| `Node` | a node of any minor reading a body and writing one (external) | none | extends `CacheCalls` |
| `Dialogue` | one question from the caller to a node and back | `question`, `frame` what is written, `heard` what the node read, `meant` what it meant, `reply` its bytes, `got` what the call returns | extends `Node`; stands beside `Wire`, which has the order of frames and not their content |

`MC*.tla` are the instances TLC checks. `*_proofs.tla` hold the proofs.

The grain of steps. In `Redirect`, `Queue`, `Consumer` and `Space` a statement and its
reply are one step: only the node sees the moment between them, and a lost reply is
a fault after which the store may execute the statement then, later or never. A
handler, a loader and a body being copied are apart from the steps around them, since
holds lapse and stops arrive there. In `Wire` a frame takes two steps, because `read`
waits twice and an error between the two leaves the body unread. In `Http` sending,
executing and reading are apart, because a node may execute a request whose
connection was lost, after the retry that replaced it. In `Dialogue` writing, hearing,
answering and reading are a step each, as nothing else happens between them.

In `Dialogue` the caller's words go one way and the node's the other, and the node model
is written apart from the client's: it parses the words of a script by the forms a
statement has, and knows nothing of how the client assembles one. A clause in the wrong
place, a parameter numbered twice or a field out of order is heard as something else.

Definitions under a comment that begins with *Faulty:* are not used by the
specification. Each is a plausible bug in the definition that follows it (a dropped
guard, a bound off by one, a reset left out); `PROJECT.json` pairs each property with
one that breaks it.

## The runs

| Run | Instance | What it shows |
| --- | --- | --- |
| `redirect` | three nodes of two minors, two epochs, a caller with and without credentials, names plain and not | Over every sequence of answers, refusals, redirects and broken exchanges: a request runs at most once and the error says what is known of it (`ImplementsOneAnswer`); in the session the caller had (`RunsInTheCallersSession`); redirects are checked before they are followed - a node that reads what it is sent, that is the node named, never an older date (`RedirectsAreChecked`); the client moves exactly when it should (`MovesWhenSettled`); and redirects end (`EverySendReturns`) |
| `queue` | two workers, two records, batches of two, two attempts, two faults | The records and the workers' batches agree through lapses, stops, deaths and late statements: the abstract promise, holds ended only by their own worker or the clock, one handler call per attempt counted, batches handed back on a stop |
| `loops` | two processes, one record or message, two faults in a queue and one in a group | A stop ends either loop, every record is in the end done or buried, and a message is handled again and again until acknowledged |
| `queue_again` | one record written twice | Finding, below |
| `consumer` | two members, two messages, batches of two, two deliveries, one fault | The abstract promise, order of first deliveries, prompt stops |
| `wire` | three calls, two changes, one odd frame, minors 1, 6 and 7 | A reply is returned to its own call; a feed passes nothing over, asked again after a change that did not decode or not, and ends in order only where no frame was cut off; calls return |
| `wire_unknown` | as `wire`, with callers that go on after an unknown frame | Finding, below |
| `subscription` | two records, two commits of up to two changes, two breaks | Level with the log, the mirror is the table; and it comes level |
| `subscription_handled` | as `subscription`, resuming as the documentation says | Finding, below |
| `space` | two callers, two values, one name, two locks, one fault | Leases whole as long as callers are told so, answers current, leases ended only by time or their holder, the lock always free again |
| `http` | two handles, three calls, two attempts, one session slot, one change by others | Successful file calls are true of a moment of the call, appends land once, refused backups leave the sink alone, no handle is refused because of its own successful calls |
| `dialogue` | every statement, vault act and subscription the library can write, over values at the boundaries of every type; nodes of six ages | A node hears what was asked (`HeardAsAsked`), the call returns what the node meant, told apart from what a node that old or that new cannot say (`AnswersAreRead`), a record's fields come back as they went (`ValuesComeBack`), and only whole values are taken for values (`OnlyWholeValues`) |

### Bounds

- Redirects: the code follows three hops, so three nodes let a request go out, on,
  back and out again; two epochs are enough to tell an older date from a newer one,
  as dates are only compared.
- Workers and members: two, because every hazard is between one and another. Two
  records in a batch make "the rest of the batch" something. Two attempts make the
  last attempt differ from the first. A fault is a lost or refused statement, or a
  death: two let one late statement meet another worker's.
- `Births` counts how often a record is written under an identity. One in `queue`,
  two in `queue_again`: the difference is the finding.
- Connections: three calls, so that a call, the one after it and a feed can follow one
  another; minors on each side of each version check.
- Commits: two, of up to two changes, are the least in which a connection ends inside
  a commit and something follows it. Each break may be a lost connection or a dead
  subscriber.
- Space: two locks race under two holders, fresh or given by name. `grants` counts the
  locks granted, and is bounded by `Locks`.
- HTTP: three calls are the least for a call of one handle, one of another between its
  two attempts, and one after. Attempts of one call are alike, so the module does
  not count them: a retried request may be executed late any number of times, which
  is more than the code allows and so enough for safety. The file has one content or
  none, which tells a `put` from a `delete`.
- Loops: one record and one message are enough, as progress is of each by itself. Two
  faults let a queue's record lose both attempts; one is enough for a group's message,
  which is never given up.
- Dialogue: widths are narrowed, the same on both sides, so that a boundary is near: a
  byte keeps its 256 values, a 32-bit length or count takes one byte, and 64- and
  128-bit integers, floats, UUIDs and node ids take two, with five bits of a float its
  exponent. A text is a sequence of bytes of which those below 200 stand for characters
  and the others for what is not UTF-8; a word of a script is one byte. The depth a
  reader allows is 3 and not the source's, a frame carries 200 bytes, and a second has
  100 parts. Values are at the boundaries of each type, alone, nested to each depth up
  to one too many in each way of nesting, and one byte over what a frame holds.
  `OnlyWholeValues` cuts, lengthens and changes each of them. Nodes are of six ages:
  before conditions, before classes, before keys, of this client's age, and newer, with
  each count of appended fields. Refusals and redirects answer an `update`, a
  subscription and an act, as every call of a kind reads them alike.

Symmetry is used only in the runs without liveness. `CHECK_DEADLOCK` is off in the runs
of `Wire`, `Subscription` and `Dialogue`: a connection that was closed, a feed that is
level with a log nobody adds to, or a question that was answered, really has nothing
left to do.

### Fairness

- `Redirect`: weak fairness of the client's own steps. An exchange ends, as an answer or
  as a broken connection; a node that keeps a connection open and says nothing is
  not covered, since the client has no timeout.
- `Loops`, for both loops: weak fairness of a process's steps (the task is scheduled, its
  handler returns) and of being started, and strong fairness of making it anew, which a
  supervisor repeats after each stop or error (`LoopsGoOn`). Of the store, weak fairness
  of a hold's or a delivery's lapse and of a burial, which it does by its clock, and strong
  fairness, for each message, of a read that reaches it: a group hands out what is ready
  in the order of positions, so one that stays ready is reached (`StoreGoesOn`). `Queue`
  and `Consumer` state none: their runs are about safety.
- `Wire`: weak fairness of the client's reading and of the node's reply or closing.
- `Subscription`: weak fairness of the subscriber's and the feed's steps. Breaks are
  bounded, or a connection could always end before anything arrives.
- `Space`: weak fairness of a lock's expiry alone, which every lock carries.
- `Http` and `Dialogue` have none, and no liveness is claimed: a call waits for as long
  as the node holds the connection.

## What is proved

Every safety property that a passing run checks, those of `Dialogue` excepted, is a
theorem for every value of the constants. A proof assumes its module's
`ConstantsAssumption` (and `NoneAssumption`: no reply or arrival is the value that stands for
none) and nothing else, unless a theorem says so. Each `*_proofs.tla` begins with its
inductive invariant, which TLC checked on the run's instance before it was proved; then
lemmas about the module's operators, one lemma for each action, and the theorems.

| Module | Theorems | Assuming |
| --- | --- | --- |
| `Redirect_proofs` | `TypeOK`, `RunsInTheCallersSession`, `RedirectsAreChecked`, `MovesWhenSettled`, `ImplementsOneAnswer` | |
| `Queue_proofs` | `TypeOK`, `StopHandsBack`, `ReleaseEndsItsOwnHold`, `OneCallPerAttempt`, `StopIsPrompt`, `WorkIsAtLeastOnce` | the last: no identity is written twice |
| `Consumer_proofs` | `TypeOK`, `StopIsPrompt`, `InOrder`, `WorkIsAtLeastOnce` | |
| `Wire_proofs` | `TypeOK`, `RepliesBelong`, `FeedMissesNothing`, `CutShortIsNoEnd` | all but the first: no connection is used again after an error that leaves it out of step |
| `Subscription_proofs` | `TypeOK`, `MirrorIsTheTable` | the last: nobody resumes after a commit of which it handled one change |
| `Space_proofs` | `TypeOK`, `LeaseUnbroken`, `AnswersAreCurrent`, `LeaseEndsOfItself` | |
| `Http_proofs` | `TypeOK`, `RefusedForCause`, `FilesAreRegular`, `NothingTwice` | |

The three assumptions are what the three findings are about: `queue_again`,
`wire_unknown` and `subscription_handled` show that the theorems are false without them.

`Redirect_proofs`. The inductive invariant adds to the properties what holds in hand at
each stage: nothing ran and the client's session is as it was while a request is on its
way (`HandedOver`), what is selected elsewhere is the caller's tenancy (`Redirected`), a
connection just made is fresh until selected (`Arrived`), and redirects dialled are
counted by hops and dated no later than the floor (`Counting`). Without them
`RunsInTheCallersSession` is not inductive: it says nothing of the session a request is
about to run in.

`Queue_proofs`. The invariant says that a done statement, on its way or late, is of a
finished job (`DoneIsFinished`); that a run without an error has in its batch what it
claimed, still holds and has not shown its handler (`UnseenInBatch`), which is what
hand-back returns; and that a record written once and deleted is gone (`GoneForGood`),
which is what keeps a late `DELETE` from meeting another record. A second one (`Counted`)
is about numbers: for each record, the handler calls made and those still owed for a
claim in some batch are together no more than the attempts counted (`Owed`), since a
claim counts before it hands out; and a stopped worker that may yet call its handler has
not called it since (`Prompt`).

`Consumer_proofs`. The refinement needs no assumption on identities, as a position is never
used again: only a finished message is on its way to be acknowledged (`AckIsFinished`).
`InOrder` says something of two handler calls and nothing of what lies between them, so
the invariant relates three places a message can be: those never handed out wait to be,
and are newer than what any member holds for the first time, which is newer than what
its handler got (`Ordered`).

`Wire_proofs`. Answers carry no number, so `RepliesBelong` rests on what is in flight.
While the client is in step, headers and bodies take turns from where it reads
(`Alternate`); the node owes the one call under way or has answered it with one frame
(`OneReply`); and on a feed the bodies on their way are the next changes, in order
(`InTurn`). A connection cut off inside a frame shows it, by a last unit that is no body
or by a client that waits for one (`CutShows`), so a client that waits for a header
and finds nothing was told everything. The errors after which a client is out of step are
named (`Broken`), and all theorems but `TypeOK` assume that callers give the connection up
after those.

`Subscription_proofs`. The table after each commit is not a variable, and a function that
recurses over the log cannot be reasoned about here, so `Was` says what a record was
after the first n changes by its last one. The invariant has a place the subscriber has
taken all up to and one the feed's frames on their way reach (`Placed`): between them
lies everything that concerns the subscriber (`Whole`); each record of the mirror is what
it was at the first of these places or later (`AtLeast`), as it may already have what it
is sent again; it would resume no later than there; and what a condition passes over
leaves a record, as the subscriber sees it, what it was (`SeenAsBefore`).

`Space_proofs`. A lock whose reply was lost may be granted later under a holder that
nobody was given, so the invariant says that fresh holders are taken in order
(`FreshOnceTaken`), that a lock still on its way gave no lease (`PendingHasNoLease`), and
that the fresh holder that has the lock has its last grant (`HolderHasLastGrant`).
Holders given by name are left out of `LeaseUnbroken`: two locks under one name are
told apart by nobody.

`Http_proofs`. A request may be executed after the call that made it ended, so the
invariant follows each to where its effect will be: a session is opened at most once for
each call that asks for one (`OpensAreCalls`), and nobody has heard of its token before
the answer is read (`TokensAreFresh`); a batch is in one place at most, asked for, on its way
or landed (`OnePlace`); a call on the file has seen what the file is now, and what its
answer says it was (`SeesTheFile`); and what a handle that is not excused presents is
good, but while it has yet to read that its own call changed it (`Good`).

Only model-checked:

- liveness (`EverySendReturns`, `StopEnds`, `EveryRecordEnds`, `EveryMessageIsHandled`,
  `EveryCallReturns`, `MirrorCatchesUp`, `LockComesFree`), which is beyond this prover;
- the modules from `Codec` to `Dialogue`, whose values and shapes hold one another: what a
  recursive reader makes of every input is an induction over data, which this prover
  does not do.

## Findings

- `queue_again`: `DELETE` names a record and not the hold (`queue/statements.rs:79`). A
  worker whose hold lapsed, finishing late, deletes whatever was written since under
  that identity, and no handler sees it; the documentation says work is at least once.
- `wire_unknown`: `error.rs:50` says that a connection is finished after an unknown
  frame. `read` leaves the frame's body on the stream and `Client` goes on, so that the
  next call reads it as its answer's header.
- `subscription_handled`: `feed.rs:14` says that nothing is lost when resuming after the
  last handled change's sequence. Changes of one commit share a sequence, and
  what remained of the commit is passed over.

Seen while modelling, and no run's subject:

- A `USE` answered by a node that a transient redirect named ran in a session that is
  then dropped: the client's own session does not have it. `client.rs:163` says the
  client stays where it was, and `AnswerSettles` states what is so.
- `Feed::next` sets `finished` at an end and at a refusal, and not when `read` fails. Asked
  again after `Truncated`, it finds the connection closed and answers `None`, as at an
  orderly end. `CutShortIsNoEnd` is of callers that stop at such an error, as the run's
  `Reused` has it; a change that does not decode is no such error, and there they go on.
- `Operations::attempts` says that asking twice cannot mean something different from
  asking once, and that three calls are exempt. A `PUT` retried after another handle's
  `PUT` puts the first content back. `close_session` and `append` make one attempt as
  well, as the model has them.
- A value nested as deep as the codec reads is accepted by a node alone, and stored as a
  field of a record it is one level deeper: the client reads nothing of an answer that
  holds it, the other records included. `AnswersAreRead` says so (`Fits`).
- `codec/write.rs` saturates a length that does not fit its width, and such a value would
  be misread; a frame's ceiling refuses every body that long before it is sent, which
  `ValuesComeBack` checks at the narrowed widths.
- `refusal::read` takes a first byte above 9 for the first of the words. A class a later
  protocol adds would be read as text, or, with it, as words that are not.
- `ValuesComeBack` is of a round trip: a writer and a reader wrong in the same way are
  told from right ones by `HeardAsAsked` alone, against a node written apart from them.

## Not modelled

- The grammar of HTTP headers and of URLs. A request over HTTP is told apart by what the
  properties need: its kind, its credential, its condition.
- The mapping between values and types of the caller: pure, generic over types,
  and its faults are wording.
- Constructors and accessors of `value.rs` and `geometry.rs`: the model's values are
  what they construct.
- The words of an error, and the sorting of an HTTP answer's code into a class, which
  the classes of `Http` abstract.
- TLS: an external library is configured; a handshake that fails is a connection that
  fails. Over HTTP such a failure is not retried, and is among the answers not read.
- `health` and `ready`, whose 503 is an answer, `metrics` and `size` are reads like `get`.
- Percent-encoding, Basic credentials, event rendering, the pause between attempts.

## Plan

1. Facts of `Dialogue`'s modules that need no induction: which minors a frame is sent to and
   which keys go with which call, stated of the operators that decide it, in a module
   apart from the recursive ones.
2. `Loops`: that a fair run of either loop is a behaviour of `Queue` or of `Consumer`, so
   that their theorems hold of it.
