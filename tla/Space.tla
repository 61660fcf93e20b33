--------------------------------- MODULE Space ---------------------------------
(***************************************************************************)
(* Two keys of a space: one used as a cache with `get_or_set`, one as a    *)
(* lock (cache.rs, cache/statements.rs).                                   *)
(*                                                                         *)
(* Each call but `get_or_set` is one statement on one key, and the store   *)
(* executes a statement at once.  What it leaves to chance is time: a key  *)
(* with an expiry may be gone at any moment, so a caller learns only from  *)
(* an answer whether a lease it was given is still its own.  A statement   *)
(* whose reply is lost fails its call, and the store may execute it then,  *)
(* later or never.                                                         *)
(***************************************************************************)
EXTENDS Naturals, FiniteSets

CONSTANTS
    Callers,     \* tasks calling get_or_set, each on a connection of its own
    Made,        \* values loaders make and others store
    Names,       \* names callers give as a lock's holder
    Locks,       \* how often the lock is asked for
    Faults,      \* how often replies are lost or calls refused
    Free,        \* what a lock given back holds for a moment
    None

Holders == Names \cup (1 .. Locks)

ASSUME ConstantsAssumption ==
    /\ Locks \in Nat /\ Faults \in Nat
    /\ Names \cap Nat = {}
    /\ None \notin Made \cup Names \cup Nat \cup {Free}
    /\ Free \notin Made \cup Names \cup Nat

VARIABLES
    cell,        \* the cached key
    lock,        \* the lock's key
    late,        \* statements whose sender has given up on the reply
    faults,      \* how many of Faults have happened
    taken,       \* how many locks were asked for: fresh_holder's counter
    leases,      \* the leases callers were given and have not given back
    pc,          \* where a caller of get_or_set is
    made,        \* what its loader made
    answer,      \* what get_or_set last returned to it
    \* History, read by the properties only.
    grants,      \* how often the lock was taken
    misled       \* whether a caller was told of a broken lease that it holds

store   == <<cell, lock, late, grants>>
caching == <<pc, made, answer>>
locking == <<taken, leases, misled>>
vars    == <<store, faults, caching, locking>>

\* A key's value, None without one, and whether it will expire.
Absent == [value |-> None, expires |-> FALSE]
Key(value, expires) == [value |-> value, expires |-> expires]

\* The leases a lock gave in its first n grants.
Leases(n) == [holder : Holders, grant : 1 .. n]

Statements == [kind : {"store"}, value : Made]
              \cup [kind : {"lock", "extend", "release"}, value : Holders]

-------------------------------------------------------------------------------
(* The store.                                                              *)

\* Any other caller's statement on the cached key: SET, with or without a
\* condition or an expiry, DELETE, EXPIRE, PERSIST.
Write(value, expires) ==
    /\ cell' = IF value = None THEN Absent ELSE Key(value, expires)
    /\ UNCHANGED <<lock, late, grants, faults, caching, locking>>

LapseCell ==
    /\ cell.expires
    /\ cell' = Absent
    /\ UNCHANGED <<lock, late, grants, faults, caching, locking>>

LapseLock ==
    /\ lock.expires
    /\ lock' = Absent
    /\ UNCHANGED <<cell, late, grants, faults, caching, locking>>

\* SET ... IF ABSENT EXPIRE, of a value or of a lock's holder.
Stored(key, value) == IF key = Absent THEN Key(value, TRUE) ELSE key

\* Faulty: a release that is not asked whose lock it is, or leaves no expiry.
FreedAnyway(holder)  == Key(Free, TRUE)
FreedForGood(holder) == IF lock.value = holder THEN Key(Free, FALSE) ELSE lock

\* SET ... = 'free' IF = holder EXPIRE 1ms.
Freed(holder) == IF lock.value = holder THEN Key(Free, TRUE) ELSE lock

\* SET ... = holder IF = holder EXPIRE.
Extended(holder) == IF lock.value = holder THEN Key(holder, TRUE) ELSE lock

Granted == lock = Absent

\* What the store does for a statement.
Executes(s) ==
    /\ cell' = IF s.kind = "store" THEN Stored(cell, s.value) ELSE cell
    /\ lock' = CASE s.kind = "lock"    -> Stored(lock, s.value)
                 [] s.kind = "extend"  -> Extended(s.value)
                 [] s.kind = "release" -> Freed(s.value)
                 [] OTHER              -> lock
    /\ grants' = IF s.kind = "lock" /\ Granted THEN grants + 1 ELSE grants

ExecuteLate(s) ==
    /\ s \in late
    /\ late' = late \ {s}
    /\ Executes(s)
    /\ UNCHANGED <<faults, caching, locking>>

Forget(s) ==
    /\ s \in late
    /\ late' = late \ {s}
    /\ UNCHANGED <<cell, lock, grants, faults, caching, locking>>

-------------------------------------------------------------------------------
(* get_or_set.                                                             *)

Init ==
    /\ cell = Absent /\ lock = Absent /\ late = {} /\ faults = 0
    /\ taken = 0 /\ leases = {}
    /\ pc = [c \in Callers |-> "out"]
    /\ made = [c \in Callers |-> None]
    /\ answer = [c \in Callers |-> None]
    /\ grants = 0 /\ misled = FALSE

GoOn(c, stage) == pc' = [pc EXCEPT ![c] = stage] /\ UNCHANGED <<made, answer>>

\* Faulty: what the loader made is kept for the next call.
ReturnKept(c, value) ==
    /\ pc' = [pc EXCEPT ![c] = "out"]
    /\ answer' = [answer EXCEPT ![c] = value]
    /\ UNCHANGED made

\* The call ends.
Return(c, value) ==
    /\ pc' = [pc EXCEPT ![c] = "out"]
    /\ answer' = [answer EXCEPT ![c] = value]
    /\ made' = [made EXCEPT ![c] = None]

\* The call fails with the statement it was at, which may be executed yet.
Fault(s) ==
    /\ faults < Faults /\ faults' = faults + 1
    /\ late' \in {late, late \cup {s}}
    /\ UNCHANGED <<cell, lock, grants>>

\* `get`: the key's value ends the call; without one the loader is run.
Ask(c) ==
    /\ pc[c] = "out"
    /\ IF cell.value # None THEN Return(c, cell.value) ELSE GoOn(c, "loading")
    /\ UNCHANGED <<store, faults, locking>>

\* The loader returns, at its own time.
Load(c, value) ==
    /\ pc[c] = "loading"
    /\ pc' = [pc EXCEPT ![c] = "storing"]
    /\ made' = [made EXCEPT ![c] = value]
    /\ UNCHANGED <<store, faults, answer, locking>>

\* `set_if_absent`: first to store ends the call.
Store(c) ==
    /\ pc[c] = "storing"
    /\ Executes([kind |-> "store", value |-> made[c]])
    /\ IF cell = Absent THEN Return(c, made[c]) ELSE GoOn(c, "again")
    /\ UNCHANGED <<late, faults, locking>>

\* Faulty: whoever lost the race answers what it made.
Own(c) == made[c]

\* `get` once more, the winner's value; what was made, if that is gone already.
Winner(c) == IF cell.value # None THEN cell.value ELSE made[c]

AskAgain(c) ==
    /\ pc[c] = "again"
    /\ Return(c, Winner(c))
    /\ UNCHANGED <<store, faults, locking>>

\* A call fails in `get`, in `set_if_absent` (a zero ttl is found there, with
\* nothing sent) or in `get` again.
Fails(c) ==
    /\ \/ pc[c] = "storing" /\ Fault([kind |-> "store", value |-> made[c]])
       \/ pc[c] = "again" /\ faults < Faults /\ faults' = faults + 1 /\ UNCHANGED store
    /\ Return(c, None)
    /\ UNCHANGED locking

-------------------------------------------------------------------------------
(* Locks.                                                                  *)

\* Faulty: a holder that is not unique to one lease.
SameHolder(n) == 1

\* `fresh_holder`: unique to the lease.
FreshHolder(n) == n

\* Whom a lock may be asked for as: a name the caller gives, or a fresh holder.
Asking == Names \cup {FreshHolder(taken + 1)}

Lock(h) ==
    /\ taken < Locks /\ h \in Asking
    /\ taken' = taken + 1
    /\ Executes([kind |-> "lock", value |-> h])
    /\ leases' = IF Granted THEN leases \cup {[holder |-> h, grant |-> grants']} ELSE leases
    /\ UNCHANGED <<late, faults, caching, misled>>

LockFails(h) ==
    /\ taken < Locks /\ h \in Asking
    /\ taken' = taken + 1
    /\ Fault([kind |-> "lock", value |-> h])
    /\ UNCHANGED <<caching, leases, misled>>

\* What the caller of `extend` or `release` is told: that it held the lease.
Held(l) == lock.value = l.holder

Told(l) == misled' = (misled \/ (Held(l) /\ l.holder \notin Names /\ l.grant # grants))

Extend(l) ==
    /\ l \in leases
    /\ Executes([kind |-> "extend", value |-> l.holder])
    /\ Told(l)
    /\ UNCHANGED <<late, faults, caching, taken, leases>>

\* `release` takes the lease, whatever comes of the call.
Release(l) ==
    /\ l \in leases
    /\ leases' = leases \ {l}
    /\ Executes([kind |-> "release", value |-> l.holder])
    /\ Told(l)
    /\ UNCHANGED <<late, faults, caching, taken>>

LeaseFails(l) ==
    /\ l \in leases
    /\ \/ Fault([kind |-> "extend", value |-> l.holder]) /\ UNCHANGED leases
       \/ Fault([kind |-> "release", value |-> l.holder]) /\ leases' = leases \ {l}
    /\ UNCHANGED <<caching, taken, misled>>

-------------------------------------------------------------------------------
Time == LapseCell \/ LapseLock

Call(c) ==
    \/ Ask(c) \/ Store(c) \/ AskAgain(c) \/ Fails(c)
    \/ \E value \in Made : Load(c, value)

Next ==
    \/ Time
    \/ \E value \in Made \cup {None}, expires \in BOOLEAN : Write(value, expires)
    \/ \E s \in late : ExecuteLate(s) \/ Forget(s)
    \/ \E c \in Callers : Call(c)
    \/ \E h \in Holders : Lock(h) \/ LockFails(h)
    \/ \E l \in leases : Extend(l) \/ Release(l) \/ LeaseFails(l)

Safety == Init /\ [][Next]_vars

\* Time passes for a lock nobody extends: extending does not change it here, so
\* that its holder goes on for ever is not among the behaviours.
Spec == Safety /\ WF_vars(LapseLock)

-------------------------------------------------------------------------------
(* Properties.                                                             *)

\* The values of every variable; a lease's grant is one that was made, and what a
\* loader made is there only while it is being stored.
TypeOK ==
    /\ cell \in [value : Made \cup {None}, expires : BOOLEAN]
    /\ lock \in [value : Holders \cup {None, Free}, expires : BOOLEAN]
    /\ late \subseteq Statements
    /\ faults \in 0 .. Faults /\ taken \in 0 .. Locks /\ grants \in Nat
    /\ leases \subseteq Leases(grants)
    /\ pc \in [Callers -> {"out", "loading", "storing", "again"}]
    /\ made \in [Callers -> Made \cup {None}]
    /\ \A c \in Callers : made[c] # None <=> pc[c] \in {"storing", "again"}
    /\ answer \in [Callers -> Made \cup {None}]
    /\ misled \in BOOLEAN

\* "The first to store wins, and the others answer the winner's value": what
\* get_or_set returns is what the key holds as it returns, or what its own loader
\* made if the key holds nothing.
AnswersAreCurrent ==
    [][\A c \in Callers :
          pc[c] # "out" /\ pc'[c] = "out" /\ answer'[c] # None =>
              \/ answer'[c] = cell'.value
              \/ cell'.value = None /\ answer'[c] = made[c]]_vars

\* A caller told that it holds its lease held it all the while: nobody was given
\* the lock since it was.  "`false` means the lease was already lost", and true
\* that it was not, for a holder of its own.
LeaseUnbroken == ~misled

\* A lease ends with time or by its own holder's release, early or late: not by
\* another's lock, release or extend.
LeaseEndsOfItself ==
    [][\A h \in Holders :
          lock.value = h /\ lock'.value # h =>
              \/ lock' = Absent
              \/ \E l \in leases \ leases' : l.holder = h
              \/ \E s \in late \ late' : s.kind = "release" /\ s.value = h]_vars

\* Whoever took the lock and died, gave it back or never learnt that it had it,
\* it can be taken again.
LockComesFree == []<>(lock = Absent)
==============================================================================
