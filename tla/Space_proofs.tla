----------------------------- MODULE Space_proofs -----------------------------
(* Proofs about Space. *)
EXTENDS Space, TLAPS

\* Fresh holders are taken in order: none is in use that was not asked for.
FreshOnceTaken ==
    /\ \A l \in leases : l.holder \notin Names => l.holder <= taken
    /\ \A s \in late : s.kind = "lock" /\ s.value \notin Names => s.value <= taken

\* A lock asked for under a fresh holder, and not yet executed, gave no lease.
PendingHasNoLease ==
    \A l \in leases, s \in late :
        s.kind = "lock" /\ l.holder \notin Names => s.value # l.holder

\* A fresh holder that has the lock has the last grant of it.
HolderHasLastGrant ==
    \A l \in leases :
        l.holder \notin Names /\ lock.value = l.holder => l.grant = grants

\* What is true of the cached key and its callers.
Caching ==
    /\ cell \in [value : Made \cup {None}, expires : BOOLEAN]
    /\ pc \in [Callers -> {"out", "loading", "storing", "again"}]
    /\ made \in [Callers -> Made \cup {None}]
    /\ answer \in [Callers -> Made \cup {None}]
    /\ \A c \in Callers : made[c] # None <=> pc[c] \in {"storing", "again"}

\* What is true of the lock and its leases.
LockTyped ==
    /\ lock \in [value : Holders \cup {None, Free}, expires : BOOLEAN]
    /\ late \subseteq Statements
    /\ faults \in 0 .. Faults /\ taken \in 0 .. Locks /\ grants \in Nat
    /\ leases \subseteq Leases(grants)
    /\ misled \in BOOLEAN

Locking == LockTyped /\ FreshOnceTaken /\ PendingHasNoLease /\ HolderHasLastGrant
           /\ LeaseUnbroken

-------------------------------------------------------------------------------
(* The store.                                                              *)

\* A fresh holder is a number, and the values a lock has are all different.
LEMMA HoldersApart ==
    /\ None \notin Holders /\ Free \notin Holders /\ None # Free
    /\ \A h \in Holders : h \notin Names => h \in Nat
  BY ConstantsAssumption DEF Holders

\* What a statement does to the two keys.
LEMMA LockExecutes ==
    ASSUME LockTyped, NEW s \in Statements, Executes(s)
    PROVE  /\ lock' \in [value : Holders \cup {None, Free}, expires : BOOLEAN]
           /\ s.kind = "store" => lock' = lock
           /\ s.kind = "extend" => lock'.value = lock.value
           /\ s.kind = "release" => lock'.value \in {lock.value, Free}
           /\ s.kind = "lock" /\ Granted => lock'.value = s.value
           /\ s.kind = "lock" /\ ~Granted => lock' = lock
           /\ grants' = IF s.kind = "lock" /\ Granted THEN grants + 1 ELSE grants
  <1>1. lock \in [value : Holders \cup {None, Free}, expires : BOOLEAN]
    BY DEF LockTyped
  <1>2. grants' = IF s.kind = "lock" /\ Granted THEN grants + 1 ELSE grants
    BY DEF Executes
  <1>3. CASE s.kind = "store"
    <2>1. lock' = lock
      BY <1>3 DEF Executes
    <2>2. QED
      BY <1>1, <1>2, <1>3, <2>1
  <1>4. CASE s.kind \in {"lock", "extend", "release"}
    <2>1. s.value \in Holders
      BY <1>4 DEF Statements
    <2>2. /\ s.kind = "lock" => lock' = Stored(lock, s.value)
          /\ s.kind = "extend" => lock' = Extended(s.value)
          /\ s.kind = "release" => lock' = Freed(s.value)
      BY DEF Executes
    <2>3. /\ Key(s.value, TRUE) \in [value : Holders \cup {None, Free}, expires : BOOLEAN]
          /\ Key(Free, TRUE) \in [value : Holders \cup {None, Free}, expires : BOOLEAN]
          /\ Key(s.value, TRUE).value = s.value /\ Key(Free, TRUE).value = Free
      BY <2>1 DEF Key
    <2>4. lock' \in {lock, Key(s.value, TRUE), Key(Free, TRUE)}
      BY <1>4, <2>2 DEF Stored, Extended, Freed
    <2>5. lock' \in [value : Holders \cup {None, Free}, expires : BOOLEAN]
      BY <1>1, <2>3, <2>4
    <2>6. CASE s.kind = "lock"
      BY <1>2, <2>2, <2>3, <2>5, <2>6 DEF Stored, Granted
    <2>7. CASE s.kind = "extend"
      BY <1>2, <2>2, <2>3, <2>5, <2>7 DEF Extended
    <2>8. CASE s.kind = "release"
      BY <1>2, <2>2, <2>3, <2>5, <2>8 DEF Freed
    <2>9. QED
      BY <1>4, <2>6, <2>7, <2>8
  <1>5. QED
    BY <1>3, <1>4 DEF Statements

\* And to the cached key.
LEMMA CellExecutes ==
    ASSUME Caching, NEW s \in Statements, Executes(s)
    PROVE  cell' \in [value : Made \cup {None}, expires : BOOLEAN]
  <1>1. CASE s.kind = "store"
    <2>1. s.value \in Made
      BY <1>1 DEF Statements
    <2>2. QED
      BY <1>1, <2>1 DEF Executes, Stored, Key, Caching
  <1>2. CASE s.kind # "store"
    BY <1>2 DEF Executes, Caching
  <1>3. QED
    BY <1>1, <1>2

-------------------------------------------------------------------------------
(* The cached key.                                                         *)

\* The ends of a call of get_or_set.
LEMMA ReturnCaching ==
    ASSUME Caching, NEW c \in Callers, NEW value \in Made \cup {None}, Return(c, value),
           cell' \in [value : Made \cup {None}, expires : BOOLEAN]
    PROVE  Caching'
  BY DEF Caching, Return

\* A call of get_or_set goes on.
LEMMA CallCaching ==
    ASSUME Caching, NEW c \in Callers, Call(c)
    PROVE  Caching'
  <1>1. cell.value \in Made \cup {None} /\ made[c] \in Made \cup {None}
    BY DEF Caching
  <1>2. CASE Ask(c)
    <2>1. cell' = cell
      BY <1>2 DEF Ask, store
    <2>2. CASE cell.value # None
      BY <1>1, <1>2, <2>1, <2>2, ReturnCaching DEF Ask, Caching
    <2>3. CASE cell.value = None
      BY <1>2, <2>1, <2>3 DEF Ask, GoOn, Caching
    <2>4. QED
      BY <2>2, <2>3
  <1>3. CASE \E value \in Made : Load(c, value)
    BY <1>3, ConstantsAssumption DEF Load, store, Caching
  <1>4. CASE Store(c)
    <2>1. made[c] \in Made
      BY <1>4 DEF Store, Caching
    <2>2. [kind |-> "store", value |-> made[c]] \in Statements
      BY <2>1 DEF Statements
    <2>3. cell' \in [value : Made \cup {None}, expires : BOOLEAN]
      BY <1>4, <2>2, CellExecutes DEF Store
    <2>4. CASE cell = Absent
      BY <1>1, <1>4, <2>3, <2>4, ReturnCaching DEF Store
    <2>5. CASE cell # Absent
      BY <1>4, <2>3, <2>5 DEF Store, GoOn, Caching
    <2>6. QED
      BY <2>4, <2>5
  <1>5. CASE AskAgain(c)
    <2>1. cell' = cell /\ Winner(c) \in Made \cup {None}
      BY <1>1, <1>5 DEF AskAgain, store, Winner
    <2>2. QED
      BY <1>5, <2>1, ReturnCaching DEF AskAgain, Caching
  <1>6. CASE Fails(c)
    <2>1. cell' = cell
      BY <1>6 DEF Fails, Fault, store
    <2>2. QED
      BY <1>6, <2>1, ReturnCaching DEF Fails, Caching
  <1>7. QED
    BY <1>2, <1>3, <1>4, <1>5, <1>6 DEF Call

\* Every other step leaves the callers alone.
LEMMA NextCaching ==
    ASSUME Caching, LockTyped, [Next]_vars
    PROVE  Caching'
  <1>1. CASE \E c \in Callers : Call(c)
    BY <1>1, CallCaching
  <1>2. ASSUME UNCHANGED caching, cell' \in [value : Made \cup {None}, expires : BOOLEAN]
        PROVE  Caching'
    BY <1>2 DEF Caching, caching
  <1>3. ASSUME UNCHANGED caching, NEW s \in Statements, Executes(s)
        PROVE  Caching'
    BY <1>2, <1>3, CellExecutes
  <1>4. CASE Time
    <2>1. UNCHANGED caching /\ cell' \in {cell, Absent}
      BY <1>4 DEF Time, LapseCell, LapseLock
    <2>2. Absent \in [value : Made \cup {None}, expires : BOOLEAN]
      BY DEF Absent
    <2>3. QED
      BY <1>2, <2>1, <2>2 DEF Caching
  <1>5. CASE \E value \in Made \cup {None}, expires \in BOOLEAN : Write(value, expires)
    BY <1>2, <1>5 DEF Write, Absent, Key
  <1>6. CASE \E s \in late : ExecuteLate(s) \/ Forget(s)
    BY <1>2, <1>3, <1>6 DEF ExecuteLate, Forget, LockTyped, Caching
  <1>7. CASE \E h \in Holders : Lock(h) \/ LockFails(h)
    <2>1. \A h \in Holders : [kind |-> "lock", value |-> h] \in Statements
      BY DEF Statements
    <2>2. QED
      BY <1>2, <1>3, <1>7, <2>1 DEF Lock, LockFails, Fault, Caching
  <1>8. CASE \E l \in leases : Extend(l) \/ Release(l) \/ LeaseFails(l)
    <2>1. \A l \in leases : /\ [kind |-> "extend", value |-> l.holder] \in Statements
                            /\ [kind |-> "release", value |-> l.holder] \in Statements
      BY DEF Statements, LockTyped, Leases
    <2>2. QED
      BY <1>2, <1>3, <1>8, <2>1 DEF Extend, Release, LeaseFails, Fault, Caching
  <1>9. CASE UNCHANGED vars
    BY <1>2, <1>9 DEF vars, store, Caching
  <1>10. QED
    BY <1>1, <1>4, <1>5, <1>6, <1>7, <1>8, <1>9 DEF Next

-------------------------------------------------------------------------------
(* The lock.                                                               *)

\* A step that grants no lock, gives no lease and lets no lock be asked for.
LEMMA LockingKept ==
    ASSUME Locking,
           lock' \in [value : Holders \cup {None, Free}, expires : BOOLEAN],
           lock'.value \in {lock.value, None, Free},
           late' \subseteq Statements, faults' \in 0 .. Faults,
           \A s \in late' : s.kind = "lock" => s \in late,
           UNCHANGED <<grants, taken, misled>>, leases' \subseteq leases
    PROVE  Locking'
  <1>1. LockTyped'
    BY DEF Locking, LockTyped, Leases
  <1>2. FreshOnceTaken' /\ PendingHasNoLease'
    BY DEF Locking, FreshOnceTaken, PendingHasNoLease
  <1>3. HolderHasLastGrant'
    <2>1. ASSUME NEW l \in leases', l.holder \notin Names, lock'.value = l.holder
          PROVE  l.grant = grants
      <3>1. l.holder \in Holders
        BY DEF Locking, LockTyped, Leases
      <3>2. lock.value = l.holder
        BY <2>1, <3>1, HoldersApart
      <3>3. QED
        BY <2>1, <3>2 DEF Locking, HolderHasLastGrant
    <2>2. QED
      BY <2>1 DEF HolderHasLastGrant
  <1>4. LeaseUnbroken'
    BY DEF Locking, LeaseUnbroken
  <1>5. QED
    BY <1>1, <1>2, <1>3, <1>4 DEF Locking

\* The same for a step at the cached key, which leaves the lock as it is.
LEMMA CallLocking ==
    ASSUME Locking, Caching, NEW c \in Callers, Call(c)
    PROVE  Locking'
  <1>1. /\ lock \in [value : Holders \cup {None, Free}, expires : BOOLEAN]
        /\ late \subseteq Statements /\ faults \in 0 .. Faults
    BY DEF Locking, LockTyped
  <1>2. Faults \in Nat
    BY ConstantsAssumption
  <1>3. UNCHANGED <<lock, grants, locking>>
    <2>1. CASE Store(c)
      <3>1. made[c] \in Made
        BY <2>1 DEF Store, Caching
      <3>2. [kind |-> "store", value |-> made[c]] \in Statements
        BY <3>1 DEF Statements
      <3>3. lock' = lock /\ grants' = grants
        BY <2>1, <3>2, LockExecutes DEF Store, Locking
      <3>4. QED
        BY <2>1, <3>3 DEF Store
    <2>2. CASE ~Store(c)
      BY <2>2 DEF Call, Ask, Load, AskAgain, Fails, Fault, store
    <2>3. QED
      BY <2>1, <2>2
  <1>4. /\ faults' \in 0 .. Faults /\ late' \subseteq Statements
        /\ \A s \in late' : s.kind = "lock" => s \in late
    <2>1. CASE Fails(c)
      <3>1. CASE UNCHANGED store
        BY <1>1, <1>2, <2>1, <3>1 DEF Fails, Fault, store
      <3>2. CASE pc[c] = "storing" /\ Fault([kind |-> "store", value |-> made[c]])
        <4>1. made[c] \in Made
          BY <3>2 DEF Caching
        <4>2. [kind |-> "store", value |-> made[c]] \in Statements
          BY <4>1 DEF Statements
        <4>3. QED
          BY <1>1, <1>2, <3>2, <4>2 DEF Fault
      <3>3. QED
        BY <2>1, <3>1, <3>2 DEF Fails
    <2>2. CASE ~Fails(c)
      BY <1>1, <2>2 DEF Call, Ask, Load, Store, AskAgain, store
    <2>3. QED
      BY <2>1, <2>2
  <1>5. QED
    BY <1>1, <1>3, <1>4, LockingKept DEF locking

\* The lock is granted, to whom no lease of a fresh holder and no statement that
\* asks for the lock belongs.
LEMMA LockingGranted ==
    ASSUME Locking, NEW h \in Holders,
           lock' \in [value : Holders \cup {None, Free}, expires : BOOLEAN],
           lock'.value = h, grants' = grants + 1, UNCHANGED <<faults, misled>>,
           taken' \in 0 .. Locks, taken <= taken',
           late' \subseteq late,
           leases' \subseteq leases \cup {[holder |-> h, grant |-> grants']},
           h \notin Names =>
               /\ h <= taken'
               /\ \A l \in leases : l.holder # h
               /\ \A s \in late' : s.kind = "lock" => s.value # h
    PROVE  Locking'
  <1> DEFINE given == [holder |-> h, grant |-> grants']
  <1>1. /\ given.holder = h /\ given.grant = grants'
        /\ \A l \in leases' : l \in leases \/ l = given
    OBVIOUS
  <1>2. grants \in Nat /\ grants' \in Nat /\ taken \in Nat /\ taken' \in Nat
    BY ConstantsAssumption DEF Locking, LockTyped
  <1>3. \A l \in leases : l \in Leases(grants) /\ l.holder \in Holders /\ l.grant \in 1 .. grants
    BY DEF Locking, LockTyped, Leases
  <1>4. LockTyped'
    <2>1. given \in Leases(grants')
      BY <1>2 DEF Leases
    <2>2. Leases(grants) \subseteq Leases(grants')
      BY <1>2 DEF Leases
    <2>3. QED
      BY <1>1, <1>2, <2>1, <2>2 DEF Locking, LockTyped, Leases
  <1>5. FreshOnceTaken'
    <2>1. ASSUME NEW l \in leases', l.holder \notin Names
          PROVE  l.holder <= taken'
      <3>1. CASE l \in leases
        <4>1. l.holder <= taken /\ l.holder \in Nat
          BY <1>3, <2>1, <3>1, HoldersApart DEF Locking, FreshOnceTaken
        <4>2. QED
          BY <1>2, <4>1
      <3>2. CASE l = given
        BY <1>1, <2>1, <3>2
      <3>3. QED
        BY <1>1, <3>1, <3>2
    <2>2. ASSUME NEW s \in late', s.kind = "lock", s.value \notin Names
          PROVE  s.value <= taken'
      <3>1. s.value \in Nat
        BY <2>2, HoldersApart DEF Locking, LockTyped, Statements
      <3>2. s.value <= taken
        BY <2>2 DEF Locking, FreshOnceTaken
      <3>3. QED
        BY <1>2, <3>1, <3>2
    <2>3. QED
      BY <2>1, <2>2 DEF FreshOnceTaken
  <1>6. PendingHasNoLease'
    BY <1>1 DEF Locking, PendingHasNoLease
  <1>7. HolderHasLastGrant'
    BY <1>1 DEF HolderHasLastGrant
  <1>8. LeaseUnbroken'
    BY DEF Locking, LeaseUnbroken
  <1>9. QED
    BY <1>4, <1>5, <1>6, <1>7, <1>8 DEF Locking

\* A lock asked for and not granted only spends a fresh holder.
LEMMA MoreTaken ==
    ASSUME Locking, taken' \in 0 .. Locks, taken <= taken',
           UNCHANGED <<lock, late, faults, leases, grants, misled>>
    PROVE  Locking'
  <1>1. taken \in Nat /\ taken' \in Nat
    BY ConstantsAssumption DEF Locking, LockTyped
  <1>2. LockTyped' /\ PendingHasNoLease' /\ HolderHasLastGrant' /\ LeaseUnbroken'
    BY DEF Locking, LockTyped, PendingHasNoLease, HolderHasLastGrant, LeaseUnbroken
  <1>3. FreshOnceTaken'
    <2>1. /\ \A l \in leases : l.holder \notin Names => l.holder \in Nat
          /\ \A s \in late : s.kind = "lock" /\ s.value \notin Names => s.value \in Nat
      BY HoldersApart DEF Locking, LockTyped, Leases, Statements
    <2>2. QED
      BY <1>1, <2>1 DEF Locking, FreshOnceTaken
  <1>4. QED
    BY <1>2, <1>3 DEF Locking

\* A lock is asked for, and the answer comes or is lost.
LEMMA AskedLocking ==
    ASSUME Locking, NEW h \in Holders, Lock(h) \/ LockFails(h)
    PROVE  Locking'
  <1> DEFINE s == [kind |-> "lock", value |-> h]
  <1>1. s \in Statements /\ s.kind = "lock" /\ s.value = h
    BY DEF Statements
  <1>2. /\ lock \in [value : Holders \cup {None, Free}, expires : BOOLEAN]
        /\ late \subseteq Statements /\ faults \in 0 .. Faults /\ grants \in Nat
        /\ taken \in Nat /\ Faults \in Nat /\ Locks \in Nat
    BY ConstantsAssumption DEF Locking, LockTyped
  <1>3. taken' = taken + 1 /\ taken' \in 0 .. Locks /\ taken <= taken'
    BY <1>2 DEF Lock, LockFails
  <1>4. h \notin Names => h = taken + 1
    BY DEF Lock, LockFails, Asking, FreshHolder
  <1>5. h \notin Names => /\ \A l \in leases : l.holder # h
                          /\ \A t \in late : t.kind = "lock" => t.value # h
    <2>1. ASSUME h \notin Names, NEW l \in leases PROVE l.holder # h
      <3>1. l.holder \in Holders
        BY DEF Locking, LockTyped, Leases
      <3>2. l.holder \notin Names => l.holder \in Nat /\ l.holder <= taken
        BY <3>1, HoldersApart DEF Locking, FreshOnceTaken
      <3>3. QED
        BY <1>2, <1>4, <2>1, <3>2
    <2>2. ASSUME h \notin Names, NEW t \in late, t.kind = "lock" PROVE t.value # h
      <3>1. t.value \in Holders
        BY <1>2, <2>2 DEF Statements
      <3>2. t.value \notin Names => t.value \in Nat /\ t.value <= taken
        BY <2>2, <3>1, HoldersApart DEF Locking, FreshOnceTaken
      <3>3. QED
        BY <1>2, <1>4, <2>2, <3>2
    <2>3. QED
      BY <2>1, <2>2
  <1>6. CASE Lock(h)
    <2>1. Executes(s)
      BY <1>6 DEF Lock
    <2>2. UNCHANGED <<late, faults, misled>>
      BY <1>6 DEF Lock
    <2>3. CASE Granted
      <3>1. lock'.value = h /\ grants' = grants + 1
            /\ lock' \in [value : Holders \cup {None, Free}, expires : BOOLEAN]
        BY <1>1, <2>1, <2>3, LockExecutes DEF Locking
      <3>2. leases' = leases \cup {[holder |-> h, grant |-> grants']}
        BY <1>6, <2>3 DEF Lock
      <3>3. h \notin Names => h <= taken'
        BY <1>2, <1>3, <1>4
      <3>4. QED
        BY <1>3, <1>5, <2>2, <3>1, <3>2, <3>3, LockingGranted
    <2>4. CASE ~Granted
      <3>1. UNCHANGED <<lock, grants, leases>>
        BY <1>1, <1>6, <2>1, <2>4, LockExecutes DEF Locking, Lock
      <3>2. QED
        BY <1>2, <1>3, <2>2, <3>1, MoreTaken
    <2>5. QED
      BY <2>3, <2>4
  <1>7. CASE LockFails(h)
    <2>1. /\ UNCHANGED <<lock, grants, leases, misled>>
          /\ faults' \in 0 .. Faults /\ late' \subseteq late \cup {s}
      BY <1>2, <1>7 DEF LockFails, Fault
    <2>2. LockTyped'
      BY <1>1, <1>2, <1>3, <2>1 DEF Locking, LockTyped
    <2>3. FreshOnceTaken'
      <3>1. ASSUME NEW l \in leases, l.holder \notin Names
            PROVE  l.holder <= taken'
        <4>1. l.holder \in Nat
          BY <3>1, HoldersApart DEF Locking, LockTyped, Leases
        <4>2. l.holder <= taken
          BY <3>1 DEF Locking, FreshOnceTaken
        <4>3. QED
          BY <1>2, <1>3, <4>1, <4>2
      <3>2. ASSUME NEW t \in late', t.kind = "lock", t.value \notin Names
            PROVE  t.value <= taken'
        <4>1. CASE t = s
          BY <1>1, <1>2, <1>3, <1>4, <3>2, <4>1
        <4>2. CASE t \in late
          <5>1. t.value \in Nat
            BY <1>2, <3>2, <4>2, HoldersApart DEF Statements
          <5>2. t.value <= taken
            BY <3>2, <4>2 DEF Locking, FreshOnceTaken
          <5>3. QED
            BY <1>2, <1>3, <5>1, <5>2
        <4>3. QED
          BY <2>1, <4>1, <4>2
      <3>3. QED
        BY <2>1, <3>1, <3>2 DEF FreshOnceTaken
    <2>4. PendingHasNoLease'
      BY <1>1, <1>5, <2>1 DEF Locking, PendingHasNoLease
    <2>5. HolderHasLastGrant' /\ LeaseUnbroken'
      BY <2>1 DEF Locking, HolderHasLastGrant, LeaseUnbroken
    <2>6. QED
      BY <2>2, <2>3, <2>4, <2>5 DEF Locking
  <1>8. QED
    BY <1>6, <1>7

\* A lease is extended or given back, and the answer comes or is lost: a caller
\* told that a fresh holder has the lock has the last grant of it.
LEMMA LeaseLocking ==
    ASSUME Locking, NEW l \in leases, Extend(l) \/ Release(l) \/ LeaseFails(l)
    PROVE  Locking'
  <1>1. /\ lock \in [value : Holders \cup {None, Free}, expires : BOOLEAN]
        /\ late \subseteq Statements /\ faults \in 0 .. Faults /\ Faults \in Nat
        /\ l.holder \in Holders
    BY ConstantsAssumption DEF Locking, LockTyped, Leases
  <1> DEFINE extend  == [kind |-> "extend", value |-> l.holder]
             release == [kind |-> "release", value |-> l.holder]
  <1>2. /\ extend \in Statements /\ extend.kind = "extend"
        /\ release \in Statements /\ release.kind = "release"
    BY <1>1 DEF Statements
  <1>3. ASSUME Told(l) PROVE misled' = misled
    <2>1. ~(Held(l) /\ l.holder \notin Names /\ l.grant # grants)
      BY DEF Held, Locking, HolderHasLastGrant
    <2>2. misled = FALSE
      BY DEF Locking, LockTyped, LeaseUnbroken
    <2>3. misled' = FALSE
      BY <1>3, <2>1, <2>2 DEF Told
    <2>4. QED
      BY <2>2, <2>3
  <1>4. CASE Extend(l)
    <2>1. /\ UNCHANGED <<late, faults, taken, leases, misled>>
          /\ Executes(extend)
      BY <1>3, <1>4 DEF Extend
    <2>2. /\ grants' = grants /\ lock'.value = lock.value
          /\ lock' \in [value : Holders \cup {None, Free}, expires : BOOLEAN]
      BY <1>2, <2>1, LockExecutes DEF Locking
    <2>3. QED
      BY <1>1, <2>1, <2>2, LockingKept
  <1>5. CASE Release(l)
    <2>1. /\ UNCHANGED <<late, faults, taken, misled>>
          /\ leases' \subseteq leases /\ Executes(release)
      BY <1>3, <1>5 DEF Release
    <2>2. /\ grants' = grants /\ lock'.value \in {lock.value, Free}
          /\ lock' \in [value : Holders \cup {None, Free}, expires : BOOLEAN]
      BY <1>2, <2>1, LockExecutes DEF Locking
    <2>3. QED
      BY <1>1, <2>1, <2>2, LockingKept
  <1>6. CASE LeaseFails(l)
    <2>1. /\ UNCHANGED <<lock, grants, taken, misled>>
          /\ leases' \subseteq leases /\ faults' \in 0 .. Faults
          /\ late' \subseteq late \cup {extend, release}
      BY <1>1, <1>6 DEF LeaseFails, Fault
    <2>2. /\ late' \subseteq Statements
          /\ \A s \in late' : s.kind = "lock" => s \in late
      BY <1>1, <1>2, <2>1
    <2>3. QED
      BY <1>1, <2>1, <2>2, LockingKept
  <1>7. QED
    BY <1>4, <1>5, <1>6

\* A statement executed late: a lock granted by one was given to nobody, and its
\* fresh holder is in no lease.
LEMMA LateLocking ==
    ASSUME Locking, NEW s \in late, ExecuteLate(s) \/ Forget(s)
    PROVE  Locking'
  <1>1. /\ lock \in [value : Holders \cup {None, Free}, expires : BOOLEAN]
        /\ late \subseteq Statements /\ faults \in 0 .. Faults
        /\ s \in Statements /\ late' = late \ {s}
        /\ taken \in 0 .. Locks
    BY DEF Locking, LockTyped, ExecuteLate, Forget
  <1>2. UNCHANGED <<faults, taken, leases, misled>>
    BY DEF ExecuteLate, Forget, locking
  <1>3. CASE Forget(s)
    <2>1. UNCHANGED <<lock, grants>>
      BY <1>3 DEF Forget
    <2>2. QED
      BY <1>1, <1>2, <2>1, LockingKept
  <1>4. CASE ExecuteLate(s) /\ s.kind = "lock" /\ Granted
    <2>1. /\ lock'.value = s.value /\ grants' = grants + 1
          /\ lock' \in [value : Holders \cup {None, Free}, expires : BOOLEAN]
      BY <1>1, <1>4, LockExecutes DEF ExecuteLate, Locking
    <2>2. s.value \in Holders
      BY <1>1, <1>4 DEF Statements
    <2>3. \A t \in late' : t.kind = "lock" => t.value # s.value
      <3>1. \A t \in Statements : t.kind = "lock" => t = [kind |-> "lock", value |-> t.value]
        BY DEF Statements
      <3>2. QED
        BY <1>1, <1>4, <3>1
    <2>4. s.value \notin Names => s.value <= taken' /\ \A l \in leases : l.holder # s.value
      BY <1>2, <1>4 DEF Locking, FreshOnceTaken, PendingHasNoLease
    <2>5. taken' \in 0 .. Locks /\ taken <= taken'
      BY <1>1, <1>2, ConstantsAssumption
    <2>6. QED
      BY <1>1, <1>2, <2>1, <2>2, <2>3, <2>4, <2>5, LockingGranted
  <1>5. CASE ExecuteLate(s) /\ ~(s.kind = "lock" /\ Granted)
    <2>1. /\ grants' = grants /\ lock'.value \in {lock.value, Free}
          /\ lock' \in [value : Holders \cup {None, Free}, expires : BOOLEAN]
      BY <1>1, <1>5, LockExecutes DEF ExecuteLate, Locking, Statements
    <2>2. QED
      BY <1>1, <1>2, <2>1, LockingKept
  <1>6. QED
    BY <1>3, <1>4, <1>5

LEMMA NextLocking ==
    ASSUME Locking, Caching, [Next]_vars
    PROVE  Locking'
  <1>1. /\ lock \in [value : Holders \cup {None, Free}, expires : BOOLEAN]
        /\ late \subseteq Statements /\ faults \in 0 .. Faults
    BY DEF Locking, LockTyped
  <1>2. CASE \/ Time \/ UNCHANGED vars
             \/ \E value \in Made \cup {None}, expires \in BOOLEAN : Write(value, expires)
    <2>1. UNCHANGED <<late, grants, faults, taken, leases, misled>> /\ lock' \in {lock, Absent}
      BY <1>2 DEF Time, LapseCell, LapseLock, Write, vars, store, locking
    <2>2. /\ Absent \in [value : Holders \cup {None, Free}, expires : BOOLEAN]
          /\ Absent.value = None
      BY DEF Absent
    <2>3. QED
      BY <1>1, <2>1, <2>2, LockingKept DEF Locking
  <1>3. QED
    BY <1>2, CallLocking, LateLocking, AskedLocking, LeaseLocking DEF Next

-------------------------------------------------------------------------------
(* The theorems.                                                           *)

LEMMA AlwaysInductive == Safety => [](Caching /\ Locking)
  <1>1. Init => Caching /\ Locking
    <2> SUFFICES ASSUME Init PROVE Caching /\ Locking
      OBVIOUS
    <2>1. Caching
      <3>1. cell \in [value : Made \cup {None}, expires : BOOLEAN]
        BY DEF Init, Absent
      <3>2. /\ pc = [c \in Callers |-> "out"]
            /\ made = [c \in Callers |-> None] /\ answer = [c \in Callers |-> None]
        BY DEF Init
      <3>3. QED
        BY <3>1, <3>2 DEF Caching
    <2>2. LockTyped
      <3>1. lock \in [value : Holders \cup {None, Free}, expires : BOOLEAN]
        BY DEF Init, Absent
      <3>2. faults \in 0 .. Faults /\ taken \in 0 .. Locks /\ grants \in Nat
        BY ConstantsAssumption DEF Init
      <3>3. late = {} /\ leases = {} /\ misled \in BOOLEAN
        BY DEF Init
      <3>4. QED
        BY <3>1, <3>2, <3>3 DEF LockTyped
    <2>3. FreshOnceTaken /\ PendingHasNoLease /\ HolderHasLastGrant /\ LeaseUnbroken
      BY DEF Init, FreshOnceTaken, PendingHasNoLease, HolderHasLastGrant, LeaseUnbroken
    <2>4. QED
      BY <2>1, <2>2, <2>3 DEF Locking
  <1>2. Caching /\ Locking /\ [Next]_vars => Caching' /\ Locking'
    BY NextCaching, NextLocking DEF Locking
  <1>3. QED
    BY <1>1, <1>2, PTL DEF Safety

\* The variables of a space keep their types, for every number of callers, locks and
\* faults; what a loader made is kept just while it is being stored (cache.rs).
THEOREM Typed == Safety => []TypeOK
  <1>1. Caching /\ Locking => TypeOK
    BY DEF Caching, Locking, LockTyped, TypeOK
  <1>2. QED
    BY <1>1, AlwaysInductive, PTL

\* Whoever is told by `extend` or `release` that it held its lease, under a fresh
\* holder, held it all the while, whatever calls were lost or executed late.
THEOREM LeasesUnbroken == Safety => []LeaseUnbroken
  <1>1. Locking => LeaseUnbroken
    BY DEF Locking
  <1>2. QED
    BY <1>1, AlwaysInductive, PTL

\* What get_or_set answers is what the key holds then, or what its own loader made
\* if the key holds nothing (`get_or_set`).
THEOREM GetOrSetAnswers == Safety => AnswersAreCurrent
  <1>1. ASSUME Caching, Locking, [Next]_vars, NEW c \in Callers,
               pc[c] # "out", pc'[c] = "out", answer'[c] # None
        PROVE  answer'[c] = cell'.value \/ (cell'.value = None /\ answer'[c] = made[c])
    <2>1. PICK d \in Callers : Call(d)
      <3>1. pc' # pc
        BY <1>1
      <3>2. QED
        BY <1>1, <3>1
        DEF Next, vars, caching, Time, LapseCell, LapseLock, Write, ExecuteLate, Forget,
            Lock, LockFails, Extend, Release, LeaseFails
    <2>2. pc \in [Callers -> {"out", "loading", "storing", "again"}]
          /\ answer \in [Callers -> Made \cup {None}]
      BY <1>1 DEF Caching
    <2>3. d = c
      BY <1>1, <2>1, <2>2 DEF Call, Ask, Load, Store, AskAgain, Fails, Return, GoOn
    <2>4. CASE Store(c)
      <3>1. cell = Absent /\ answer'[c] = made[c]
        BY <1>1, <2>2, <2>4 DEF Store, Return, GoOn
      <3>2. cell'.value = made[c]
        BY <2>4, <3>1 DEF Store, Executes, Stored, Key
      <3>3. QED
        BY <3>1, <3>2
    <2>5. CASE AskAgain(c)
      BY <1>1, <2>2, <2>5 DEF AskAgain, Return, Winner, store
    <2>6. CASE Fails(c)
      BY <1>1, <2>2, <2>6 DEF Fails, Return
    <2>7. CASE Ask(c) \/ \E value \in Made : Load(c, value)
      BY <1>1, <2>2, <2>7 DEF Ask, Load
    <2>8. QED
      BY <2>1, <2>3, <2>4, <2>5, <2>6, <2>7 DEF Call
  <1>2. Caching /\ Locking /\ [Next]_vars =>
          [\A c \in Callers :
              pc[c] # "out" /\ pc'[c] = "out" /\ answer'[c] # None =>
                  \/ answer'[c] = cell'.value
                  \/ cell'.value = None /\ answer'[c] = made[c]]_vars
    BY <1>1
  <1>3. QED
    BY <1>2, AlwaysInductive, PTL DEF Safety, AnswersAreCurrent

\* A holder loses the lock to time or to its own release and to nothing else
\* (`lock`, `extend`, `release`).
THEOREM LeasesEndOfThemselves == Safety => LeaseEndsOfItself
  <1>1. ASSUME Caching, Locking, [Next]_vars, NEW h \in Holders, lock.value = h, lock'.value # h
        PROVE  \/ lock' = Absent
               \/ \E l \in leases \ leases' : l.holder = h
               \/ \E s \in late \ late' : s.kind = "release" /\ s.value = h
    <2>1. LockTyped /\ ~Granted
      BY <1>1, HoldersApart DEF Locking, Granted, Absent
    <2>2. ASSUME NEW s \in Statements, Executes(s)
          PROVE  s.kind = "release" /\ s.value = h
      <3>1. s.kind = "release"
        BY <1>1, <2>1, <2>2, LockExecutes DEF Statements
      <3>2. lock' = Freed(s.value)
        BY <2>2, <3>1 DEF Executes
      <3>3. QED
        BY <1>1, <3>1, <3>2 DEF Freed
    <2>3. lock' # lock
      BY <1>1
    <2>4. CASE Time \/ UNCHANGED vars
      BY <2>3, <2>4 DEF Time, LapseCell, LapseLock, vars, store
    <2>5. CASE \E value \in Made \cup {None}, expires \in BOOLEAN : Write(value, expires)
      BY <2>3, <2>5 DEF Write
    <2>6. CASE \E s \in late : ExecuteLate(s) \/ Forget(s)
      <3>1. PICK s \in late : ExecuteLate(s)
        BY <2>3, <2>6 DEF Forget
      <3>2. s \in late \ late' /\ s \in Statements
        BY <2>1, <3>1 DEF ExecuteLate, LockTyped
      <3>3. QED
        BY <2>2, <3>1, <3>2 DEF ExecuteLate
    <2>7. CASE \E c \in Callers : Call(c)
      <3>1. PICK c \in Callers : Call(c)
        BY <2>7
      <3>2. Store(c)
        BY <2>3, <3>1 DEF Call, Ask, Load, AskAgain, Fails, Fault, store
      <3>3. [kind |-> "store", value |-> made[c]] \in Statements
        BY <1>1, <3>2 DEF Store, Caching, Statements
      <3>4. QED
        BY <2>2, <3>2, <3>3 DEF Store
    <2>8. CASE \E k \in Holders : Lock(k) \/ LockFails(k)
      <3>1. PICK k \in Holders : Lock(k)
        BY <2>3, <2>8 DEF LockFails, Fault
      <3>2. [kind |-> "lock", value |-> k] \in Statements
        BY DEF Statements
      <3>3. QED
        BY <2>2, <3>1, <3>2 DEF Lock
    <2>9. CASE \E l \in leases : Extend(l) \/ Release(l) \/ LeaseFails(l)
      <3>1. PICK l \in leases : Extend(l) \/ Release(l)
        BY <2>3, <2>9 DEF LeaseFails, Fault
      <3>2. l.holder \in Holders
        BY <2>1 DEF LockTyped, Leases
      <3>3. /\ [kind |-> "extend", value |-> l.holder] \in Statements
            /\ [kind |-> "release", value |-> l.holder] \in Statements
        BY <3>2 DEF Statements
      <3>4. CASE Extend(l)
        BY <2>2, <3>3, <3>4 DEF Extend
      <3>5. CASE Release(l)
        BY <2>2, <3>3, <3>5 DEF Release
      <3>6. QED
        BY <3>1, <3>4, <3>5
    <2>10. QED
      BY <1>1, <2>4, <2>5, <2>6, <2>7, <2>8, <2>9 DEF Next
  <1>2. Caching /\ Locking /\ [Next]_vars =>
          [\A h \in Holders :
              lock.value = h /\ lock'.value # h =>
                  \/ lock' = Absent
                  \/ \E l \in leases \ leases' : l.holder = h
                  \/ \E s \in late \ late' : s.kind = "release" /\ s.value = h]_vars
    BY <1>1
  <1>3. QED
    BY <1>2, AlwaysInductive, PTL DEF Safety, LeaseEndsOfItself
==============================================================================
