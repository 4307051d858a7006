--------------------------- MODULE SlotLockProofs ---------------------------
(***************************************************************************)
(* Theorems about Library for any borrowers, pools and times to live, and  *)
(* about Locks for any number of requests and of instances that start:     *)
(* which circles of waiting transactions there can be in the tables of the *)
(* inboxes.                                                                *)
(***************************************************************************)
EXTENDS Library, FiniteSetTheorems, TLAPS

\* What Locks is about: see there.
CONSTANTS Enqueues, Claims, Acks, Releases, Starts, Keys, Ids, InboxOf
VARIABLES rows, present, stage, inboxes, todo, want, locked

Lock == INSTANCE Locks WITH held <- locked

-----------------------------------------------------------------------------
(* The pool of slots *)

\* Who looks for a slot or inserts a lease holds the lock of the row.
LockHeld ==
  \A p \in Borrowers : req[p].pc \in {"locked", "insert"} <=> lock = p

\* The slot a transaction has chosen is in the pool, and nobody who is not over
\* for it has it.
ChoiceFree ==
  \A p \in Borrowers : req[p].pc = "insert" =>
    /\ req[p].slot \in 0..(count - 1)
    /\ \A l \in leases \ Expired(p) : l.position # req[p].slot

\* The pool has been as large as it is and as its leases need.
PeakCovers ==
  /\ count <= peak
  /\ \A l \in leases : l.position < peak

IInv == TypeOK /\ LockHeld /\ ChoiceFree /\ PeakCovers /\ OnePerSlot

\* A set of integers with a lower bound has a lowest member.
LEMMA LowestIn ==
  ASSUME NEW S, NEW a \in Int, S # {}, \A x \in S : x \in Int /\ a <= x
  PROVE  Lowest(S) \in S /\ \A x \in S : Lowest(S) <= x
<1> DEFINE T == {x - a : x \in S}
<1>1. T \subseteq Nat /\ T # {}
  OBVIOUS
<1>2. \E m \in T : \A n \in T : ~ (<<n, m>> \in OpToRel(<, Nat))
  BY <1>1, WFMin, NatLessThanWellFounded, Zenon
<1>3. \A m, n \in Nat : ~ (<<n, m>> \in OpToRel(<, Nat)) => m <= n
  BY DEF OpToRel
<1>4. PICK m \in T : \A n \in T : m <= n
  BY <1>1, <1>2, <1>3
<1>5. \A x \in S : x - a \in T
  OBVIOUS
<1>6. PICK x \in S : m = x - a
  BY <1>4
<1>7. ASSUME NEW y \in S
      PROVE  x <= y
  <2>1. x - a <= y - a
    BY <1>4, <1>5, <1>6
  <2> QED
    BY <2>1
<1> QED
  BY <1>7 DEF Lowest

LEMMA InitIInv ==
  ASSUME LibraryAssumption, Init
  PROVE  IInv
<1> USE DEF LibraryAssumption, Init, Idle
<1>1. req \in [Borrowers -> [pc : ReqPC, age : 0..MaxAge, slot : Nat]]
  BY DEF ReqPC
<1>2. alarm \in [Borrowers -> 0..NoAlarm]
  BY DEF NoAlarm
<1>3. TypeOK
  BY <1>1, <1>2 DEF TypeOK
<1> QED
  BY <1>3 DEF IInv, LockHeld, ChoiceFree, PeakCovers, OnePerSlot

-----------------------------------------------------------------------------
(* What a step must do to keep the invariant. *)

\* A request that neither has the lock before nor after, or gives it up, leaves
\* the pool alone.
LEMMA PoolKept ==
  ASSUME IInv, TypeOK', LockHeld', UNCHANGED <<count, leases, peak>>,
         \A p \in Borrowers : req'[p].pc = "insert" => req'[p] = req[p]
  PROVE  IInv'
<1>1. ChoiceFree'
  BY DEF IInv, ChoiceFree, Expired
<1>2. PeakCovers' /\ OnePerSlot'
  BY DEF IInv, PeakCovers, OnePerSlot
<1> QED
  BY <1>1, <1>2 DEF IInv

LEMMA DoneType ==
  ASSUME LibraryAssumption, TypeOK, NEW p \in Borrowers, Done(p)
  PROVE  /\ req' \in [Borrowers -> [pc : ReqPC, age : 0..MaxAge, slot : Nat]]
         /\ late' \subseteq Borrowers /\ pinged' \subseteq Borrowers
         /\ alarm' \in [Borrowers -> 0..NoAlarm]
         /\ req'[p].pc = "idle" /\ \A q \in Borrowers \ {p} : req'[q] = req[q]
<1>1. Idle \in [pc : ReqPC, age : 0..MaxAge, slot : Nat]
  BY DEF Idle, ReqPC, LibraryAssumption
<1>2. NoAlarm \in 0..NoAlarm
  BY DEF NoAlarm, LibraryAssumption
<1> QED
  BY <1>1, <1>2 DEF Done, TypeOK, Idle

-----------------------------------------------------------------------------
(* One lemma per action. *)

LEMMA AskStep ==
  ASSUME LibraryAssumption, IInv, NEW p \in Borrowers, Ask(p)
  PROVE  IInv'
<1>1. Begun \in [pc : ReqPC, age : 0..MaxAge, slot : Nat] /\ Begun.pc = "begin"
  BY DEF Begun, ReqPC, LibraryAssumption
<1>2. TypeOK'
  BY <1>1 DEF IInv, TypeOK, Ask, resource, signals
<1>3. LockHeld'
  BY <1>1 DEF IInv, TypeOK, LockHeld, Ask
<1> QED
  BY <1>1, <1>2, <1>3, PoolKept DEF IInv, TypeOK, Ask, resource

LEMMA NotFoundStep ==
  ASSUME LibraryAssumption, IInv, NEW p \in Borrowers, NotFound(p)
  PROVE  IInv'
<1>1. Done(p) /\ TypeOK
  BY DEF NotFound, IInv
<1>2. TypeOK'
  BY <1>1, DoneType DEF TypeOK, NotFound, resource
<1>3. LockHeld'
  BY <1>1, DoneType DEF IInv, LockHeld, NotFound, LibraryAssumption
<1> QED
  BY <1>1, <1>2, <1>3, PoolKept, DoneType DEF NotFound, resource

LEMMA LockRowStep ==
  ASSUME LibraryAssumption, IInv, NEW p \in Borrowers, LockRow(p)
  PROVE  IInv'
<1>1. /\ req' = [req EXCEPT ![p].pc = "locked"] /\ lock' = p /\ lock = None
      /\ req[p].pc = "begin"
  BY DEF LockRow
<1>2. TypeOK'
  BY <1>1 DEF IInv, TypeOK, ReqPC, LockRow, resource, signals
<1>3. LockHeld'
  BY <1>1 DEF IInv, TypeOK, LockHeld, LibraryAssumption
<1> QED
  BY <1>1, <1>2, <1>3, PoolKept DEF IInv, TypeOK, LockRow, resource

LEMMA ChooseStep ==
  ASSUME LibraryAssumption, IInv, NEW p \in Borrowers, Choose(p)
  PROVE  IInv'
<1>1. count \in Int
  BY DEF IInv, TypeOK, Missing, LibraryAssumption
<1>2. Lowest(Free(p)) \in Free(p)
  <2>1. Free(p) # {} /\ \A i \in Free(p) : i \in Int /\ 0 <= i
    BY <1>1 DEF Choose, Free
  <2> QED
    BY <2>1, LowestIn
<1>3. /\ req[p].pc = "locked"
      /\ req' = [req EXCEPT ![p].pc = "insert", ![p].slot = Lowest(Free(p))]
      /\ UNCHANGED <<count, peak, leases, lock, held, late, alarm, pinged, owed, lost>>
  BY DEF Choose, resource, signals
<1>4. Lowest(Free(p)) \in 0..(count - 1) /\ Lowest(Free(p)) \in Nat
  BY <1>1, <1>2 DEF Free
<1>5. /\ req'[p].pc = "insert" /\ req'[p].slot = Lowest(Free(p))
      /\ req'[p].age = req[p].age
      /\ \A q \in Borrowers \ {p} : req'[q] = req[q]
  BY <1>3 DEF IInv, TypeOK
<1>6. TypeOK'
  BY <1>3, <1>4 DEF IInv, TypeOK, ReqPC
<1>7. LockHeld'
  BY <1>3, <1>5 DEF IInv, LockHeld
<1>8. ChoiceFree'
  <2> SUFFICES ASSUME NEW q \in Borrowers, req'[q].pc = "insert"
               PROVE  /\ req'[q].slot \in 0..(count - 1)
                      /\ \A l \in leases \ Expired(q)' : l.position # req'[q].slot
    BY <1>3 DEF ChoiceFree
  <2>1. Expired(q)' = Expired(q)
    BY <1>3, <1>5 DEF Expired
  <2>2. CASE q = p
    BY <1>2, <1>4, <1>5, <2>1, <2>2 DEF Free
  <2>3. CASE q # p
    BY <1>5, <2>1, <2>3 DEF IInv, ChoiceFree
  <2> QED
    BY <2>2, <2>3
<1> QED
  BY <1>3, <1>6, <1>7, <1>8 DEF IInv, PeakCovers, OnePerSlot

LEMMA GrantStep ==
  ASSUME LibraryAssumption, IInv, NEW p \in Borrowers, Grant(p)
  PROVE  IInv'
<1> DEFINE id == Lowest(NewIds)
<1>1. id \in LeaseIds
  <2>1. \A x \in NewIds : x \in Int /\ 1 <= x
    BY DEF NewIds, LeaseIds
  <2>2. id \in NewIds
    BY <2>1, LowestIn DEF Grant
  <2> QED
    BY <2>2 DEF NewIds
<1>2. PICK ttl \in 1..MaxTtl :
        leases' = (leases \ Expired(p)) \cup
                    {[id |-> id, position |-> req[p].slot, left |-> ttl - req[p].age]}
  BY DEF Grant
<1> DEFINE new == [id |-> id, position |-> req[p].slot, left |-> ttl - req[p].age]
<1>3. /\ req[p].pc = "insert" /\ lock = p /\ lock' = None /\ Done(p)
      /\ held' = [held EXCEPT ![p] = id] /\ UNCHANGED <<count, peak, owed, lost>>
  BY DEF Grant, IInv, LockHeld, resource
<1>4. req[p].slot \in 0..(count - 1) /\ count <= peak /\ req[p].age \in 0..MaxAge
  BY <1>3 DEF IInv, TypeOK, ChoiceFree, PeakCovers
<1>5. count \in Int /\ count <= MaxCount /\ peak \in Nat
  BY DEF IInv, TypeOK, Missing, LibraryAssumption
<1>6. new \in Lease
  <2>1. req[p].slot \in Slots
    BY <1>4, <1>5 DEF Slots, LibraryAssumption
  <2>2. ttl - req[p].age \in (-MaxAge)..MaxTtl
    BY <1>2, <1>4 DEF LibraryAssumption
  <2> QED
    BY <1>1, <2>1, <2>2 DEF Lease
<1>7. TypeOK'
  BY <1>1, <1>2, <1>3, <1>6, DoneType DEF IInv, TypeOK
<1>8. /\ req'[p].pc = "idle" /\ \A q \in Borrowers \ {p} : req'[q] = req[q]
  BY <1>3, DoneType DEF IInv
<1>9. LockHeld' /\ ChoiceFree'
  BY <1>3, <1>8 DEF IInv, LockHeld, ChoiceFree, LibraryAssumption
<1>10. PeakCovers'
  BY <1>2, <1>3, <1>4, <1>5 DEF IInv, PeakCovers
<1>11. \A l \in leases \ Expired(p) : l.position # new.position
  BY <1>3 DEF IInv, ChoiceFree
<1>12. OnePerSlot'
  BY <1>2, <1>11 DEF IInv, OnePerSlot
<1> QED
  BY <1>7, <1>9, <1>10, <1>12 DEF IInv

LEMMA AlarmType ==
  ASSUME LibraryAssumption, TypeOK, NEW S \in SUBSET leases, NEW a \in Alarms(S)
  PROVE  a \in 0..NoAlarm
<1> USE DEF LibraryAssumption, NoAlarm
<1>1. CASE S = {}
  BY <1>1 DEF Alarms
<1>2. CASE S # {}
  <2> DEFINE lefts == {l.left : l \in S}
  <2>1. \A x \in lefts : x \in (-MaxAge)..MaxTtl
    BY DEF TypeOK, Lease
  <2>2. Lowest(lefts) \in lefts
    <3>1. -MaxAge \in Int /\ lefts # {} /\ \A x \in lefts : x \in Int /\ -MaxAge <= x
      BY <1>2, <2>1
    <3> HIDE DEF lefts
    <3> QED
      BY <3>1, LowestIn
  <2>3. PICK d \in (-Slack)..Slack : a = NonNegative(Lowest(lefts) + d)
    BY <1>2 DEF Alarms
  <2>4. Lowest(lefts) \in (-MaxAge)..MaxTtl
    BY <2>1, <2>2
  <2> HIDE DEF lefts
  <2> QED
    BY <2>3, <2>4 DEF NonNegative
<1> QED
  BY <1>1, <1>2

LEMMA FullStep ==
  ASSUME LibraryAssumption, IInv, NEW p \in Borrowers, Full(p)
  PROVE  IInv'
<1>1. /\ req[p].pc = "locked" /\ lock = p /\ lock' = None
      /\ UNCHANGED <<count, peak, leases, held, owed, lost>>
  BY DEF Full, IInv, LockHeld, resource
<1>2. CASE Done(p)
  <2>1. TypeOK'
    BY <1>1, <1>2, DoneType DEF IInv, TypeOK
  <2>2. LockHeld'
    BY <1>1, <1>2, DoneType DEF IInv, LockHeld, LibraryAssumption
  <2> QED
    BY <1>1, <1>2, <2>1, <2>2, PoolKept, DoneType DEF IInv
<1>3. CASE /\ req' = [req EXCEPT ![p] = [pc |-> "wait", age |-> 0, slot |-> 0]]
           /\ \E a \in Alarms(leases \ Expired(p)) : alarm' = [alarm EXCEPT ![p] = a]
           /\ UNCHANGED <<late, pinged>>
  <2>1. [pc |-> "wait", age |-> 0, slot |-> 0] \in [pc : ReqPC, age : 0..MaxAge, slot : Nat]
    BY DEF ReqPC, LibraryAssumption
  <2>2. PICK a \in Alarms(leases \ Expired(p)) : alarm' = [alarm EXCEPT ![p] = a]
    BY <1>3
  <2>3. a \in 0..NoAlarm
    BY <2>2, AlarmType DEF IInv
  <2>4. TypeOK'
    BY <1>1, <1>3, <2>1, <2>2, <2>3 DEF IInv, TypeOK
  <2>5. req'[p].pc = "wait" /\ \A q \in Borrowers \ {p} : req'[q] = req[q]
    BY <1>3 DEF IInv, TypeOK
  <2>6. LockHeld'
    BY <1>1, <2>5 DEF IInv, LockHeld, LibraryAssumption
  <2> QED
    BY <1>1, <2>4, <2>5, <2>6, PoolKept
<1> QED
  BY <1>2, <1>3 DEF Full

LEMMA WakeStep ==
  ASSUME LibraryAssumption, IInv, NEW p \in Borrowers, Wake(p)
  PROVE  IInv'
<1>1. Begun \in [pc : ReqPC, age : 0..MaxAge, slot : Nat] /\ Begun.pc = "begin"
  BY DEF Begun, ReqPC, LibraryAssumption
<1>2. NoAlarm \in 0..NoAlarm
  BY DEF NoAlarm, LibraryAssumption
<1>3. TypeOK'
  BY <1>1, <1>2 DEF IInv, TypeOK, Wake, resource
<1>4. LockHeld'
  BY <1>1 DEF IInv, TypeOK, LockHeld, Wake
<1> QED
  BY <1>1, <1>3, <1>4, PoolKept DEF IInv, TypeOK, Wake, resource

\* Steps of timers and of notifications.
LEMMA SignalStep ==
  ASSUME LibraryAssumption, IInv,
         Notify \/ LoseNotification \/ \E p \in Borrowers : Deadline(p)
  PROVE  IInv'
<1>1. TypeOK' /\ UNCHANGED <<count, leases, peak, lock, req>>
  BY DEF IInv, TypeOK, Notify, LoseNotification, Deadline, Subscribed, resource, signals
<1>2. LockHeld'
  BY <1>1 DEF IInv, LockHeld
<1> QED
  BY <1>1, <1>2, PoolKept

LEMMA ReturnStep ==
  ASSUME LibraryAssumption, IInv, NEW p \in Borrowers, Return(p)
  PROVE  IInv'
<1>1. /\ leases' \subseteq leases
      /\ UNCHANGED <<count, peak, lock, req, late, alarm, pinged, lost>>
      /\ held' = [held EXCEPT ![p] = 0]
      /\ owed' \in BOOLEAN
  BY DEF Return, resource, signals
<1>2. TypeOK'
  BY <1>1 DEF IInv, TypeOK
<1>3. LockHeld' /\ ChoiceFree' /\ PeakCovers' /\ OnePerSlot'
  BY <1>1 DEF IInv, LockHeld, ChoiceFree, Expired, PeakCovers, OnePerSlot
<1> QED
  BY <1>2, <1>3 DEF IInv

\* put_resource and delete_resource need the lock of the row: nobody is about
\* to insert a lease.
LEMMA ResizeStep ==
  ASSUME LibraryAssumption, IInv, Delete \/ \E n \in 0..MaxCount : Put(n)
  PROVE  IInv'
<1>1. /\ lock = None /\ UNCHANGED <<lock, req, held, late, alarm, pinged, lost>>
      /\ owed' \in BOOLEAN
  BY DEF Delete, Put, IInv, TypeOK, signals
<1>2. LockHeld' /\ ChoiceFree'
  BY <1>1 DEF IInv, LockHeld, ChoiceFree, LibraryAssumption
<1>3. ASSUME NEW n \in 0..MaxCount, Put(n)
      PROVE  TypeOK' /\ PeakCovers' /\ OnePerSlot'
  <2>1. peak \in 0..MaxCount /\ \A l \in leases : l.position \in Nat
    BY DEF IInv, TypeOK, Lease, Slots
  <2>2. peak' \in 0..MaxCount /\ n <= peak' /\ peak <= peak'
    BY <1>3, <2>1 DEF Put, LibraryAssumption
  <2>3. TypeOK'
    BY <1>1, <1>3, <2>2 DEF IInv, TypeOK, Put
  <2>4. PeakCovers'
    BY <1>3, <2>1, <2>2 DEF IInv, PeakCovers, Put, LibraryAssumption
  <2> QED
    BY <1>3, <2>3, <2>4 DEF IInv, OnePerSlot, Put
<1>4. ASSUME Delete
      PROVE  TypeOK' /\ PeakCovers' /\ OnePerSlot'
  BY <1>1, <1>4 DEF IInv, TypeOK, PeakCovers, OnePerSlot, Delete, Missing, LibraryAssumption
<1> QED
  BY <1>2, <1>3, <1>4 DEF IInv

LEMMA FailStep ==
  ASSUME LibraryAssumption, IInv, NEW p \in Borrowers, FailBorrow(p)
  PROVE  IInv'
<1>1. /\ Done(p) /\ lock' = IF lock = p THEN None ELSE lock
      /\ UNCHANGED <<count, peak, leases, held, owed, lost>>
  BY DEF FailBorrow, resource
<1>2. TypeOK'
  BY <1>1, DoneType DEF IInv, TypeOK
<1>3. LockHeld'
  BY <1>1, DoneType DEF IInv, LockHeld, LibraryAssumption
<1> QED
  BY <1>1, <1>2, <1>3, PoolKept, DoneType DEF IInv

\* Time passes for leases and open transactions alike: what is over for a
\* transaction stays over.
LEMMA TickStep ==
  ASSUME LibraryAssumption, IInv, Tick
  PROVE  IInv'
<1> DEFINE aged(l) == [l EXCEPT !.left = IF @ > -MaxAge THEN @ - 1 ELSE @]
<1>1. /\ leases' = {aged(l) : l \in leases}
      /\ UNCHANGED <<count, peak, lock, held, late, pinged, owed, lost>>
  BY DEF Tick, resource
<1>2. \A l \in Lease : /\ aged(l) \in Lease /\ aged(l).position = l.position
                       /\ aged(l).left = IF l.left > -MaxAge THEN l.left - 1 ELSE l.left
  BY DEF Lease, LibraryAssumption
<1>3. leases \subseteq Lease
  BY DEF IInv, TypeOK
<1>4. \A p \in Borrowers :
        req'[p] = IF Open(p) THEN [req[p] EXCEPT !.age = @ + 1] ELSE req[p]
  BY DEF Tick
<1>5. \A p \in Borrowers : /\ req'[p].pc = req[p].pc /\ req'[p].slot = req[p].slot
                           /\ req'[p].age = IF Open(p) THEN req[p].age + 1 ELSE req[p].age
  BY <1>4 DEF IInv, TypeOK
<1>6. TypeOK'
  <2>1. req' \in [Borrowers -> [pc : ReqPC, age : 0..MaxAge, slot : Nat]]
    BY DEF Tick, IInv, TypeOK, LibraryAssumption
  <2>2. alarm' \in [Borrowers -> 0..NoAlarm]
    BY DEF Tick, IInv, TypeOK, NoAlarm, LibraryAssumption
  <2>3. leases' \subseteq Lease
    BY <1>1, <1>2, <1>3
  <2> QED
    BY <1>1, <2>1, <2>2, <2>3 DEF IInv, TypeOK
<1>7. LockHeld'
  BY <1>1, <1>5 DEF IInv, LockHeld
<1>8. ChoiceFree'
  <2> SUFFICES ASSUME NEW p \in Borrowers, req'[p].pc = "insert",
                      NEW l \in leases, aged(l) \notin Expired(p)'
               PROVE  /\ req'[p].slot \in 0..(count' - 1)
                      /\ aged(l).position # req'[p].slot
    <3>1. ASSUME NEW p \in Borrowers, req'[p].pc = "insert"
          PROVE  req'[p].slot \in 0..(count' - 1)
      BY <1>1, <1>5, <3>1 DEF IInv, ChoiceFree
    <3> QED
      BY <1>1, <3>1 DEF ChoiceFree
  <2>1. req[p].pc = "insert" /\ Open(p) /\ req[p].age \in 0..MaxAge /\ req[p].age < MaxAge
    BY <1>5 DEF Open, Tick, IInv, TypeOK
  <2>2. l \notin Expired(p)
    <3>1. ~(aged(l).left <= -(req[p].age + 1))
      BY <1>1, <1>5, <2>1 DEF Expired
    <3>2. l.left \in Int
      BY <1>3 DEF Lease
    <3> QED
      BY <1>2, <1>3, <2>1, <3>1, <3>2 DEF Expired, LibraryAssumption
  <2> QED
    BY <1>1, <1>2, <1>3, <1>5, <2>1, <2>2 DEF IInv, ChoiceFree
<1>9. \A x \in leases' : \E l \in leases : x = aged(l) /\ x.position = l.position
  <2>1. \A l \in leases : aged(l).position = l.position
    BY <1>2, <1>3
  <2> HIDE DEF aged
  <2> QED
    BY <1>1, <2>1
<1>10. PeakCovers' /\ OnePerSlot'
  <2> HIDE DEF aged
  <2>1. PeakCovers'
    BY <1>1, <1>9 DEF IInv, PeakCovers
  <2>2. ASSUME NEW x \in leases', NEW y \in leases', x.position = y.position
        PROVE  x = y
    BY <1>9, <2>2 DEF IInv, OnePerSlot
  <2> QED
    BY <2>1, <2>2 DEF OnePerSlot
<1> QED
  BY <1>6, <1>7, <1>8, <1>9, <1>10 DEF IInv

LEMMA NextIInv ==
  ASSUME LibraryAssumption, IInv, [Next]_vars
  PROVE  IInv'
<1>1. CASE UNCHANGED vars
  BY <1>1 DEF IInv, TypeOK, LockHeld, ChoiceFree, Expired, PeakCovers, OnePerSlot, vars
<1>2. ASSUME NEW p \in Borrowers,
             Ask(p) \/ BorrowStep(p) \/ Deadline(p) \/ Return(p) \/ FailBorrow(p)
      PROVE  IInv'
  BY <1>2, AskStep, NotFoundStep, LockRowStep, ChooseStep, GrantStep, FullStep, WakeStep,
     SignalStep, ReturnStep, FailStep DEF BorrowStep
<1>3. CASE \/ \E n \in 0..MaxCount : Put(n)
           \/ Delete \/ Notify \/ LoseNotification
  BY <1>3, ResizeStep, SignalStep
<1>4. CASE Tick
  BY <1>4, TickStep
<1> QED
  BY <1>1, <1>2, <1>3, <1>4 DEF Next

\* The invariant behind the others: who chooses a slot holds the resource's row,
\* the slot it has chosen is still free, and no count exceeds the peak
\* (try_borrow).
THEOREM LibraryInvariance ==
  ASSUME LibraryAssumption
  PROVE  Spec => []IInv
<1>1. Init => IInv
  BY InitIInv
<1>2. IInv /\ [Next]_vars => IInv'
  BY NextIInv
<1> QED
  BY <1>1, <1>2, PTL DEF Spec

\* No two leases of a resource have one slot, for any pool and any number of
\* borrowers: the row lock is enough (try_borrow).
THEOREM SlotsAreLentOnce ==
  ASSUME LibraryAssumption
  PROVE  Spec => []OnePerSlot
<1>1. IInv => OnePerSlot
  BY DEF IInv
<1> QED
  BY <1>1, LibraryInvariance, PTL

\* Different leases have different slots below the largest count.
LEMMA LeasesWithinPeak ==
  ASSUME LibraryAssumption, IInv
  PROVE  NeverOverIssued
<1> SUFFICES Cardinality(Live) <= peak
  BY DEF NeverOverIssued
<1> DEFINE slot == [l \in Live |-> l.position]
<1>1. peak \in Nat /\ \A l \in Live : l.position \in 0..(peak - 1)
  BY DEF IInv, TypeOK, PeakCovers, Live, Lease, Slots, LibraryAssumption
<1>2. slot \in Injection(Live, 0..(peak - 1))
  BY <1>1 DEF IInv, OnePerSlot, Live, Injection, IsInjective
<1>3. IsFiniteSet(0..(peak - 1)) /\ Cardinality(0..(peak - 1)) = peak
  BY <1>1, FS_Interval
<1> HIDE DEF slot
<1> QED
  BY <1>2, <1>3, FS_Injection

\* The leases of a resource never outnumber the largest count it has had
\* (try_borrow, put_resource).
THEOREM PoolIsNotOverdrawn ==
  ASSUME LibraryAssumption
  PROVE  Spec => []NeverOverIssued
<1> QED
  BY LeasesWithinPeak, LibraryInvariance, PTL

\* The slot of a new lease is in the pool, and no live lease has it.
LEMMA FreeWhenGranted ==
  ASSUME LibraryAssumption, IInv
  PROVE  GrantsFreeSlot
<1> SUFFICES ASSUME NEW p \in Borrowers, Grant(p)
             PROVE  /\ req[p].slot < count
                    /\ \A l \in Live : l.position # req[p].slot
  BY DEF GrantsFreeSlot
<1>1. req[p].pc = "insert" /\ req[p].age \in Nat /\ count \in Int
  BY DEF Grant, IInv, TypeOK, Missing, LibraryAssumption
<1>2. Live \subseteq leases \ Expired(p)
  BY <1>1 DEF Live, Expired, IInv, TypeOK, Lease, LibraryAssumption
<1> QED
  BY <1>1, <1>2 DEF IInv, ChoiceFree

\* try_borrow never inserts a lease whose slot somebody holds at that moment or
\* the pool does not have.
THEOREM GrantsAreOfFreeSlots ==
  ASSUME LibraryAssumption
  PROVE  Spec => [][GrantsFreeSlot]_vars
<1> QED
  BY FreeWhenGranted, LibraryInvariance, PTL

-----------------------------------------------------------------------------
(* No wake-up is lost *)

\* Who sleeps with no notification on its way sleeps no longer, but for the
\* rounding of its clock, than any of the leases that fill the pool.
SleepsBehindLeases(p) ==
  req[p].pc = "wait" /\ p \notin pinged /\ ~owed /\ alarm[p] > Slack =>
    \A i \in 0..(count - 1) : \E l \in leases : l.position = i /\ l.left >= alarm[p] - Slack
Sleepers == ~lost => \A p \in Borrowers : SleepsBehindLeases(p)

LEMMA SleepersMeansAwake ==
  ASSUME LibraryAssumption, IInv, Sleepers
  PROVE  NoLostWakeup
<1> SUFFICES ASSUME ~lost, NEW p \in Borrowers, req[p].pc = "wait", p \notin pinged, ~owed,
                    alarm[p] > Slack, NEW i \in 0..(count - 1)
             PROVE  \E l \in Live : l.position = i
  BY DEF NoLostWakeup, FreeNow, IInv, TypeOK, NoAlarm, LibraryAssumption
<1>1. PICK l \in leases : l.position = i /\ l.left >= alarm[p] - Slack
  BY DEF Sleepers, SleepsBehindLeases
<1>2. l.left \in Int /\ alarm[p] \in Int /\ Slack \in Int
  BY DEF IInv, TypeOK, Lease, NoAlarm, LibraryAssumption
<1> QED
  BY <1>1, <1>2 DEF Live

\* The slots of a smaller pool are slots of a larger.
LEMMA SlotsGrow ==
  ASSUME NEW m \in Int, NEW n \in Int, m <= n, NEW i \in 0..(m - 1)
  PROVE  i \in 0..(n - 1)
<1> QED
  OBVIOUS

\* A step that takes no running lease away and puts nobody to sleep.
LEMMA SleepersStay ==
  ASSUME LibraryAssumption, IInv, Sleepers, lost' = lost,
         count' \in Int, count' <= count \/ owed',
         \A l \in Live : l \in leases' \/ owed',
         owed => owed' \/ \A p \in Borrowers : req[p].pc = "wait" => p \in pinged',
         \A p \in Borrowers : req'[p].pc = "wait" =>
           req[p].pc = "wait" /\ alarm'[p] = alarm[p] /\ (p \in pinged => p \in pinged')
  PROVE  Sleepers'
<1> SUFFICES ASSUME ~lost, ~owed', NEW p \in Borrowers, req'[p].pc = "wait", p \notin pinged',
                    alarm'[p] > Slack, NEW i \in 0..(count' - 1)
             PROVE  \E l \in leases' : l.position = i /\ l.left >= alarm'[p] - Slack
  BY DEF Sleepers, SleepsBehindLeases
<1>1. req[p].pc = "wait" /\ p \notin pinged /\ alarm'[p] = alarm[p] /\ ~owed
      /\ count' <= count
  OBVIOUS
<1>2. count \in Int /\ i \in 0..(count - 1)
  <2>1. count \in Int
    BY DEF IInv, TypeOK, Missing, LibraryAssumption
  <2> QED
    BY <1>1, <2>1, SlotsGrow, Zenon
<1>3. PICK l \in leases : l.position = i /\ l.left >= alarm[p] - Slack
  BY <1>1, <1>2 DEF Sleepers, SleepsBehindLeases
<1>4. l.left \in Int /\ alarm[p] \in Int /\ Slack \in Int
  BY DEF IInv, TypeOK, Lease, NoAlarm, LibraryAssumption
<1>5. l \in Live
  BY <1>1, <1>3, <1>4 DEF Live
<1> QED
  BY <1>1, <1>3, <1>5

LEMMA FullSleeps ==
  ASSUME LibraryAssumption, IInv, Sleepers, NEW p \in Borrowers, Full(p)
  PROVE  Sleepers'
<1>1. CASE Done(p)
  <2>1. req'[p].pc # "wait" /\ \A q \in Borrowers \ {p} :
          req'[q] = req[q] /\ alarm'[q] = alarm[q] /\ (q \in pinged => q \in pinged')
    BY <1>1 DEF Done, Idle, IInv, TypeOK
  <2>2. UNCHANGED <<count, leases, owed, lost>> /\ count \in Int
    BY DEF Full, resource, IInv, TypeOK, Missing, LibraryAssumption
  <2> QED
    BY <2>1, <2>2, SleepersStay DEF Live
<1>2. ASSUME NEW a \in Alarms(leases \ Expired(p)), Free(p) = {},
             req' = [req EXCEPT ![p] = [pc |-> "wait", age |-> 0, slot |-> 0]],
             alarm' = [alarm EXCEPT ![p] = a], pinged' = pinged
      PROVE  Sleepers'
  <2>0. UNCHANGED <<count, leases, owed, lost>>
    BY DEF Full, resource
  <2>1. \A q \in Borrowers \ {p} : req'[q] = req[q] /\ alarm'[q] = alarm[q]
    BY <1>2 DEF IInv, TypeOK
  <2>2. \A q \in Borrowers \ {p} : ~lost => SleepsBehindLeases(q)'
    BY <1>2, <2>0, <2>1 DEF Sleepers, SleepsBehindLeases
  <2>3. ASSUME alarm'[p] > Slack, NEW i \in 0..(count - 1)
        PROVE  \E l \in leases : l.position = i /\ l.left >= alarm'[p] - Slack
    <3>1. PICK l \in leases \ Expired(p) : l.position = i
      BY <1>2 DEF Free
    <3> DEFINE S == {m.left : m \in leases \ Expired(p)}
    <3>2. l.left \in S
      BY <3>1
    <3>3. \A m \in leases : m.left \in Int /\ -MaxAge <= m.left
      BY DEF IInv, TypeOK, Lease, LibraryAssumption
    <3>4. S # {} /\ l.left \in S /\ \A x \in S : x \in Int /\ -MaxAge <= x
      BY <3>2, <3>3
    <3>5. PICK d \in (-Slack)..Slack : a = NonNegative(Lowest(S) + d)
      BY <1>2, <3>1 DEF Alarms
    <3> HIDE DEF S
    <3>6. Lowest(S) \in Int /\ Lowest(S) <= l.left
      <4>1. -MaxAge \in Int
        BY DEF LibraryAssumption
      <4>2. Lowest(S) \in S /\ \A x \in S : Lowest(S) <= x
        BY <3>4, <4>1, LowestIn
      <4> QED
        BY <3>4, <4>2
    <3>7. alarm'[p] = a
      BY <1>2 DEF IInv, TypeOK
    <3>8. l.left \in Int /\ Slack \in Nat
      BY <3>4 DEF LibraryAssumption
    <3>9. l.left >= a - Slack
      BY <2>3, <3>5, <3>6, <3>7, <3>8 DEF NonNegative
    <3> QED
      BY <3>1, <3>7, <3>9
  <2>4. SleepsBehindLeases(p)'
    BY <2>0, <2>3 DEF SleepsBehindLeases
  <2> QED
    BY <2>0, <2>2, <2>4 DEF Sleepers
<1> QED
  BY <1>1, <1>2 DEF Full

LEMMA TickSleeps ==
  ASSUME LibraryAssumption, IInv, Sleepers, Tick
  PROVE  Sleepers'
<1> SUFFICES ASSUME ~lost', NEW p \in Borrowers, req'[p].pc = "wait", p \notin pinged', ~owed',
                    alarm'[p] > Slack, NEW i \in 0..(count' - 1)
             PROVE  \E l \in leases' : l.position = i /\ l.left >= alarm'[p] - Slack
  BY DEF Sleepers, SleepsBehindLeases
<1>1. /\ UNCHANGED <<count, pinged, owed, lost>> /\ req'[p].pc = req[p].pc
      /\ alarm'[p] = IF alarm[p] \in 1..(NoAlarm - 1) THEN alarm[p] - 1 ELSE alarm[p]
  BY DEF Tick, resource, IInv, TypeOK
<1>2. alarm[p] \in 0..NoAlarm /\ Slack \in Nat /\ MaxTtl \in Nat /\ MaxAge \in Nat /\ NoAlarm = MaxTtl + Slack + 1
  BY DEF IInv, TypeOK, LibraryAssumption, NoAlarm
<1>3. PICK l \in leases : l.position = i /\ l.left >= alarm[p] - Slack
  BY <1>1, <1>2 DEF Sleepers, SleepsBehindLeases
<1>4. l.left \in (-MaxAge)..MaxTtl /\ l \in Lease
  BY DEF IInv, TypeOK, Lease
<1>5. alarm[p] \in 1..(NoAlarm - 1) /\ alarm'[p] = alarm[p] - 1 /\ l.left > -MaxAge
  BY <1>1, <1>2, <1>3, <1>4
<1> DEFINE m == [l EXCEPT !.left = IF @ > -MaxAge THEN @ - 1 ELSE @]
<1>6. m \in leases' /\ m.position = l.position /\ m.left = l.left - 1
  BY <1>4, <1>5 DEF Tick, Lease
<1>7. m.left >= alarm'[p] - Slack
  BY <1>2, <1>3, <1>4, <1>5, <1>6
<1> QED
  BY <1>3, <1>6, <1>7

LEMMA InitSleepers ==
  ASSUME LibraryAssumption, Init
  PROVE  Sleepers
<1> QED
  BY DEF Init, Idle, Sleepers, SleepsBehindLeases

LEMMA NextSleepers ==
  ASSUME LibraryAssumption, IInv, Sleepers, [Next]_vars
  PROVE  Sleepers'
<1>0. count \in Int /\ count >= -1
  BY DEF IInv, TypeOK, Missing, LibraryAssumption
<1>1. CASE UNCHANGED vars
  BY <1>1 DEF Sleepers, SleepsBehindLeases, vars
<1>2. ASSUME NEW p \in Borrowers, Done(p), UNCHANGED <<count, owed, lost>>,
             \A l \in Live : l \in leases'
      PROVE  Sleepers'
  <2>1. req'[p].pc # "wait" /\ \A q \in Borrowers \ {p} :
          req'[q] = req[q] /\ alarm'[q] = alarm[q] /\ (q \in pinged => q \in pinged')
    BY <1>2 DEF Done, Idle, IInv, TypeOK
  <2> QED
    BY <1>0, <1>2, <2>1, SleepersStay
<1>3. ASSUME NEW p \in Borrowers, NotFound(p) \/ FailBorrow(p)
      PROVE  Sleepers'
  BY <1>2, <1>3 DEF NotFound, FailBorrow, resource, Live
<1>4. ASSUME NEW p \in Borrowers, Grant(p)
      PROVE  Sleepers'
  <2>1. \A l \in Live : l \notin Expired(p)
    BY <1>4 DEF Live, Expired, IInv, TypeOK, Lease, LibraryAssumption
  <2>2. \A l \in Live : l \in leases'
    BY <1>4, <2>1 DEF Grant, Live
  <2> QED
    BY <1>2, <1>4, <2>2 DEF Grant, resource
<1>5. ASSUME NEW p \in Borrowers, NEW r, r.pc # "wait", req' = [req EXCEPT ![p] = r],
             UNCHANGED <<count, leases, owed, lost>>,
             \A q \in Borrowers \ {p} : alarm'[q] = alarm[q],
             \A q \in Borrowers \ {p} : q \in pinged => q \in pinged'
      PROVE  Sleepers'
  <2>1. req'[p].pc # "wait" /\ \A q \in Borrowers \ {p} : req'[q] = req[q]
    BY <1>5 DEF IInv, TypeOK
  <2> QED
    BY <1>0, <1>5, <2>1, SleepersStay DEF Live
<1>6. ASSUME NEW p \in Borrowers, Ask(p) \/ LockRow(p) \/ Choose(p) \/ Wake(p)
      PROVE  Sleepers'
  <2>1. CASE Ask(p)
    BY <1>5, <2>1 DEF Ask, Begun, resource, signals
  <2>2. CASE LockRow(p)
    <3> DEFINE r == [req[p] EXCEPT !.pc = "locked"]
    <3>1. r.pc # "wait" /\ req' = [req EXCEPT ![p] = r]
      BY <2>2 DEF LockRow, IInv, TypeOK
    <3> HIDE DEF r
    <3> QED
      BY <1>5, <2>2, <3>1 DEF LockRow, resource, signals
  <2>3. CASE Choose(p)
    <3> DEFINE r == [req[p] EXCEPT !.pc = "insert", !.slot = Lowest(Free(p))]
    <3>1. r.pc # "wait" /\ req' = [req EXCEPT ![p] = r]
      BY <2>3 DEF Choose, IInv, TypeOK
    <3> HIDE DEF r
    <3> QED
      BY <1>5, <2>3, <3>1 DEF Choose, resource, signals
  <2>4. CASE Wake(p)
    <3>1. /\ \A q \in Borrowers \ {p} : alarm'[q] = alarm[q]
          /\ \A q \in Borrowers \ {p} : q \in pinged => q \in pinged'
      BY <2>4 DEF Wake, IInv, TypeOK
    <3> QED
      BY <1>5, <2>4, <3>1 DEF Wake, Begun, resource
  <2> QED
    BY <1>6, <2>1, <2>2, <2>3, <2>4
<1>7. ASSUME NEW p \in Borrowers, Deadline(p) \/ Return(p)
      PROVE  Sleepers'
  <2>0. owed \in BOOLEAN
    BY DEF IInv, TypeOK
  <2>1. UNCHANGED <<count, req, alarm, pinged, lost>> /\ (owed => owed')
    <3>1. CASE Deadline(p)
      BY <3>1 DEF Deadline, resource
    <3>2. CASE Return(p)
      BY <3>2 DEF Return, resource, signals
    <3> QED
      BY <1>7, <3>1, <3>2
  <2>2. \A l \in Live : l \in leases' \/ owed'
    BY <1>7 DEF Deadline, Return, Live
  <2> QED
    BY <1>0, <2>1, <2>2, SleepersStay
<1>8. CASE (\E n \in 0..MaxCount : Put(n)) \/ Delete
  <2>1. UNCHANGED <<req, alarm, pinged, lost>> /\ (owed => owed')
    BY <1>8 DEF Put, Delete, signals
  <2>2. CASE \E n \in 0..MaxCount : Put(n)
    <3>1. count' \in Int /\ owed'
      BY <2>2 DEF Put, LibraryAssumption
    <3> QED
      BY <2>1, <3>1, SleepersStay
  <2>3. CASE Delete
    BY <2>3 DEF Delete, Missing, signals, Sleepers, SleepsBehindLeases
  <2> QED
    BY <1>8, <2>2, <2>3
<1>9. CASE Notify
  <2>1. /\ UNCHANGED <<count, leases, req, alarm, lost>> /\ pinged \subseteq pinged'
        /\ \A p \in Borrowers : req[p].pc = "wait" => p \in pinged'
    BY <1>9 DEF Notify, Subscribed, resource
  <2> QED
    BY <1>0, <2>1, SleepersStay DEF Live
<1>10. CASE LoseNotification
  BY <1>10 DEF LoseNotification, Sleepers
<1>11. CASE Tick
  BY <1>11, TickSleeps
<1> QED
  BY <1>1, <1>3, <1>4, <1>6, <1>7, <1>8, <1>9, <1>10, <1>11, FullSleeps DEF Next, BorrowStep

\* While no notification is lost, nobody sleeps beside a free slot without a
\* notification or an alarm that is due, for any pool, times to live and
\* rounding of the clocks: the receiver is there before the first look, and a
\* sleep ends with the first lease it has seen (borrow_resource,
\* notify_library).
THEOREM NoBorrowerIsForgotten ==
  ASSUME LibraryAssumption
  PROVE  Spec => []NoLostWakeup
<1>1. Init => IInv /\ Sleepers
  BY InitIInv, InitSleepers
<1>2. (IInv /\ Sleepers) /\ [Next]_vars => (IInv /\ Sleepers)'
  BY NextIInv, NextSleepers
<1>3. IInv /\ Sleepers => NoLostWakeup
  BY SleepersMeansAwake
<1> QED
  BY <1>1, <1>2, <1>3, PTL DEF Spec

-----------------------------------------------------------------------------
(* The locks of the tables *)

RowsOf(K) == {Lock!Row(d) : d \in {e \in Ids : InboxOf[e] \in K}}
CountersOf(K) == {Lock!Counter(k) : k \in K}

LockTypes ==
  /\ rows \subseteq Ids /\ present \subseteq Keys
  /\ stage \in [Lock!Transactions -> {"idle", "insert", "scan", "lock", "update", "lower",
                                 "advisory", "recount", "end"}]
  /\ inboxes \in [Lock!Transactions -> SUBSET Keys]
  /\ todo \in [Lock!Transactions -> SUBSET Lock!LockNames]
  /\ want \in [Lock!Transactions -> Lock!LockNames \cup {None}]
  /\ locked \in [Lock!Transactions -> SUBSET Lock!LockNames]

\* A lock has one holder.
Exclusive == \A t \in Lock!Transactions : \A u \in Lock!Transactions \ {t} : locked[t] \cap locked[u] = {}

\* Each of the first two statements takes the counters in order.  One leaves
\* its own counters, which are not committed, and committed ones; the other
\* locks them all, and the last one updates what is locked.
EnqueueFits(t) ==
  /\ stage[t] \in {"idle", "insert", "lock", "update", "end"}
  /\ todo[t] \cup locked[t] \subseteq CountersOf(inboxes[t])
  /\ stage[t] # "update" =>
       \A j, k \in inboxes[t] : Lock!Counter(j) \notin todo[t] /\ Lock!Counter(k) \in todo[t] => j < k
  /\ stage[t] = "insert" => locked[t] \cap todo[t] = {}
  /\ \A k \in inboxes[t] :
       Lock!Counter(k) \in locked[t]
         /\ (stage[t] = "insert" \/ (stage[t] = "lock" /\ Lock!Counter(k) \in todo[t])) =>
         k \notin present
  /\ \A k \in inboxes[t] :
       stage[t] = "update" \/ (stage[t] = "lock" /\ Lock!Counter(k) \notin todo[t]) =>
         Lock!Counter(k) \in locked[t]
  /\ \A k \in inboxes[t] :
       stage[t] = "lock" \/ (stage[t] = "insert" /\ Lock!Counter(k) \notin todo[t]) =>
         k \in present \/ Lock!Counter(k) \in locked[t]

\* A scan is of one inbox.  Its locks are rows until it has all it waits for.
ScanFits(t) ==
  /\ stage[t] \in {"idle", "scan", "lower", "end"}
  /\ stage[t] # "idle" => \E k \in Keys : inboxes[t] = {k}
  /\ stage[t] = "scan" => todo[t] \subseteq RowsOf(inboxes[t])
  /\ stage[t] = "lower" => todo[t] \subseteq CountersOf(inboxes[t])
  /\ stage[t] = "scan" \/ todo[t] # {} => locked[t] \subseteq RowsOf(inboxes[t])

Fits(t) ==
  /\ stage[t] \in {"idle", "end"} => todo[t] = {}
  /\ stage[t] = "idle" => locked[t] = {}
  /\ want[t] # None => want[t] \in Lock!NextLocks(t)
  /\ t \in Enqueues => EnqueueFits(t)
  /\ t \in Acks \cup Releases => ScanFits(t)
  /\ t \in Claims => stage[t] \in {"idle", "end"}
  /\ t \in Starts => /\ stage[t] \in {"idle", "advisory", "recount", "end"}
                     /\ todo[t] \subseteq {Lock!Advisory} \cup CountersOf(Keys)

LocksIInv == LockTypes /\ Exclusive /\ \A t \in Lock!Transactions : Fits(t)

-----------------------------------------------------------------------------
(* The names of locks *)

\* There are finitely many transactions.
LEMMA LocksAreFinite ==
  ASSUME Lock!LocksAssumption
  PROVE  IsFiniteSet(Lock!Transactions)
BY DEF Lock!LocksAssumption, Lock!IsFiniteSet, IsFiniteSet

LEMMA Names ==
  /\ \A k : Lock!Counter(k)[2] = k
  /\ \A j, k : Lock!Counter(j) = Lock!Counter(k) => j = k
  /\ \A d, e : Lock!Row(d) = Lock!Row(e) => d = e
  /\ \A k, d : Lock!Counter(k) # Lock!Row(d) /\ Lock!Counter(k) # Lock!Advisory /\ Lock!Row(d) # Lock!Advisory
<1> QED
  BY DEF Lock!Counter, Lock!Row, Lock!Advisory

LEMMA NamesOf ==
  ASSUME NEW K \in SUBSET Keys
  PROVE  /\ RowsOf(K) \subseteq Lock!LockNames /\ CountersOf(K) \subseteq Lock!LockNames
         /\ Lock!Advisory \in Lock!LockNames
<1> QED
  BY DEF RowsOf, CountersOf, Lock!LockNames

-----------------------------------------------------------------------------
(* Steps keep the invariant *)

LEMMA InitLocks ==
  ASSUME Lock!LocksAssumption, Lock!Init
  PROVE  LocksIInv
<1>1. LockTypes /\ Exclusive
  BY DEF Lock!Init, LockTypes, Exclusive
<1>2. ASSUME NEW t \in Lock!Transactions
      PROVE  Fits(t)
  BY <1>2 DEF Lock!Init, Fits, EnqueueFits, ScanFits
<1> QED
  BY <1>1, <1>2 DEF LocksIInv

\* A step of t leaves the others as they are, and commits at most counters
\* that t has locked.
Aside(t) ==
  /\ \A u \in Lock!Transactions \ {t} : /\ stage'[u] = stage[u] /\ inboxes'[u] = inboxes[u]
                                   /\ todo'[u] = todo[u] /\ want'[u] = want[u]
                                   /\ locked'[u] = locked[u]
  /\ present \subseteq present'
  /\ \A k \in present' : k \in present \/ Lock!Counter(k) \in locked[t]

LEMMA OtherFits ==
  ASSUME Lock!LocksAssumption, LocksIInv, NEW t \in Lock!Transactions, Aside(t),
         NEW u \in Lock!Transactions \ {t}
  PROVE  Fits(u)'
<1>1. /\ stage'[u] = stage[u] /\ inboxes'[u] = inboxes[u] /\ todo'[u] = todo[u]
      /\ want'[u] = want[u] /\ locked'[u] = locked[u]
  BY DEF Aside
<1>2. Fits(u) /\ locked[t] \cap locked[u] = {}
  BY DEF LocksIInv, Exclusive
<1>3. Lock!NextLocks(u)' = Lock!NextLocks(u)
  BY <1>1 DEF Lock!NextLocks
<1>4. u \in Enqueues => EnqueueFits(u)'
  <2> SUFFICES ASSUME EnqueueFits(u)
               PROVE  EnqueueFits(u)'
    BY <1>2 DEF Fits
  <2>1. \A k : Lock!Counter(k) \in locked[u] /\ k \notin present => k \notin present'
    BY <1>2 DEF Aside
  <2> QED
    BY <1>1, <2>1 DEF EnqueueFits, Aside
<1>5. u \in Acks \cup Releases => ScanFits(u)'
  BY <1>1, <1>2 DEF Fits, ScanFits
<1> QED
  BY <1>1, <1>2, <1>3, <1>4, <1>5 DEF Fits

\* What a step of t has to show.
LEMMA StepOf ==
  ASSUME Lock!LocksAssumption, LocksIInv, NEW t \in Lock!Transactions, Aside(t),
         LockTypes', Fits(t)',
         \A u \in Lock!Transactions \ {t} : locked'[t] \cap locked[u] = {}
  PROVE  LocksIInv'
<1>1. Exclusive'
  BY DEF Exclusive, LocksIInv, Aside
<1>2. \A u \in Lock!Transactions : Fits(u)'
  BY OtherFits
<1> QED
  BY <1>1, <1>2 DEF LocksIInv

LEMMA BeginStep ==
  ASSUME Lock!LocksAssumption, LocksIInv, NEW t \in Lock!Transactions, Lock!Begin(t)
  PROVE  LocksIInv'
<1> USE DEF LocksIInv
<1>1. PICK first \in {"insert", "scan", "end", "advisory"}, keys \in SUBSET Keys,
            locks \in SUBSET Lock!LockNames :
        /\ Lock!Begins(t, first, keys, locks)
        /\ \/ /\ t \in Enqueues /\ first = "insert" /\ locks = CountersOf(keys)
              /\ UNCHANGED locked
           \/ /\ t \in Acks \cup Releases /\ first = "scan" /\ locks \subseteq RowsOf(keys)
              /\ UNCHANGED locked /\ \E k \in Keys : keys = {k}
           \/ /\ t \in Claims /\ first = "end" /\ locks = {}
              /\ \E got \in SUBSET RowsOf(Keys) :
                   (\A l \in got : Lock!Free(l)) /\ locked' = [locked EXCEPT ![t] = got]
           \/ t \in Starts /\ first = "advisory" /\ locks = {Lock!Advisory} /\ UNCHANGED locked
  <2>1. CASE t \in Enqueues /\ Lock!Enqueue(t)
    <3>1. PICK keys \in SUBSET Keys :
            Lock!Begins(t, "insert", keys, {Lock!Counter(k) : k \in keys}) /\ UNCHANGED locked
      BY <2>1 DEF Lock!Enqueue
    <3>2. {Lock!Counter(k) : k \in keys} = CountersOf(keys)
      BY DEF CountersOf
    <3>3. CountersOf(keys) \in SUBSET Lock!LockNames
      BY NamesOf
    <3> QED
      BY <2>1, <3>1, <3>2, <3>3
  <2>2. CASE t \in Acks \cup Releases /\ Lock!Scan(t)
    <3>1. PICK k \in Keys : \E ds \in SUBSET {d \in rows : InboxOf[d] = k} :
            Lock!Begins(t, "scan", {k}, {Lock!Row(d) : d \in ds}) /\ UNCHANGED locked
      BY <2>2 DEF Lock!Scan
    <3>. PICK ds \in SUBSET {d \in rows : InboxOf[d] = k} :
           Lock!Begins(t, "scan", {k}, {Lock!Row(d) : d \in ds}) /\ UNCHANGED locked
      BY <3>1
    <3>2. {Lock!Row(d) : d \in ds} \subseteq RowsOf({k})
      BY DEF RowsOf, LockTypes
    <3>3. RowsOf({k}) \subseteq Lock!LockNames
      BY NamesOf
    <3>4. PICK locks \in SUBSET Lock!LockNames :
            Lock!Begins(t, "scan", {k}, locks) /\ locks \subseteq RowsOf({k}) /\ UNCHANGED locked
      BY <3>2, <3>3
    <3> QED
      BY <2>2, <3>4
  <2>3. CASE t \in Claims /\ Lock!Claim(t)
    <3>1. PICK k \in Keys : \E ds \in SUBSET {d \in rows : InboxOf[d] = k /\ Lock!Free(Lock!Row(d))} :
            Lock!Begins(t, "end", {k}, {}) /\ locked' = [locked EXCEPT ![t] = {Lock!Row(d) : d \in ds}]
      BY <2>3 DEF Lock!Claim
    <3>. PICK ds \in SUBSET {d \in rows : InboxOf[d] = k /\ Lock!Free(Lock!Row(d))} :
           Lock!Begins(t, "end", {k}, {}) /\ locked' = [locked EXCEPT ![t] = {Lock!Row(d) : d \in ds}]
      BY <3>1
    <3>2. {Lock!Row(d) : d \in ds} \subseteq RowsOf(Keys)
      BY DEF RowsOf, LockTypes
    <3>3. \A l \in {Lock!Row(d) : d \in ds} : Lock!Free(l)
      OBVIOUS
    <3> QED
      BY <2>3, <3>2, <3>3
  <2>4. CASE t \in Starts /\ Lock!Start(t)
    BY <2>4, NamesOf DEF Lock!Start
  <2> QED
    BY <2>1, <2>2, <2>3, <2>4 DEF Lock!Begin
<1>2. /\ stage[t] = "idle" /\ locked[t] = {}
      /\ stage'[t] = first /\ inboxes'[t] = keys /\ todo'[t] = locks /\ want' = want
      /\ rows' = rows /\ present' = present
  BY <1>1 DEF Lock!Begins, Lock!Idle, Fits, LockTypes
<1>3. PICK got \in SUBSET Lock!LockNames :
        /\ locked' = [locked EXCEPT ![t] = got]
        /\ \A l \in got : Lock!Free(l)
        /\ got # {} => t \in Claims
  <2>1. CASE UNCHANGED locked
    <3>1. locked' = [locked EXCEPT ![t] = {}]
      BY <1>2, <2>1 DEF LockTypes
    <3> QED
      BY <3>1
  <2>2. CASE ~UNCHANGED locked
    <3>1. RowsOf(Keys) \subseteq Lock!LockNames
      BY NamesOf
    <3> QED
      BY <1>1, <2>2, <3>1
  <2> QED
    BY <2>1, <2>2
<1>4. locked'[t] = got
  BY <1>3 DEF LockTypes
<1>5. LockTypes'
  BY <1>1, <1>2, <1>3 DEF LockTypes, Lock!Begins
<1>6. Aside(t)
  BY <1>1, <1>2, <1>3 DEF Aside, LockTypes, Lock!Begins
<1>7. want'[t] = None
  <2>1. Lock!NextLocks(t) = {}
    BY <1>2 DEF Fits, Lock!NextLocks
  <2> QED
    BY <1>2, <2>1 DEF Fits
<1>8. Fits(t)'
  <2>1. t \in Enqueues => EnqueueFits(t)' /\ first = "insert"
    <3> SUFFICES ASSUME t \in Enqueues
                 PROVE  EnqueueFits(t)' /\ first = "insert"
      OBVIOUS
    <3>1. first = "insert" /\ locks = CountersOf(keys) /\ got = {}
      BY <1>1, <1>3 DEF Lock!LocksAssumption
    <3>2. \A k \in keys : Lock!Counter(k) \in locks
      BY <3>1 DEF CountersOf
    <3> QED
      BY <1>2, <1>4, <3>1, <3>2 DEF EnqueueFits
  <2>2. t \in Acks \cup Releases => ScanFits(t)' /\ first = "scan"
    <3> SUFFICES ASSUME t \in Acks \cup Releases
                 PROVE  ScanFits(t)' /\ first = "scan"
      OBVIOUS
    <3>1. first = "scan" /\ locks \subseteq RowsOf(keys) /\ got = {} /\ \E k \in Keys : keys = {k}
      BY <1>1, <1>3 DEF Lock!LocksAssumption
    <3> QED
      BY <1>2, <1>4, <3>1 DEF ScanFits
  <2>3. t \in Claims => first = "end" /\ locks = {}
    BY <1>1 DEF Lock!LocksAssumption
  <2>4. t \in Starts => first = "advisory" /\ locks = {Lock!Advisory}
    BY <1>1 DEF Lock!LocksAssumption
  <2>5. first = "end" => locks = {}
    BY <1>1
  <2>6. first # "idle"
    OBVIOUS
  <2> QED
    BY <1>2, <1>7, <2>1, <2>2, <2>3, <2>4, <2>5, <2>6 DEF Fits
<1>9. \A u \in Lock!Transactions \ {t} : locked'[t] \cap locked[u] = {}
  BY <1>3, <1>4 DEF Lock!Free
<1> QED
  BY <1>5, <1>6, <1>8, <1>9, StepOf

LEMMA NextIsTodo ==
  ASSUME NEW t \in Lock!Transactions
  PROVE  Lock!NextLocks(t) \subseteq todo[t]
<1> QED
  BY DEF Lock!NextLocks

LEMMA WantStep ==
  ASSUME Lock!LocksAssumption, LocksIInv, NEW t \in Lock!Transactions,
         NEW l \in Lock!NextLocks(t),
         want' = [want EXCEPT ![t] = l], UNCHANGED <<rows, present, stage, inboxes, todo, locked>>
  PROVE  LocksIInv'
<1> USE DEF LocksIInv
<1>1. l \in Lock!LockNames
  BY NextIsTodo DEF LockTypes
<1>2. LockTypes' /\ want'[t] = l
  BY <1>1 DEF LockTypes
<1>3. Aside(t)
  BY DEF Aside, LockTypes
<1>4. Lock!NextLocks(t)' = Lock!NextLocks(t)
  BY DEF Lock!NextLocks
<1>5. EnqueueFits(t)' = EnqueueFits(t) /\ ScanFits(t)' = ScanFits(t)
  BY DEF EnqueueFits, ScanFits
<1>6. Fits(t)'
  BY <1>2, <1>4, <1>5 DEF Fits
<1>7. \A u \in Lock!Transactions \ {t} : locked'[t] \cap locked[u] = {}
  BY DEF Exclusive
<1> QED
  BY <1>2, <1>3, <1>6, <1>7, StepOf

\* An enqueue that takes its next counter has taken those before.
LEMMA TakeInOrder ==
  ASSUME Lock!LocksAssumption, LocksIInv, NEW t \in Enqueues, NEW l \in Lock!NextLocks(t),
         ~Lock!Blocked(t, l),
         Lock!Take(t, l)
  PROVE  EnqueueFits(t)'
<1>1. /\ t \in Lock!Transactions /\ EnqueueFits(t) /\ LockTypes /\ l \in todo[t]
      /\ stage[t] # "update" => \A m \in todo[t] : l[2] <= m[2]
  BY DEF LocksIInv, Fits, Lock!Transactions, Lock!NextLocks
<1>2. /\ stage' = stage /\ inboxes' = inboxes /\ present' = present
      /\ todo'[t] = todo[t] \ {l}
      /\ locked'[t] = IF Lock!Locks(t, l) THEN locked[t] \cup {l} ELSE locked[t]
  BY <1>1 DEF Lock!Take, LockTypes
<1>3. PICK b \in inboxes[t] : l = Lock!Counter(b)
  BY <1>1 DEF EnqueueFits, CountersOf
<1>4. stage[t] \in {"insert", "lock", "update"}
  BY <1>1 DEF EnqueueFits, LocksIInv, Fits
<1>5. inboxes[t] \subseteq Int
  BY <1>1 DEF LockTypes, Lock!LocksAssumption
<1>6. \A k \in inboxes[t] : Lock!Counter(k) \in todo'[t] <=> Lock!Counter(k) \in todo[t] /\ k # b
  BY <1>2, <1>3, Names
<1>7. stage[t] # "update" => \A k \in inboxes[t] : Lock!Counter(k) \in todo[t] => b <= k
  BY <1>1, <1>3, Names
<1>8. stage[t] # "update" =>
        \A j, k \in inboxes[t] : Lock!Counter(j) \notin todo'[t] /\ Lock!Counter(k) \in todo'[t] => j < k
  <2> SUFFICES ASSUME stage[t] # "update", NEW j \in inboxes[t], NEW k \in inboxes[t],
                      Lock!Counter(j) \notin todo'[t], Lock!Counter(k) \in todo'[t]
               PROVE  j < k
    OBVIOUS
  <2>1. Lock!Counter(k) \in todo[t] /\ b <= k /\ k # b
    BY <1>6, <1>7
  <2>2. CASE j = b
    BY <1>5, <2>1, <2>2
  <2>3. CASE j # b
    BY <1>1, <1>6, <2>1, <2>3 DEF EnqueueFits
  <2> QED
    BY <2>2, <2>3
<1>9. Lock!Locks(t, l) <=> (stage[t] = "insert" => b \notin present)
  BY <1>3, <1>4, Names DEF Lock!Locks
<1>10. \A k \in inboxes[t] :
          Lock!Counter(k) \in locked'[t] <=> Lock!Counter(k) \in locked[t] \/ (k = b /\ Lock!Locks(t, l))
  BY <1>2, <1>3, Names
<1>11. locked'[t] \subseteq locked[t] \cup {l}
  BY <1>2
<1>12. stage[t] = "insert" => locked'[t] \cap todo'[t] = {}
  BY <1>1, <1>2, <1>11 DEF EnqueueFits
<1>13. \A k \in inboxes[t] :
         Lock!Counter(k) \in locked'[t]
           /\ (stage[t] = "insert" \/ (stage[t] = "lock" /\ Lock!Counter(k) \in todo'[t])) =>
           k \notin present
  BY <1>1, <1>6, <1>9, <1>10 DEF EnqueueFits
<1>14. \A k \in inboxes[t] :
         stage[t] = "lock" \/ (stage[t] = "insert" /\ Lock!Counter(k) \notin todo'[t]) =>
           k \in present \/ Lock!Counter(k) \in locked'[t]
  BY <1>1, <1>6, <1>9, <1>10 DEF EnqueueFits
<1>15. todo'[t] \cup locked'[t] \subseteq CountersOf(inboxes[t])
  BY <1>1, <1>2, <1>11 DEF EnqueueFits
<1>16. \A k \in inboxes[t] :
         stage[t] = "update" \/ (stage[t] = "lock" /\ Lock!Counter(k) \notin todo'[t]) =>
           Lock!Counter(k) \in locked'[t]
  BY <1>1, <1>6, <1>9, <1>10 DEF EnqueueFits
<1> QED
  BY <1>2, <1>4, <1>8, <1>12, <1>13, <1>14, <1>15, <1>16 DEF EnqueueFits

LEMMA TakeOfScan ==
  ASSUME Lock!LocksAssumption, LocksIInv, NEW t \in Acks \cup Releases,
         NEW l \in Lock!NextLocks(t), Lock!Take(t, l)
  PROVE  ScanFits(t)'
<1>1. t \in Lock!Transactions /\ ScanFits(t) /\ LockTypes /\ l \in todo[t]
  BY NextIsTodo DEF LocksIInv, Fits, Lock!Transactions
<1>2. /\ stage' = stage /\ inboxes' = inboxes /\ todo'[t] = todo[t] \ {l}
      /\ locked'[t] \subseteq locked[t] \cup {l}
  BY <1>1 DEF Lock!Take, LockTypes
<1>3. stage[t] = "scan" \/ stage[t] = "lower"
  BY <1>1 DEF ScanFits, LocksIInv, Fits
<1>4. CASE stage[t] = "scan"
  BY <1>1, <1>2, <1>4 DEF ScanFits
<1>5. CASE stage[t] = "lower"
  <2>1. PICK k \in Keys : inboxes[t] = {k}
    BY <1>1, <1>5 DEF ScanFits
  <2>2. todo[t] \subseteq {Lock!Counter(k)}
    BY <1>1, <1>5, <2>1 DEF ScanFits, CountersOf
  <2>3. todo'[t] = {}
    BY <1>1, <1>2, <2>2
  <2> QED
    BY <1>1, <1>2, <1>5, <2>3 DEF ScanFits
<1> QED
  BY <1>3, <1>4, <1>5

LEMMA TakeStep ==
  ASSUME Lock!LocksAssumption, LocksIInv, NEW t \in Lock!Transactions,
         NEW l \in Lock!NextLocks(t), ~Lock!Blocked(t, l),
         Lock!Take(t, l)
  PROVE  LocksIInv'
<1> USE DEF LocksIInv
<1>1. l \in todo[t] /\ l \in Lock!LockNames
  BY NextIsTodo DEF LockTypes
<1>2. /\ rows' = rows /\ present' = present /\ stage' = stage /\ inboxes' = inboxes
      /\ todo'[t] = todo[t] \ {l} /\ want'[t] = None
      /\ locked'[t] = IF Lock!Locks(t, l) THEN locked[t] \cup {l} ELSE locked[t]
  BY DEF Lock!Take, LockTypes
<1>3. LockTypes'
  BY <1>1, <1>2 DEF Lock!Take, LockTypes
<1>4. Aside(t)
  BY <1>2 DEF Aside, Lock!Take, LockTypes
<1>5. \A u \in Lock!Transactions \ {t} : locked'[t] \cap locked[u] = {}
  <2>1. Lock!Locks(t, l) => \A u \in Lock!Transactions \ {t} : l \notin locked[u]
    BY DEF Lock!Locks, Lock!Blocked
  <2>2. \A u \in Lock!Transactions \ {t} : locked[t] \cap locked[u] = {}
    BY DEF Exclusive
  <2> QED
    BY <1>2, <2>1, <2>2
<1>6. t \in Enqueues => EnqueueFits(t)'
  BY TakeInOrder
<1>7. t \in Acks \cup Releases => ScanFits(t)'
  BY TakeOfScan
<1>8. Fits(t)'
  <2>1. stage[t] \notin {"idle", "end"}
    BY <1>1 DEF Fits
  <2> QED
    BY <1>2, <1>6, <1>7, <2>1 DEF Fits
<1> QED
  BY <1>3, <1>4, <1>5, <1>8, StepOf

LEMMA ProceedStep ==
  ASSUME Lock!LocksAssumption, LocksIInv, NEW t \in Lock!Transactions, Lock!Proceed(t)
  PROVE  LocksIInv'
<1> USE DEF LocksIInv
<1>1. /\ todo[t] = {} /\ stage[t] \notin {"idle", "end"}
      /\ UNCHANGED <<rows, present, inboxes, want, locked>>
  BY DEF Lock!Proceed
<1>2. PICK next \in {"lock", "update", "lower", "recount", "end"}, locks \in SUBSET Lock!LockNames :
        /\ stage' = [stage EXCEPT ![t] = next] /\ todo' = [todo EXCEPT ![t] = locks]
        /\ \/ stage[t] = "insert" /\ next = "lock" /\ locks = CountersOf(inboxes[t])
           \/ stage[t] = "lock" /\ next = "update" /\ locks = CountersOf(inboxes[t])
           \/ /\ stage[t] = "scan" /\ t \in Acks /\ next = "lower"
              /\ locks = CountersOf(inboxes[t])
           \/ stage[t] = "advisory" /\ next = "recount" /\ locks \subseteq CountersOf(Keys)
           \/ next = "end" /\ locks = {} /\ stage[t] \notin {"insert", "lock", "advisory"}
  <2>1. {Lock!Counter(k) : k \in inboxes[t]} = CountersOf(inboxes[t])
    BY DEF CountersOf
  <2>2. {Lock!Counter(InboxOf[d]) : d \in rows} \subseteq CountersOf(Keys)
    BY DEF CountersOf, LockTypes, Lock!LocksAssumption
  <2>3. CountersOf(inboxes[t]) \subseteq Lock!LockNames /\ CountersOf(Keys) \subseteq Lock!LockNames
    <3>1. inboxes[t] \in SUBSET Keys
      BY DEF LockTypes
    <3> QED
      BY <3>1, NamesOf
  <2>4. CASE stage[t] \in {"insert", "lock"}
    BY <2>1, <2>3, <2>4 DEF Lock!Proceed
  <2>5. CASE stage[t] = "scan" /\ t \in Acks /\ locked[t] # {}
    BY <2>1, <2>3, <2>5 DEF Lock!Proceed
  <2>6. CASE stage[t] = "advisory"
    BY <2>2, <2>3, <2>6 DEF Lock!Proceed
  <2>7. CASE /\ stage[t] \notin {"insert", "lock", "advisory"}
             /\ ~(stage[t] = "scan" /\ t \in Acks /\ locked[t] # {})
    <3>1. stage' = [stage EXCEPT ![t] = "end"] /\ todo' = [todo EXCEPT ![t] = {}]
      BY <2>7 DEF Lock!Proceed
    <3> QED
      BY <2>7, <3>1
  <2> QED
    BY <2>4, <2>5, <2>6, <2>7
<1>3. stage'[t] = next /\ todo'[t] = locks
  BY <1>2 DEF LockTypes
<1>4. LockTypes'
  BY <1>1, <1>2 DEF LockTypes
<1>5. Aside(t)
  BY <1>1, <1>2 DEF Aside, LockTypes
<1>6. want'[t] = None
  <2>1. Lock!NextLocks(t) = {}
    BY <1>1, NextIsTodo
  <2> QED
    BY <1>1, <2>1 DEF Fits
<1>7. t \in Enqueues => EnqueueFits(t)'
  <2> SUFFICES ASSUME t \in Enqueues
               PROVE  EnqueueFits(t)'
    OBVIOUS
  <2>1. EnqueueFits(t) /\ stage[t] \in {"insert", "lock", "update"} /\ t \notin Acks
    BY <1>1 DEF Fits, EnqueueFits, Lock!LocksAssumption
  <2>2. CASE stage[t] = "insert"
    <3>1. next = "lock" /\ locks = CountersOf(inboxes[t])
      BY <1>2, <2>1, <2>2
    <3>2. \A k \in inboxes[t] : Lock!Counter(k) \in locks
      BY <3>1 DEF CountersOf
    <3> QED
      BY <1>1, <1>3, <2>1, <2>2, <3>1, <3>2 DEF EnqueueFits
  <2>3. CASE stage[t] = "lock"
    <3>1. next = "update" /\ locks = CountersOf(inboxes[t])
      BY <1>2, <2>1, <2>3
    <3>2. \A k \in inboxes[t] : Lock!Counter(k) \in locked[t]
      BY <1>1, <2>1, <2>3 DEF EnqueueFits
    <3> QED
      BY <1>1, <1>3, <2>1, <2>3, <3>1, <3>2 DEF EnqueueFits
  <2>4. CASE stage[t] = "update"
    <3>1. next = "end" /\ locks = {}
      BY <1>2, <2>1, <2>4
    <3> QED
      BY <1>1, <1>3, <2>1, <2>4, <3>1 DEF EnqueueFits
  <2> QED
    BY <2>1, <2>2, <2>3, <2>4
<1>8. t \in Acks \cup Releases => ScanFits(t)'
  <2> SUFFICES ASSUME t \in Acks \cup Releases
               PROVE  ScanFits(t)'
    OBVIOUS
  <2>1. ScanFits(t) /\ stage[t] \in {"scan", "lower"}
    BY <1>1 DEF Fits, ScanFits
  <2>2. \/ stage[t] = "scan" /\ next = "lower" /\ locks = CountersOf(inboxes[t])
        \/ next = "end" /\ locks = {}
    BY <1>2, <2>1
  <2> QED
    BY <1>1, <1>3, <2>1, <2>2 DEF ScanFits
<1>9. /\ t \notin Claims
      /\ t \in Starts => next \in {"recount", "end"} /\ locks \subseteq CountersOf(Keys)
  <2>1. t \in Starts => stage[t] \in {"advisory", "recount"}
    BY <1>1 DEF Fits
  <2> QED
    BY <1>1, <1>2, <2>1 DEF Fits
<1>10. Fits(t)'
  <2>1. next = "end" => locks = {}
    BY <1>2
  <2> QED
    BY <1>1, <1>3, <1>6, <1>7, <1>8, <1>9, <2>1 DEF Fits
<1>11. \A u \in Lock!Transactions \ {t} : locked'[t] \cap locked[u] = {}
  BY <1>1 DEF Exclusive
<1> QED
  BY <1>4, <1>5, <1>10, <1>11, StepOf

\* A transaction that is over has no locks, whether it was committed or not.
LEMMA EndStep ==
  ASSUME Lock!LocksAssumption, LocksIInv, NEW t \in Lock!Transactions,
         Lock!Commit(t) \/ Lock!Fail(t) \/ Lock!Abort(t)
  PROVE  LocksIInv'
<1> USE DEF LocksIInv
<1>1. Lock!Ends(t)
  BY DEF Lock!Commit, Lock!Fail, Lock!Abort
<1>2. /\ rows' \subseteq Ids /\ present \subseteq present' /\ present' \subseteq Keys
      /\ \A k \in present' : k \in present \/ Lock!Counter(k) \in locked[t]
  <2>1. CASE Lock!Commit(t)
    BY <2>1 DEF Lock!Commit, LockTypes
  <2>2. CASE Lock!Fail(t) \/ Lock!Abort(t)
    BY <2>2 DEF Lock!Fail, Lock!Abort, LockTypes
  <2> QED
    BY <2>1, <2>2
<1>3. /\ stage'[t] = "idle" /\ inboxes'[t] = {} /\ todo'[t] = {} /\ want'[t] = None
      /\ locked'[t] = {}
  BY <1>1 DEF Lock!Ends, Lock!Over, LockTypes
<1>4. LockTypes'
  BY <1>1, <1>2 DEF Lock!Ends, Lock!Over, LockTypes
<1>5. Aside(t)
  BY <1>1, <1>2 DEF Aside, Lock!Ends, Lock!Over, LockTypes
<1>6. EnqueueFits(t)' /\ ScanFits(t)'
  BY <1>3 DEF EnqueueFits, ScanFits
<1>7. Fits(t)'
  BY <1>3, <1>6 DEF Fits
<1> QED
  BY <1>3, <1>4, <1>5, <1>7, StepOf

LEMMA NextLocksIInv ==
  ASSUME Lock!LocksAssumption, LocksIInv, [Lock!Next]_(Lock!vars)
  PROVE  LocksIInv'
<1>1. ASSUME NEW t \in Lock!Transactions, Lock!Request(t)
      PROVE  LocksIInv'
  BY <1>1, TakeStep, WantStep DEF Lock!Request
<1>2. ASSUME NEW t \in Lock!Transactions, Lock!Grant(t)
      PROVE  LocksIInv'
  <2>1. want[t] \in Lock!NextLocks(t)
    BY <1>2 DEF Lock!Grant, LocksIInv, Fits
  <2> QED
    BY <1>2, <2>1, TakeStep DEF Lock!Grant
<1>3. ASSUME NEW t \in Lock!Transactions, Lock!Begin(t) \/ Lock!Proceed(t)
      PROVE  LocksIInv'
  BY <1>3, BeginStep, ProceedStep
<1>4. ASSUME NEW t \in Lock!Transactions, Lock!Commit(t) \/ Lock!Fail(t) \/ Lock!Abort(t)
      PROVE  LocksIInv'
  BY <1>4, EndStep
<1>5. CASE UNCHANGED Lock!vars
  BY <1>5 DEF Lock!vars, LocksIInv, LockTypes, Exclusive, Fits, EnqueueFits, ScanFits,
    Lock!NextLocks
<1> QED
  BY <1>1, <1>2, <1>3, <1>4, <1>5 DEF Lock!Next, Lock!Runs

-----------------------------------------------------------------------------
(* Circles *)

\* Who waits in a closed set, waits for a lock of another one in it.
LEMMA WhoBlocks ==
  ASSUME Lock!LocksAssumption, LocksIInv, NEW P \in Lock!Closed, NEW t \in P
  PROVE  /\ P \subseteq Lock!Transactions
         /\ Lock!Blocker(t) \in P /\ Lock!Blocker(t) # t
         /\ want[t] \in locked[Lock!Blocker(t)] /\ want[t] \notin locked[t]
         /\ Lock!Blocked(t, want[t]) /\ want[t] # None /\ want[t] \in Lock!NextLocks(t)
         /\ want[t] \in todo[t] /\ stage[t] \notin {"idle", "end"}
<1>1. P \subseteq Lock!Transactions /\ Lock!Waiting(t) /\ {Lock!Blocker(u) : u \in P} = P
  BY DEF Lock!Closed
<1>2. Lock!Blocker(t) \in Lock!Transactions \ {t} /\ want[t] \in locked[Lock!Blocker(t)]
  BY <1>1 DEF Lock!Waiting, Lock!Blocked, Lock!Blocker
<1>3. want[t] \notin locked[t]
  BY <1>1, <1>2 DEF LocksIInv, Exclusive
<1>4. want[t] \in Lock!NextLocks(t) /\ want[t] # None
  BY <1>1 DEF Lock!Waiting, LocksIInv, Fits
<1>5. want[t] \in todo[t] /\ stage[t] \notin {"idle", "end"}
  BY <1>1, <1>4, NextIsTodo DEF LocksIInv, Fits
<1> QED
  BY <1>1, <1>2, <1>3, <1>4, <1>5 DEF Lock!Waiting

\* Part of a circle that waits only for itself is all of it: in a finite set
\* that is closed, each one waits for another.
LEMMA CircleIsWhole ==
  ASSUME Lock!LocksAssumption, NEW P \in Lock!Circles, NEW D \in SUBSET P, D # {},
         \A t \in D : Lock!Blocker(t) \in D
  PROVE  D = P
<1> DEFINE f == [t \in P |-> Lock!Blocker(t)]
           g == [t \in D |-> Lock!Blocker(t)]
<1>1. /\ P \in Lock!Closed /\ \A Q \in Lock!Closed : Q \subseteq P => Q = P
      /\ P \subseteq {t \in Lock!Transactions : Lock!Waiting(t)} /\ {Lock!Blocker(t) : t \in P} = P
  BY DEF Lock!Circles, Lock!Closed
<1>2. IsFiniteSet(P) /\ IsFiniteSet(D)
  BY <1>1, FS_Subset, LocksAreFinite
<1>3. f \in Surjection(P, P)
  BY <1>1 DEF Surjection
<1>4. f \in Injection(P, P)
  <2> HIDE DEF f
  <2> QED
    BY <1>2, <1>3, FS_SurjSameCardinalityImpliesInj
<1>5. g \in Injection(D, D)
  BY <1>4 DEF Injection, IsInjective
<1>6. g \in Surjection(D, D)
  <2> HIDE DEF g
  <2> QED
    BY <1>2, <1>5, FS_Injection
<1>7. {Lock!Blocker(t) : t \in D} = D
  BY <1>6 DEF Surjection
<1>8. D \in Lock!Closed
  BY <1>1, <1>7 DEF Lock!Closed
<1> QED
  BY <1>1, <1>8

\* Who waits for a counter or to start does not wait for a request that waits
\* for rows, and the other way round nobody passes from one inbox to another.
LEMMA StartsAndEnqueues ==
  ASSUME Lock!LocksAssumption, LocksIInv, NEW P \in Lock!Closed, NEW t \in P,
         t \in Enqueues \cup Starts
  PROVE  Lock!Blocker(t) \in Enqueues \cup Starts
<1> DEFINE u == Lock!Blocker(t)
<1>1. /\ t \in Lock!Transactions /\ u \in P /\ u \in Lock!Transactions /\ want[t] \in locked[u]
      /\ want[t] \in todo[t] /\ todo[u] # {} /\ stage[u] \notin {"idle", "end"}
  BY WhoBlocks
<1>2. inboxes[t] \in SUBSET Keys
  BY <1>1 DEF LocksIInv, LockTypes
<1>3. todo[t] \subseteq {Lock!Advisory} \cup CountersOf(Keys)
  BY <1>1, <1>2 DEF LocksIInv, Fits, EnqueueFits, CountersOf
<1>4. u \in Acks \cup Releases => locked[u] \subseteq RowsOf(inboxes[u])
  BY <1>1 DEF LocksIInv, Fits, ScanFits
<1>5. want[t] \notin RowsOf(inboxes[u])
  BY <1>1, <1>3, Names DEF RowsOf, CountersOf
<1>6. u \notin Claims
  BY <1>1 DEF LocksIInv, Fits
<1> QED
  BY <1>1, <1>4, <1>5, <1>6 DEF Lock!Transactions

LEMMA Scans ==
  ASSUME Lock!LocksAssumption, LocksIInv, NEW P \in Lock!Closed,
         P \cap (Enqueues \cup Starts) = {}, NEW t \in P
  PROVE  /\ t \in Acks \cup Releases /\ stage[t] = "scan"
         /\ inboxes[Lock!Blocker(t)] = inboxes[t]
<1> DEFINE u == Lock!Blocker(t)
<1>1. /\ t \in Lock!Transactions /\ u \in P /\ u \in Lock!Transactions /\ want[t] \in locked[u]
      /\ want[t] \in todo[t] /\ stage[t] \notin {"idle", "end"}
      /\ todo[u] # {} /\ stage[u] \notin {"idle", "end"}
  BY WhoBlocks
<1>2. t \in Acks \cup Releases /\ u \in Acks \cup Releases
  BY <1>1 DEF LocksIInv, Fits, Lock!Transactions
<1>3. ScanFits(t) /\ ScanFits(u)
  BY <1>1, <1>2 DEF LocksIInv, Fits
<1>4. want[t] \in RowsOf(inboxes[u])
  BY <1>1, <1>3 DEF ScanFits
<1>5. want[t] \notin CountersOf(inboxes[t])
  BY <1>4, Names DEF RowsOf, CountersOf
<1>6. stage[t] = "scan"
  BY <1>1, <1>3, <1>5 DEF ScanFits
<1>7. want[t] \in RowsOf(inboxes[t])
  BY <1>1, <1>3, <1>6 DEF ScanFits
<1>8. PICK j \in Keys, k \in Keys : inboxes[t] = {j} /\ inboxes[u] = {k}
  BY <1>1, <1>3 DEF ScanFits
<1>9. j = k
  BY <1>4, <1>7, <1>8, Names DEF RowsOf
<1> QED
  BY <1>2, <1>6, <1>8, <1>9

\* Enqueues that wait for each other wait at later and later keys: who has
\* updated a counter has all its locks and waits for nobody.
LEMMA EnqueuesAscend ==
  ASSUME Lock!LocksAssumption, LocksIInv, NEW P \in Lock!Closed, NEW t \in P,
         t \in Enqueues,
         Lock!Blocker(t) \in Enqueues
  PROVE  /\ stage[t] = "insert" \/ stage[t] = "lock"
         /\ stage[t] = "lock" => stage[Lock!Blocker(t)] = "lock"
         /\ stage[t] = stage[Lock!Blocker(t)] => want[t][2] < want[Lock!Blocker(t)][2]
         /\ want[t][2] \in Int
<1> DEFINE u == Lock!Blocker(t)
<1>1. /\ t \in Lock!Transactions /\ u \in P /\ u \in Lock!Transactions /\ want[t] \in locked[u]
      /\ want[t] \notin locked[t]
      /\ want[t] \in todo[t] /\ stage[t] \notin {"idle", "end"}
      /\ want[u] \in todo[u] /\ stage[u] \notin {"idle", "end"}
      /\ Lock!Blocked(t, want[t])
  BY WhoBlocks
<1>2. EnqueueFits(t) /\ EnqueueFits(u)
  BY <1>1 DEF LocksIInv, Fits
<1>3. PICK j \in inboxes[t], k \in inboxes[u] : want[t] = Lock!Counter(j) /\ want[u] = Lock!Counter(k)
  BY <1>1, <1>2 DEF EnqueueFits, CountersOf
<1>4. j \in inboxes[u]
  BY <1>1, <1>2, <1>3, Names DEF EnqueueFits, CountersOf
<1>5. stage[t] = "insert" \/ stage[t] = "lock"
  BY <1>1, <1>2, <1>3 DEF EnqueueFits
<1>6. stage[u] = "insert" \/ stage[u] = "lock"
  <2>1. want[u] \notin locked[u]
    BY <1>1, WhoBlocks
  <2> QED
    BY <1>1, <1>2, <1>3, <2>1 DEF EnqueueFits
<1>7. stage[t] = "lock" => j \in present
  BY <1>1, <1>2, <1>3 DEF EnqueueFits
<1>8. stage[t] = "lock" => stage[u] = "lock" /\ Lock!Counter(j) \notin todo[u]
  BY <1>1, <1>2, <1>3, <1>4, <1>6, <1>7 DEF EnqueueFits
<1>9. stage[u] = "insert" => Lock!Counter(j) \notin todo[u]
  BY <1>1, <1>2, <1>3 DEF EnqueueFits
<1>10. stage[t] = stage[u] => j < k
  BY <1>1, <1>2, <1>3, <1>4, <1>5, <1>8, <1>9 DEF EnqueueFits
<1>11. want[t][2] = j /\ want[u][2] = k
  BY <1>3, Names
<1>12. j \in Int
  BY <1>1, <1>3 DEF LocksIInv, LockTypes, Lock!LocksAssumption
<1> QED
  BY <1>5, <1>8, <1>10, <1>11, <1>12

\* There is a last one among finitely many that wait at keys.
LEMMA SomebodyIsLast ==
  ASSUME NEW P, IsFiniteSet(P), P # {}, \A t \in P : want[t][2] \in Int
  PROVE  \E t \in P : \A u \in P : ~(want[t][2] < want[u][2])
<1> DEFINE After(t) == {u \in P : want[t][2] < want[u][2]}
           Afters == {After(t) : t \in P}
<1>1. Afters \subseteq FiniteSubsetsOf(P) /\ Afters # {}
  <2>1. FiniteSubsetsOf(P) = SUBSET P
    BY FS_FiniteSubsetsOfFinite
  <2>2. \A t \in P : After(t) \in SUBSET P
    OBVIOUS
  <2> HIDE DEF After
  <2> QED
    BY <2>1, <2>2
<1>2. \E A \in Afters : \A B \in Afters : ~ (<<B, A>> \in StrictSubsetOrdering(P))
  <2>1. IsWellFoundedOn(StrictSubsetOrdering(P), FiniteSubsetsOf(P))
    BY FS_StrictSubsetOrderingWellFounded
  <2> HIDE DEF Afters
  <2> QED
    BY <1>1, <2>1, WFMin, Zenon
<1>3. PICK t \in P : \A u \in P : ~ (<<After(u), After(t)>> \in StrictSubsetOrdering(P))
  BY <1>2
<1>4. ASSUME NEW u \in P, want[t][2] < want[u][2]
      PROVE  FALSE
  <2>1. u \in After(t) /\ u \notin After(u)
    BY <1>4
  <2>2. After(u) \subseteq After(t) /\ After(t) \subseteq P /\ After(u) \subseteq P
    BY <1>4
  <2>3. <<After(u), After(t)>> \in StrictSubsetOrdering(P)
    <3> HIDE DEF After
    <3> QED
      BY <2>1, <2>2 DEF StrictSubsetOrdering
  <2> QED
    BY <1>3, <2>3
<1> QED
  BY <1>3, <1>4

LEMMA NoCircleOfEnqueues ==
  ASSUME Lock!LocksAssumption, LocksIInv, NEW P \in Lock!Circles, P \subseteq Enqueues
  PROVE  FALSE
<1> DEFINE D == {t \in P : stage[t] = "lock"}
<1>1. P \in Lock!Closed /\ P # {} /\ P \subseteq Lock!Transactions
  BY DEF Lock!Circles, Lock!Closed
<1>2. \A t \in P : Lock!Blocker(t) \in P
  BY <1>1, WhoBlocks
<1>3. \A t \in P : /\ stage[t] = "insert" \/ stage[t] = "lock"
                   /\ stage[t] = "lock" => stage[Lock!Blocker(t)] = "lock"
                   /\ stage[t] = stage[Lock!Blocker(t)] => want[t][2] < want[Lock!Blocker(t)][2]
                   /\ want[t][2] \in Int
  BY <1>1, <1>2, EnqueuesAscend
<1>4. D = {} \/ D = P
  <2>1. D \in SUBSET P /\ \A t \in D : Lock!Blocker(t) \in D
    BY <1>2, <1>3
  <2> HIDE DEF D
  <2> QED
    BY <2>1, CircleIsWhole
<1>5. \A t \in P : want[t][2] < want[Lock!Blocker(t)][2]
  BY <1>2, <1>3, <1>4
<1>6. IsFiniteSet(P)
  BY <1>1, FS_Subset, LocksAreFinite
<1>7. \E t \in P : \A u \in P : ~(want[t][2] < want[u][2])
  BY <1>1, <1>3, <1>6, SomebodyIsLast
<1> QED
  BY <1>2, <1>5, <1>7

LEMMA CirclesKnown ==
  ASSUME Lock!LocksAssumption, LocksIInv
  PROVE  Lock!CirclesAreKnown
<1> SUFFICES ASSUME NEW P \in Lock!Circles
             PROVE  \/ /\ P \subseteq Acks \cup Releases
                       /\ \A t, u \in P : inboxes[t] = inboxes[u]
                       /\ \A t \in P : stage[t] = "scan"
                    \/ P \subseteq Enqueues \cup Starts /\ P \cap Starts # {}
  BY DEF Lock!CirclesAreKnown
<1> DEFINE E == P \cap (Enqueues \cup Starts)
<1>1. P \in Lock!Closed /\ P # {} /\ \A t \in P : Lock!Blocker(t) \in P
  <2>1. P \in Lock!Closed /\ P # {}
    BY DEF Lock!Circles, Lock!Closed
  <2> QED
    BY <2>1, WhoBlocks
<1>2. CASE E # {}
  <2>1. E \in SUBSET P /\ \A t \in E : Lock!Blocker(t) \in E
    BY <1>1, StartsAndEnqueues
  <2>2. E = P
    <3> HIDE DEF E
    <3> QED
      BY <1>2, <2>1, CircleIsWhole
  <2>3. P \cap Starts # {}
    BY <2>2, NoCircleOfEnqueues
  <2> QED
    BY <2>2, <2>3
<1>3. CASE E = {}
  <2>1. \A t \in P : /\ t \in Acks \cup Releases /\ stage[t] = "scan"
                     /\ inboxes[Lock!Blocker(t)] = inboxes[t]
    BY <1>1, <1>3, Scans
  <2>2. ASSUME NEW t \in P, NEW u \in P
        PROVE  inboxes[t] = inboxes[u]
    <3> DEFINE D == {v \in P : inboxes[v] = inboxes[t]}
    <3>1. D \in SUBSET P /\ D # {} /\ \A v \in D : Lock!Blocker(v) \in D
      BY <1>1, <2>1
    <3>2. D = P
      <4> HIDE DEF D
      <4> QED
        BY <3>1, CircleIsWhole
    <3> QED
      BY <3>2
  <2> QED
    BY <2>1, <2>2
<1> QED
  BY <1>2, <1>3

\* In every circle of waiting transactions are acks and releases that scan
\* rows of one inbox, or else enqueues and at least one instance that starts:
\* enqueues take counters in the order of the keys, claims wait for nothing,
\* and who has a counter to lower waits for no row any more.  So circles
\* never mix the two, and serving instances only meet those of scans
\* (insert_inbox_messages, claim_once, ack_messages, release_messages, migrate).
THEOREM OnlyKnownCircles ==
  ASSUME Lock!LocksAssumption
  PROVE  Lock!Spec => []Lock!CirclesAreKnown
<1>1. Lock!Init => LocksIInv
  BY InitLocks
<1>2. LocksIInv /\ [Lock!Next]_(Lock!vars) => LocksIInv'
  BY NextLocksIInv
<1>3. LocksIInv => Lock!CirclesAreKnown
  BY CirclesKnown
<1> QED
  BY <1>1, <1>2, <1>3, PTL DEF Lock!Spec
=============================================================================
