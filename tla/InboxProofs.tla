---------------------------- MODULE InboxProofs ----------------------------
(***************************************************************************)
(* Theorems about Inbox for every set of inboxes, senders and consumers    *)
(* and every number of deliveries: its invariant, that it implements       *)
(* InboxStore, and that its enqueues and acks never wait in a circle.      *)
(***************************************************************************)
EXTENDS InboxRefinement, FiniteSetTheorems, TLAPS

(* Facts about the operators. *)

\* A non-empty set of keys has a first one (the sorted pass always has a next
\* key while it is not done).
LEMMA FirstKeyInTodo ==
  ASSUME NEW s \in Senders, enq[s].todo \subseteq Keys, enq[s].todo # {}
  PROVE  FirstKey(s) \in enq[s].todo
<1>1. enq[s].todo \subseteq Nat
  BY KeysAssumption
<1>2. \E k \in enq[s].todo : \A j \in enq[s].todo :
        ~ (<<j, k>> \in OpToRel(<, Nat))
  BY <1>1, WFMin, NatLessThanWellFounded, Zenon
<1>3. \A k, j \in Nat : ~ (<<j, k>> \in OpToRel(<, Nat)) => k <= j
  BY DEF OpToRel
<1>4. \E k \in enq[s].todo : \A j \in enq[s].todo : k <= j
  BY <1>1, <1>2, <1>3
<1> QED
  BY <1>4 DEF FirstKey

\* The deliveries of an inbox are finitely many.
LEMMA RowsFinite ==
  ASSUME NEW S \in SUBSET Ids
  PROVE  IsFiniteSet(S) /\ Cardinality(S) \in Nat
<1>1. IsFiniteSet(Ids)
  BY BoundsAssumption, FS_Interval DEF Ids
<1> QED
  BY <1>1, FS_Subset, FS_CardinalityType

\* The initial state.
LEMMA InitIInv == Init => IInv
<1> SUFFICES ASSUME Init PROVE IInv
  OBVIOUS
<1> USE BoundsAssumption, ActorsAssumption
<1>1. TypeOK
  BY DEF Init, TypeOK, IdleEnq, IdleCon, EnqPC, ConPC, Outcome, Ids, NoRow
<1>2. SendersOK /\ DeliveriesOK
  BY DEF Init, SendersOK, FreshLocked, PassDone, DeliveriesOK, IdleEnq, Ids
<1>3. RowsHeld /\ LeasesOnRows
  BY DEF Init, RowsHeld, LeasesOnRows, IdleCon
<1>4. CountExact /\ WithinCapacity /\ AllOrNothing
  BY FS_EmptySet DEF Init, CountExact, WithinCapacity, AllOrNothing
<1> QED
  BY <1>1, <1>2, <1>3, <1>4 DEF IInv

-----------------------------------------------------------------------------
(* What a step leaves alone. *)

\* A step of somebody else keeps what the transaction of sender t relies on, if
\* it leaves the counts that t has locked and makes no row of inbox_counts
\* disappear.
LEMMA SenderKept ==
  ASSUME NEW t \in Senders, FreshLocked(t), PassDone(t), TypeOK, DeliveriesOK,
         enq'[t] = enq[t],
         enq[t].pc # "idle" => dest'[enq[t].msg] = dest[enq[t].msg],
         \A k \in Keys : countLock[k] = t /\ HasRow(t, k) =>
                           countLock'[k] = t /\ counts'[k] = counts[k],
         \A k \in Keys : counts[k] # NoRow => counts'[k] # NoRow
  PROVE  FreshLocked(t)' /\ PassDone(t)'
<1> DEFINE D == dest[enq[t].msg]
<1>1. enq[t].pc # "idle" => D \subseteq Keys
  BY BoundsAssumption DEF TypeOK, DeliveriesOK, Ids
<1>2. enq[t].fresh \subseteq Keys
  BY DEF TypeOK
<1>3. FreshLocked(t)'
  BY <1>2 DEF FreshLocked, HasRow
<1>4. \A k \in Keys : HasRow(t, k) => HasRow(t, k)'
  BY DEF HasRow
<1>5. \A k \in Keys : Counted(t, k) => Counted(t, k)'
  BY <1>4 DEF Counted, CountSeen
<1>6. PassDone(t)'
  BY <1>1, <1>4, <1>5 DEF PassDone, Visited
<1> QED
  BY <1>3, <1>6

\* A step of a sender keeps what the claims and acks rely on, if stored
\* deliveries stay and the locks of the acks are respected.
LEMMA ConsumersKept ==
  ASSUME RowsHeld, UNCHANGED <<con, lease>>,
         \A k \in Keys : rows[k] \subseteq rows'[k],
         \A k \in Keys, c \in Consumers : countLock[k] = c => countLock'[k] = c
  PROVE  RowsHeld'
BY DEF RowsHeld

-----------------------------------------------------------------------------
(* One lemma per action of a sender. *)

LEMMA BeginStep ==
  ASSUME IInv, NEW s \in Senders, NEW K \in (SUBSET Keys) \ {{}}, Begin(s, K)
  PROVE  IInv'
<1> USE BoundsAssumption DEF IInv
<1> DEFINE m == nextId + 1
<1>1. /\ m \in Ids /\ nextId' = m /\ enq[s].pc = "idle"
      /\ UNCHANGED <<counts, countLock, rows, lease, con, acked>>
      /\ dest' = [dest EXCEPT ![m] = K]
      /\ outcome' = [outcome EXCEPT ![m] = "open"]
      /\ enq' = [enq EXCEPT ![s] =
                   [pc |-> "ensure", msg |-> m, todo |-> K, fresh |-> {}]]
  BY DEF Begin, TypeOK, Ids, tables
<1>2. TypeOK'
  BY <1>1 DEF TypeOK, EnqPC, Outcome, Ids
<1>3. outcome[m] = "unsent" /\ dest[m] = {}
  BY <1>1 DEF TypeOK, DeliveriesOK, Ids
<1>4. enq'[s] = [pc |-> "ensure", msg |-> m, todo |-> K, fresh |-> {}]
  BY <1>1 DEF TypeOK
<1>5. \A t \in Senders \ {s} : enq'[t] = enq[t]
  BY <1>1 DEF TypeOK
<1>6. \A t \in Senders : enq[t].pc # "idle" => enq[t].msg # m
  BY <1>1 DEF DeliveriesOK, TypeOK
<1>7. \A n \in Ids \ {m} : dest'[n] = dest[n] /\ outcome'[n] = outcome[n]
  BY <1>1 DEF TypeOK
<1>8. dest'[m] = K /\ outcome'[m] = "open"
  BY <1>1 DEF TypeOK
<1>9. SendersOK'
  <2> SUFFICES ASSUME NEW t \in Senders
               PROVE  FreshLocked(t)' /\ PassDone(t)'
    BY DEF SendersOK
  <2>1. CASE t = s
    BY <2>1, <1>4, <1>8 DEF FreshLocked, PassDone, Visited
  <2>2. CASE t # s
    <3>1. enq[t].pc # "idle" => dest'[enq[t].msg] = dest[enq[t].msg]
      BY <1>6, <1>7 DEF TypeOK, DeliveriesOK, Ids
    <3> QED
      BY <2>2, <3>1, <1>1, <1>5, SenderKept DEF SendersOK
  <2> QED
    BY <2>1, <2>2
<1>10. DeliveriesOK'
  BY <1>1, <1>3, <1>4, <1>5, <1>6, <1>7, <1>8 DEF DeliveriesOK, TypeOK, Ids
<1>11. RowsHeld' /\ LeasesOnRows' /\ CountExact' /\ WithinCapacity'
  BY <1>1 DEF RowsHeld, LeasesOnRows, CountExact, WithinCapacity
<1>12. AllOrNothing'
  BY <1>1, <1>3, <1>7, <1>8 DEF AllOrNothing, TypeOK
<1> QED
  BY <1>2, <1>9, <1>10, <1>11, <1>12

\* What all the later steps of a delivery have in common.
LEMMA OpenDelivery ==
  ASSUME TypeOK, DeliveriesOK, NEW s \in Senders, enq[s].pc # "idle"
  PROVE  /\ enq[s].msg \in Ids
         /\ dest[enq[s].msg] \in SUBSET Keys
         /\ dest[enq[s].msg] # {}
         /\ enq[s].pc # "rollback" => outcome[enq[s].msg] = "open"
BY BoundsAssumption DEF TypeOK, DeliveriesOK, Ids

\* The step from one sorted key to the next.
LEMMA AdvanceIs ==
  ASSUME TypeOK, NEW s \in Senders, NEW k, NEW next
  PROVE  Advance(s, k, next) =
           [pc |-> IF enq[s].todo = {k} THEN next ELSE enq[s].pc,
            msg |-> enq[s].msg,
            todo |-> IF enq[s].todo = {k} THEN dest[enq[s].msg]
                                          ELSE enq[s].todo \ {k},
            fresh |-> enq[s].fresh]
<1>1. enq[s] \in [pc : EnqPC, msg : 0..MaxEnqueues, todo : SUBSET Keys,
                  fresh : SUBSET Keys]
  BY DEF TypeOK
<1>2. CASE enq[s].todo = {k}
  BY <1>1, <1>2 DEF Advance
<1>3. CASE enq[s].todo # {k}
  BY <1>1, <1>3 DEF Advance
<1> QED
  BY <1>2, <1>3

LEMMA EnsureRowStep ==
  ASSUME IInv, NEW s \in Senders, EnsureRow(s)
  PROVE  IInv'
<1> USE DEF IInv
<1> DEFINE D == dest[enq[s].msg]
<1>1. /\ enq[s].pc = "ensure"
      /\ ~Dirty(FirstKey(s))
      /\ UNCHANGED <<nextId, counts, rows, lease, con, dest, outcome, acked>>
  BY DEF EnsureRow, tables, history
<1>2. /\ D \in SUBSET Keys /\ enq[s].msg \in Ids
      /\ enq[s].todo \subseteq D /\ enq[s].todo # {}
  BY <1>1, OpenDelivery DEF SendersOK, PassDone
<1>3. PICK k \in enq[s].todo : k = FirstKey(s)
  BY <1>2, FirstKeyInTodo
<1>4. k \in Keys
  BY <1>2
<1>5. \A t \in Senders : countLock[k] = t /\ HasRow(t, k) => counts[k] # NoRow
  BY <1>1, <1>3 DEF Dirty, HasRow
<1>6. \A c \in Consumers : con[c].pc = "ackCommit" => con[c].key # k
  BY <1>1, <1>3 DEF Dirty
<1>7. enq' = [enq EXCEPT ![s] =
               [pc |-> IF enq[s].todo = {k} THEN "lock" ELSE "ensure",
                msg |-> enq[s].msg,
                todo |-> IF enq[s].todo = {k} THEN D ELSE enq[s].todo \ {k},
                fresh |-> IF counts[k] = NoRow THEN enq[s].fresh \cup {k}
                                               ELSE enq[s].fresh]]
  BY <1>1, <1>3, AdvanceIs DEF EnsureRow
<1>8. countLock' = IF counts[k] = NoRow THEN [countLock EXCEPT ![k] = s]
                                        ELSE countLock
  BY <1>3 DEF EnsureRow
<1>9. TypeOK'
  <2>1. enq' \in [Senders -> [pc : EnqPC, msg : 0..MaxEnqueues,
                              todo : SUBSET Keys, fresh : SUBSET Keys]]
    BY <1>2, <1>4, <1>7 DEF TypeOK, EnqPC
  <2>2. countLock' \in [Keys -> Actors \cup {None}]
    BY <1>8 DEF TypeOK, Actors
  <2> QED
    BY <2>1, <2>2, <1>1 DEF TypeOK
<1>10. /\ \A t \in Senders \ {s} : enq'[t] = enq[t]
       /\ enq'[s].msg = enq[s].msg
       /\ enq'[s].pc = IF enq[s].todo = {k} THEN "lock" ELSE "ensure"
       /\ enq'[s].todo = IF enq[s].todo = {k} THEN D ELSE enq[s].todo \ {k}
       /\ counts[k] = NoRow => enq'[s].fresh = enq[s].fresh \cup {k}
       /\ counts[k] # NoRow => enq'[s].fresh = enq[s].fresh
  BY <1>7 DEF TypeOK
<1>11. SendersOK'
  <2> SUFFICES ASSUME NEW t \in Senders
               PROVE  FreshLocked(t)' /\ PassDone(t)'
    BY DEF SendersOK
  <2>1. CASE t = s
    <3>1. FreshLocked(s)'
      BY <1>1, <1>4, <1>8, <1>10 DEF FreshLocked, SendersOK, TypeOK
    <3>2. \A j \in Keys : j = k \/ HasRow(s, j) => HasRow(s, j)'
      BY <1>1, <1>10 DEF HasRow
    <3>3. \A j \in D \ enq[s].todo : HasRow(s, j)
      BY <1>1 DEF SendersOK, PassDone, Visited
    <3>4. CASE enq[s].todo = {k}
      BY <3>1, <3>2, <3>3, <3>4, <2>1, <1>1, <1>2, <1>10 DEF PassDone, Visited
    <3>5. CASE enq[s].todo # {k}
      BY <3>1, <3>2, <3>3, <3>5, <2>1, <1>1, <1>2, <1>10 DEF PassDone, Visited
    <3> QED
      BY <3>4, <3>5
  <2>2. CASE t # s
    BY <2>2, <1>1, <1>5, <1>8, <1>10, SenderKept DEF SendersOK, TypeOK
  <2> QED
    BY <2>1, <2>2
<1>12. DeliveriesOK'
  BY <1>1, <1>10 DEF DeliveriesOK
<1>13. RowsHeld'
  BY <1>1, <1>6, <1>8 DEF RowsHeld, TypeOK
<1>14. CountExact' /\ WithinCapacity' /\ AllOrNothing' /\ LeasesOnRows'
  BY <1>1 DEF CountExact, WithinCapacity, AllOrNothing, LeasesOnRows
<1> QED
  BY <1>9, <1>11, <1>12, <1>13, <1>14

LEMMA LockCountStep ==
  ASSUME IInv, NEW s \in Senders, LockCount(s)
  PROVE  IInv'
<1> USE DEF IInv
<1> DEFINE D == dest[enq[s].msg]
<1>1. /\ enq[s].pc = "lock"
      /\ UNCHANGED <<nextId, counts, rows, lease, con, dest, outcome, acked>>
  BY DEF LockCount, tables, history
<1>2. /\ D \in SUBSET Keys /\ enq[s].msg \in Ids
      /\ enq[s].todo \subseteq D /\ enq[s].todo # {}
      /\ \A j \in D : HasRow(s, j)
      /\ \A j \in D \ enq[s].todo : Counted(s, j)
  BY <1>1, OpenDelivery DEF SendersOK, PassDone, Visited
<1>3. PICK k \in enq[s].todo : k = FirstKey(s)
  BY <1>2, FirstKeyInTodo
<1>4. /\ k \in Keys
      /\ countLock[k] \in {None, s}
      /\ CountSeen(s, k) < MaxRequests
      /\ countLock' = [countLock EXCEPT ![k] = s]
  BY <1>2, <1>3 DEF LockCount
<1>5. enq' = [enq EXCEPT ![s] =
               [pc |-> IF enq[s].todo = {k} THEN "write" ELSE "lock",
                msg |-> enq[s].msg,
                todo |-> IF enq[s].todo = {k} THEN D ELSE enq[s].todo \ {k},
                fresh |-> enq[s].fresh]]
  BY <1>1, <1>3, AdvanceIs DEF LockCount
<1>6. TypeOK'
  <2>1. enq' \in [Senders -> [pc : EnqPC, msg : 0..MaxEnqueues,
                              todo : SUBSET Keys, fresh : SUBSET Keys]]
    BY <1>2, <1>5 DEF TypeOK, EnqPC
  <2>2. countLock' \in [Keys -> Actors \cup {None}]
    BY <1>4 DEF TypeOK, Actors
  <2> QED
    BY <2>1, <2>2, <1>1 DEF TypeOK
<1>7. /\ \A t \in Senders \ {s} : enq'[t] = enq[t]
      /\ enq'[s].msg = enq[s].msg
      /\ enq'[s].pc = IF enq[s].todo = {k} THEN "write" ELSE "lock"
      /\ enq'[s].todo = IF enq[s].todo = {k} THEN D ELSE enq[s].todo \ {k}
      /\ enq'[s].fresh = enq[s].fresh
  BY <1>5 DEF TypeOK
<1>8. SendersOK'
  <2> SUFFICES ASSUME NEW t \in Senders
               PROVE  FreshLocked(t)' /\ PassDone(t)'
    BY DEF SendersOK
  <2>1. CASE t = s
    <3>1. FreshLocked(s)'
      BY <1>1, <1>4, <1>7 DEF FreshLocked, SendersOK, TypeOK
    <3>2. \A j \in Keys : HasRow(s, j) => HasRow(s, j)'
      BY <1>1, <1>7 DEF HasRow
    <3>3. \A j \in D : j = k \/ Counted(s, j) => Counted(s, j)'
      BY <3>2, <1>1, <1>2, <1>4, <1>7 DEF Counted, CountSeen, TypeOK
    <3>4. CASE enq[s].todo = {k}
      BY <3>1, <3>3, <3>4, <2>1, <1>1, <1>2, <1>7 DEF PassDone
    <3>5. CASE enq[s].todo # {k}
      BY <3>1, <3>2, <3>3, <3>5, <2>1, <1>1, <1>2, <1>7 DEF PassDone, Visited
    <3> QED
      BY <3>4, <3>5
  <2>2. CASE t # s
    BY <2>2, <1>1, <1>4, <1>7, SenderKept, ActorsAssumption
    DEF SendersOK, TypeOK
  <2> QED
    BY <2>1, <2>2
<1>9. DeliveriesOK'
  BY <1>1, <1>7 DEF DeliveriesOK
<1>10. RowsHeld'
  BY <1>1, <1>4, ConsumersKept, ActorsAssumption DEF TypeOK
<1>11. CountExact' /\ WithinCapacity' /\ AllOrNothing' /\ LeasesOnRows'
  BY <1>1 DEF CountExact, WithinCapacity, AllOrNothing, LeasesOnRows
<1> QED
  BY <1>6, <1>8, <1>9, <1>10, <1>11

\* A step that gives up a delivery: Refuse and FailEnqueue.
LEMMA GiveUpStep ==
  ASSUME IInv, NEW s \in Senders, enq[s].pc \notin {"idle", "rollback"},
         enq' = [enq EXCEPT ![s].pc = "rollback"],
         NEW o \in {"full", "error"},
         outcome' = [outcome EXCEPT ![enq[s].msg] = o],
         countLock' \in [Keys -> Actors \cup {None}],
         \A k \in Keys : countLock'[k] # countLock[k] =>
                           countLock[k] = None /\ countLock'[k] = s,
         UNCHANGED <<nextId, counts, rows, lease, con, dest, acked>>
  PROVE  IInv'
<1> USE DEF IInv
<1>1. enq[s].msg \in Ids /\ outcome[enq[s].msg] = "open"
  BY OpenDelivery
<1>2. TypeOK'
  <2>1. enq[s] \in [pc : EnqPC, msg : 0..MaxEnqueues, todo : SUBSET Keys,
                    fresh : SUBSET Keys]
    BY DEF TypeOK
  <2>2. [enq[s] EXCEPT !.pc = "rollback"]
          \in [pc : EnqPC, msg : 0..MaxEnqueues, todo : SUBSET Keys,
               fresh : SUBSET Keys]
    BY <2>1 DEF EnqPC
  <2>3. outcome' \in [Ids -> Outcome]
    BY <1>1 DEF TypeOK, Outcome
  <2> QED
    BY <2>2, <2>3 DEF TypeOK
<1>3. /\ \A t \in Senders \ {s} : enq'[t] = enq[t]
      /\ enq'[s].pc = "rollback"
      /\ enq'[s].msg = enq[s].msg
      /\ enq'[s].fresh = enq[s].fresh
  BY DEF TypeOK
<1>4. /\ \A n \in Ids \ {enq[s].msg} : outcome'[n] = outcome[n]
      /\ outcome'[enq[s].msg] = o
  BY <1>1 DEF TypeOK
<1>5. SendersOK'
  <2> SUFFICES ASSUME NEW t \in Senders
               PROVE  FreshLocked(t)' /\ PassDone(t)'
    BY DEF SendersOK
  <2>1. CASE t = s
    BY <2>1, <1>3, ActorsAssumption
    DEF FreshLocked, PassDone, SendersOK, TypeOK
  <2>2. CASE t # s
    BY <2>2, <1>3, SenderKept, ActorsAssumption DEF SendersOK
  <2> QED
    BY <2>1, <2>2
<1>6. DeliveriesOK'
  BY <1>1, <1>3, <1>4, BoundsAssumption DEF DeliveriesOK, TypeOK, Ids
<1>7. RowsHeld'
  BY ConsumersKept, ActorsAssumption
<1>8. CountExact' /\ WithinCapacity' /\ LeasesOnRows'
  BY DEF CountExact, WithinCapacity, LeasesOnRows
<1>9. AllOrNothing'
  BY <1>1, <1>4 DEF AllOrNothing
<1> QED
  BY <1>2, <1>5, <1>6, <1>7, <1>8, <1>9

LEMMA RefuseStep ==
  ASSUME IInv, NEW s \in Senders, Refuse(s)
  PROVE  IInv'
<1>1. /\ enq[s].pc = "lock"
      /\ countLock[FirstKey(s)] \in {None, s}
      /\ countLock' = [countLock EXCEPT ![FirstKey(s)] = s]
      /\ UNCHANGED <<nextId, counts, rows, lease, con, dest, acked>>
  BY DEF Refuse, tables
<1>2. countLock' \in [Keys -> Actors \cup {None}]
  BY <1>1 DEF IInv, TypeOK, Actors
<1>3. \A k \in Keys : countLock'[k] # countLock[k] =>
                        countLock[k] = None /\ countLock'[k] = s
  BY <1>1 DEF IInv, TypeOK
<1> QED
  BY <1>1, <1>2, <1>3, GiveUpStep DEF Refuse

LEMMA FailEnqueueStep ==
  ASSUME IInv, NEW s \in Senders, FailEnqueue(s)
  PROVE  IInv'
BY GiveUpStep DEF FailEnqueue, IInv, TypeOK, tables

LEMMA WriteStep ==
  ASSUME IInv, NEW s \in Senders, Write(s)
  PROVE  IInv'
<1> USE DEF IInv
<1>1. /\ enq[s].pc = "write"
      /\ enq' = [enq EXCEPT ![s].pc = "commit"]
      /\ UNCHANGED <<nextId, counts, rows, lease, countLock, con, dest,
                     outcome, acked>>
  BY DEF Write, tables, history
<1>2. TypeOK'
  <2>1. enq[s] \in [pc : EnqPC, msg : 0..MaxEnqueues, todo : SUBSET Keys,
                    fresh : SUBSET Keys]
    BY DEF TypeOK
  <2>2. [enq[s] EXCEPT !.pc = "commit"]
          \in [pc : EnqPC, msg : 0..MaxEnqueues, todo : SUBSET Keys,
               fresh : SUBSET Keys]
    BY <2>1 DEF EnqPC
  <2> QED
    BY <2>2, <1>1 DEF TypeOK
<1>3. /\ \A t \in Senders \ {s} : enq'[t] = enq[t]
      /\ enq'[s].pc = "commit"
      /\ enq'[s].msg = enq[s].msg
      /\ enq'[s].fresh = enq[s].fresh
  BY <1>1 DEF TypeOK
<1>4. SendersOK'
  <2> SUFFICES ASSUME NEW t \in Senders
               PROVE  FreshLocked(t)' /\ PassDone(t)'
    BY DEF SendersOK
  <2>1. CASE t = s
    BY <2>1, <1>1, <1>3
    DEF FreshLocked, PassDone, SendersOK, Counted, HasRow, CountSeen
  <2>2. CASE t # s
    BY <2>2, <1>1, <1>3, SenderKept DEF SendersOK
  <2> QED
    BY <2>1, <2>2
<1>5. DeliveriesOK'
  BY <1>1, <1>3 DEF DeliveriesOK
<1>6. /\ RowsHeld' /\ LeasesOnRows'
      /\ CountExact' /\ WithinCapacity' /\ AllOrNothing'
  BY <1>1 DEF RowsHeld, LeasesOnRows, CountExact, WithinCapacity, AllOrNothing
<1> QED
  BY <1>2, <1>4, <1>5, <1>6

\* A sender that has locked and admitted a recipient knows its number of rows.
LEMMA CountKnown ==
  ASSUME TypeOK, CountExact, NEW s \in Senders, FreshLocked(s),
         NEW k \in Keys, HasRow(s, k)
  PROVE  CountSeen(s, k) = Cardinality(rows[k]) /\ CountSeen(s, k) \in Nat
<1>1. CASE k \in enq[s].fresh
  <2>1. rows[k] = {}
    BY <1>1 DEF FreshLocked, CountExact
  <2> QED
    BY <2>1, <1>1, FS_EmptySet DEF CountSeen
<1>2. CASE k \notin enq[s].fresh
  BY <1>2 DEF HasRow, CountSeen, CountExact, TypeOK
<1> QED
  BY <1>1, <1>2

LEMMA CommitStep ==
  ASSUME IInv, NEW s \in Senders, Commit(s)
  PROVE  IInv'
<1> USE DEF IInv
<1>1. PICK m \in Ids : m = enq[s].msg
  BY OpenDelivery DEF Commit
<1>2. /\ enq[s].pc = "commit"
      /\ rows' = [k \in Keys |-> IF k \in dest[m] THEN rows[k] \cup {m}
                                                  ELSE rows[k]]
      /\ counts' = [k \in Keys |-> IF k \in dest[m] THEN CountSeen(s, k) + 1
                                                    ELSE counts[k]]
      /\ countLock' = Unlocked(s)
      /\ enq' = [enq EXCEPT ![s] = IdleEnq]
      /\ outcome' = [outcome EXCEPT ![m] = "queued"]
      /\ UNCHANGED <<nextId, lease, con, dest, acked>>
  BY <1>1 DEF Commit
<1>3. /\ dest[m] \in SUBSET Keys
      /\ outcome[m] = "open"
      /\ \A k \in dest[m] : Counted(s, k)
  BY <1>1, <1>2, OpenDelivery DEF SendersOK, PassDone
<1>4. \A k \in dest[m] : /\ CountSeen(s, k) = Cardinality(rows[k])
                         /\ CountSeen(s, k) \in Nat
                         /\ CountSeen(s, k) < MaxRequests
  BY <1>3, CountKnown DEF SendersOK, Counted
<1>5. \A k \in Keys : IsFiniteSet(rows[k]) /\ m \notin rows[k]
  BY <1>3, RowsFinite DEF AllOrNothing, TypeOK
<1>6. TypeOK'
  <2>1. counts' \in [Keys -> Nat \cup {NoRow}]
    BY <1>2, <1>4 DEF TypeOK
  <2>2. rows' \in [Keys -> SUBSET Ids]
    BY <1>2 DEF TypeOK
  <2>3. countLock' \in [Keys -> Actors \cup {None}]
    BY <1>2 DEF TypeOK, Unlocked
  <2>4. IdleEnq \in [pc : EnqPC, msg : 0..MaxEnqueues, todo : SUBSET Keys,
                     fresh : SUBSET Keys]
    BY BoundsAssumption DEF IdleEnq, EnqPC
  <2>5. enq' \in [Senders -> [pc : EnqPC, msg : 0..MaxEnqueues,
                              todo : SUBSET Keys, fresh : SUBSET Keys]]
    BY <2>4, <1>2 DEF TypeOK
  <2>6. outcome' \in [Ids -> Outcome]
    BY <1>2 DEF TypeOK, Outcome
  <2> QED
    BY <2>1, <2>2, <2>3, <2>5, <2>6, <1>2 DEF TypeOK
<1>7. /\ \A t \in Senders \ {s} : enq'[t] = enq[t]
      /\ enq'[s].pc = "idle" /\ enq'[s].fresh = {}
  BY <1>2 DEF TypeOK, IdleEnq
<1>8. SendersOK'
  <2> SUFFICES ASSUME NEW t \in Senders
               PROVE  FreshLocked(t)' /\ PassDone(t)'
    BY DEF SendersOK
  <2>1. CASE t = s
    BY <2>1, <1>7 DEF FreshLocked, PassDone
  <2>2. CASE t # s
    <3>1. \A k \in Keys : countLock[k] = t => k \notin dest[m]
      BY <2>2, <1>3 DEF Counted
    <3>2. \A k \in Keys : countLock[k] = t =>
                            countLock'[k] = t /\ counts'[k] = counts[k]
      BY <3>1, <2>2, <1>2 DEF Unlocked, TypeOK
    <3>3. \A k \in Keys : counts[k] # NoRow => counts'[k] # NoRow
      BY <1>2, <1>4 DEF NoRow
    <3> QED
      BY <2>2, <3>2, <3>3, <1>2, <1>7, SenderKept DEF SendersOK
  <2> QED
    BY <2>1, <2>2
<1>9. DeliveriesOK'
  <2>1. m <= nextId
    BY <1>1, <1>2, BoundsAssumption DEF DeliveriesOK, TypeOK
  <2>2. \A n \in Ids \ {m} : outcome'[n] = outcome[n]
    BY <1>2 DEF TypeOK
  <2>3. \A t \in Senders \ {s} : enq[t].pc # "idle" => enq[t].msg \in Ids \ {m}
    BY <1>1, <1>2, OpenDelivery DEF DeliveriesOK
  <2>4. \A n \in Ids : n > nextId => n # m
    BY <2>1, BoundsAssumption DEF TypeOK, Ids
  <2>5. UNCHANGED <<nextId, dest>>
    BY <1>2
  <2>6. \A t \in Senders : enq'[t].pc # "idle" => t # s /\ enq'[t] = enq[t]
    BY <1>7
  <2>7. \A t \in Senders : enq'[t].pc # "idle" =>
          /\ enq'[t].msg \in 1..nextId'
          /\ dest'[enq'[t].msg] # {}
          /\ enq'[t].pc # "rollback" => outcome'[enq'[t].msg] = "open"
    BY <2>2, <2>3, <2>5, <2>6 DEF DeliveriesOK
  <2>8. \A n \in Ids : n > nextId' => outcome'[n] = "unsent" /\ dest'[n] = {}
    BY <2>2, <2>4, <2>5 DEF DeliveriesOK
  <2> QED
    BY <2>6, <2>7, <2>8 DEF DeliveriesOK
<1>10. RowsHeld'
  <2>1. \A k \in Keys : rows[k] \subseteq rows'[k]
    BY <1>2
  <2>2. \A k \in Keys, c \in Consumers : countLock[k] = c => countLock'[k] = c
    BY <1>2, ActorsAssumption DEF Unlocked
  <2> QED
    BY <2>1, <2>2, <1>2, ConsumersKept
<1>11. \A k \in dest[m] : Cardinality(rows'[k]) = Cardinality(rows[k]) + 1
  BY <1>2, <1>3, <1>5, FS_AddElement
<1>12. CountExact'
  <2> SUFFICES ASSUME NEW k \in Keys
               PROVE  IF counts'[k] = NoRow
                        THEN rows'[k] = {}
                        ELSE counts'[k] = Cardinality(rows'[k])
    BY DEF CountExact
  <2>1. CASE k \in dest[m]
    <3>1. counts'[k] = Cardinality(rows[k]) + 1 /\ Cardinality(rows[k]) \in Nat
      BY <2>1, <1>2, <1>4
    <3>2. counts'[k] # NoRow
      BY <3>1 DEF NoRow
    <3> QED
      BY <2>1, <3>1, <3>2, <1>11
  <2>2. CASE k \notin dest[m]
    BY <2>2, <1>2 DEF CountExact
  <2> QED
    BY <2>1, <2>2
<1>13. WithinCapacity'
  <2> SUFFICES ASSUME NEW k \in Keys
               PROVE  Cardinality(rows'[k]) <= MaxRequests
    BY DEF WithinCapacity
  <2>1. CASE k \in dest[m]
    BY <2>1, <1>4, <1>11, BoundsAssumption
  <2>2. CASE k \notin dest[m]
    BY <2>2, <1>2 DEF WithinCapacity
  <2> QED
    BY <2>1, <2>2
<1>14. AllOrNothing'
  BY <1>2, <1>3 DEF AllOrNothing, TypeOK
<1>15. LeasesOnRows'
  BY <1>2 DEF LeasesOnRows
<1> QED
  BY <1>6, <1>8, <1>9, <1>10, <1>12, <1>13, <1>14, <1>15

LEMMA RollbackStep ==
  ASSUME IInv, NEW s \in Senders, Rollback(s)
  PROVE  IInv'
<1> USE DEF IInv
<1>1. /\ countLock' = Unlocked(s)
      /\ enq' = [enq EXCEPT ![s] = IdleEnq]
      /\ UNCHANGED <<nextId, counts, rows, lease, con, dest, outcome, acked>>
  BY DEF Rollback, tables, history
<1>2. TypeOK'
  <2>1. IdleEnq \in [pc : EnqPC, msg : 0..MaxEnqueues, todo : SUBSET Keys,
                     fresh : SUBSET Keys]
    BY BoundsAssumption DEF IdleEnq, EnqPC
  <2>2. enq' \in [Senders -> [pc : EnqPC, msg : 0..MaxEnqueues,
                              todo : SUBSET Keys, fresh : SUBSET Keys]]
    BY <2>1, <1>1 DEF TypeOK
  <2>3. countLock' \in [Keys -> Actors \cup {None}]
    BY <1>1 DEF TypeOK, Unlocked
  <2> QED
    BY <2>2, <2>3, <1>1 DEF TypeOK
<1>3. /\ \A t \in Senders \ {s} : enq'[t] = enq[t]
      /\ enq'[s].pc = "idle" /\ enq'[s].fresh = {}
  BY <1>1 DEF TypeOK, IdleEnq
<1>4. SendersOK'
  <2> SUFFICES ASSUME NEW t \in Senders
               PROVE  FreshLocked(t)' /\ PassDone(t)'
    BY DEF SendersOK
  <2>1. CASE t = s
    BY <2>1, <1>3 DEF FreshLocked, PassDone
  <2>2. CASE t # s
    BY <2>2, <1>1, <1>3, SenderKept DEF SendersOK, Unlocked
  <2> QED
    BY <2>1, <2>2
<1>5. DeliveriesOK'
  BY <1>1, <1>3 DEF DeliveriesOK
<1>6. RowsHeld'
  BY <1>1, ConsumersKept, ActorsAssumption DEF Unlocked
<1>7. CountExact' /\ WithinCapacity' /\ AllOrNothing' /\ LeasesOnRows'
  BY <1>1 DEF CountExact, WithinCapacity, AllOrNothing, LeasesOnRows
<1> QED
  BY <1>2, <1>4, <1>5, <1>6, <1>7

-----------------------------------------------------------------------------
(* One lemma per action of a consumer. *)

ConType == [pc : ConPC, key : Keys \cup {0}, ids : SUBSET Ids,
            held : SUBSET Ids, left : 0..Recovery]

\* A consumer's step that leaves the counts and takes or drops only locks of
\* its own keeps what every sender relies on.
LEMMA SendersKeptByConsumer ==
  ASSUME TypeOK, DeliveriesOK, SendersOK, UNCHANGED <<enq, dest>>,
         \A k \in Keys : counts[k] # NoRow => counts'[k] # NoRow,
         \A k \in Keys, t \in Senders :
           countLock[k] = t => countLock'[k] = t /\ counts'[k] = counts[k]
  PROVE  SendersOK'
<1> SUFFICES ASSUME NEW t \in Senders
             PROVE  FreshLocked(t)' /\ PassDone(t)'
  BY DEF SendersOK
<1> QED
  BY SenderKept DEF SendersOK

LEMMA ClaimStep ==
  ASSUME IInv, NEW c \in Consumers, NEW k \in Keys, Claim(c, k)
  PROVE  IInv'
<1> USE DEF IInv
<1> DEFINE candidates == Oldest({m \in Ready(k) : ~RowLocked(k, m)}, Limit)
<1>1. con[c].pc = "idle" /\ UNCHANGED <<nextId, counts, rows, lease, countLock,
                                        enq, dest, outcome, acked>>
  BY DEF Claim, tables, history
<1>2. PICK S \in SUBSET rows[k], T \in SUBSET rows[k] :
        /\ T \subseteq S
        /\ \A m \in S : lease[k][m] = 0 /\ ~RowLocked(k, m)
        /\ con' = [con EXCEPT ![c] = [pc |-> "claim", key |-> k, ids |-> T,
                                      held |-> S, left |-> Recovery]]
  <2>1. candidates \in SUBSET rows[k]
    BY DEF Oldest, Ready
  <2>2. \A m \in candidates : lease[k][m] = 0 /\ ~RowLocked(k, m)
    BY DEF Oldest, Ready
  <2>3. \A n \in 1..Limit : Oldest(candidates, n) \in SUBSET candidates
    BY DEF Oldest
  <2> QED
    BY <2>1, <2>2, <2>3 DEF Claim
<1>3. S \subseteq Ids
  BY DEF TypeOK
<1>4. con' \in [Consumers -> ConType]
  BY <1>2, <1>3, BoundsAssumption DEF TypeOK, ConType, ConPC
<1>5. TypeOK'
  BY <1>1, <1>4 DEF TypeOK, ConType
<1>6. /\ \A d \in Consumers \ {c} : con'[d] = con[d]
      /\ con'[c] = [pc |-> "claim", key |-> k, ids |-> T, held |-> S,
                    left |-> Recovery]
  BY <1>2 DEF TypeOK
<1>7. RowsHeld'
  <2>1. \A d \in Consumers : con[d].key = k => con[d].held \cap S = {}
    BY <1>2 DEF RowLocked
  <2> QED
    BY <2>1, <1>1, <1>2, <1>6 DEF RowsHeld
<1>8. SendersOK' /\ DeliveriesOK'
  BY <1>1, SendersKeptByConsumer DEF DeliveriesOK
<1>9. CountExact' /\ WithinCapacity' /\ AllOrNothing' /\ LeasesOnRows'
  BY <1>1 DEF CountExact, WithinCapacity, AllOrNothing, LeasesOnRows
<1> QED
  BY <1>5, <1>7, <1>8, <1>9

LEMMA CommitClaimStep ==
  ASSUME IInv, NEW c \in Consumers, CommitClaim(c)
  PROVE  IInv'
<1> USE DEF IInv
<1>1. PICK k \in Keys : k = con[c].key
  BY DEF CommitClaim, RowsHeld
<1>2. /\ con[c].pc = "claim"
      /\ lease' = [lease EXCEPT ![k] =
            [m \in Ids |-> IF m \in con[c].ids THEN con[c].left
                                               ELSE lease[k][m]]]
      /\ con' = [con EXCEPT ![c] = IdleCon]
      /\ UNCHANGED <<nextId, counts, rows, countLock, enq, dest, outcome, acked>>
  BY <1>1 DEF CommitClaim, history
<1>3. TypeOK'
  <2>1. IdleCon \in ConType
    BY BoundsAssumption DEF IdleCon, ConType, ConPC
  <2>2. con' \in [Consumers -> ConType]
    BY <2>1, <1>2 DEF TypeOK, ConType
  <2>3. con[c].left \in 0..Recovery
    BY DEF TypeOK
  <2>4. lease' \in [Keys -> [Ids -> 0..Recovery]]
    BY <2>3, <1>2 DEF TypeOK
  <2> QED
    BY <2>2, <2>4, <1>2 DEF TypeOK, ConType
<1>4. /\ \A d \in Consumers \ {c} : con'[d] = con[d]
      /\ con'[c].pc = "idle" /\ con'[c].held = {}
  BY <1>2 DEF TypeOK, IdleCon
<1>5. \A j \in Keys, m \in Ids :
        lease'[j][m] = IF j = k /\ m \in con[c].ids THEN con[c].left
                                                    ELSE lease[j][m]
  BY <1>2 DEF TypeOK
<1>6. RowsHeld'
  <2>1. \A d \in Consumers \ {c} :
          con[d].key = k => con[d].held \cap con[c].ids = {}
    BY <1>1, <1>2 DEF RowsHeld
  <2>2. \A d \in Consumers : con[d].held \subseteq Ids
    BY DEF TypeOK
  <2> QED
    BY <2>1, <2>2, <1>2, <1>4, <1>5 DEF RowsHeld
<1>7. SendersOK' /\ DeliveriesOK'
  BY <1>2, SendersKeptByConsumer DEF DeliveriesOK
<1>8. LeasesOnRows'
  <2>1. con[c].ids \subseteq rows[k]
    BY <1>1, <1>2 DEF RowsHeld
  <2> QED
    BY <2>1, <1>2, <1>5 DEF LeasesOnRows
<1>9. CountExact' /\ WithinCapacity' /\ AllOrNothing'
  BY <1>2 DEF CountExact, WithinCapacity, AllOrNothing
<1> QED
  BY <1>3, <1>6, <1>7, <1>8, <1>9

LEMMA AckStep ==
  ASSUME IInv, NEW c \in Consumers, NEW k \in Keys, NEW ids \in SUBSET Ids,
         Ack(c, k, ids)
  PROVE  IInv'
<1> USE DEF IInv
<1> DEFINE found == ids \cap rows[k]
<1>1. /\ con[c].pc = "idle"
      /\ \A m \in found : ~RowLocked(k, m)
      /\ con' = [con EXCEPT ![c] = [pc |-> "ack", key |-> k, ids |-> found,
                                    held |-> found, left |-> 0]]
      /\ UNCHANGED <<nextId, counts, rows, lease, countLock, enq, dest,
                     outcome, acked>>
  BY DEF Ack, tables, history
<1>2. con' \in [Consumers -> ConType]
  BY <1>1, BoundsAssumption DEF TypeOK, ConType, ConPC
<1>3. TypeOK'
  BY <1>1, <1>2 DEF TypeOK, ConType
<1>4. /\ \A d \in Consumers \ {c} : con'[d] = con[d]
      /\ con'[c] = [pc |-> "ack", key |-> k, ids |-> found, held |-> found,
                    left |-> 0]
  BY <1>1 DEF TypeOK
<1>5. RowsHeld'
  <2>1. \A d \in Consumers : con[d].key = k => con[d].held \cap found = {}
    BY <1>1 DEF RowLocked
  <2> QED
    BY <2>1, <1>1, <1>4 DEF RowsHeld
<1>6. SendersOK' /\ DeliveriesOK'
  BY <1>1, SendersKeptByConsumer DEF DeliveriesOK
<1>7. CountExact' /\ WithinCapacity' /\ AllOrNothing' /\ LeasesOnRows'
  BY <1>1 DEF CountExact, WithinCapacity, AllOrNothing, LeasesOnRows
<1> QED
  BY <1>3, <1>5, <1>6, <1>7

LEMMA LowerCountStep ==
  ASSUME IInv, NEW c \in Consumers, LowerCount(c)
  PROVE  IInv'
<1> USE DEF IInv
<1>1. PICK k \in Keys : k = con[c].key
  BY DEF LowerCount, RowsHeld
<1>2. /\ con[c].pc = "ack"
      /\ countLock[k] = None
      /\ countLock' = [countLock EXCEPT ![k] = c]
      /\ con' = [con EXCEPT ![c].pc = "ackCommit"]
      /\ UNCHANGED <<nextId, counts, rows, lease, enq, dest, outcome, acked>>
  BY <1>1 DEF LowerCount, tables, history
<1>3. TypeOK'
  <2>1. con[c] \in ConType
    BY DEF TypeOK, ConType
  <2>2. [con[c] EXCEPT !.pc = "ackCommit"] \in ConType
    BY <2>1 DEF ConType, ConPC
  <2>3. con' \in [Consumers -> ConType]
    BY <2>2, <1>2 DEF TypeOK, ConType
  <2>4. countLock' \in [Keys -> Actors \cup {None}]
    BY <1>2 DEF TypeOK, Actors
  <2> QED
    BY <2>3, <2>4, <1>2 DEF TypeOK, ConType
<1>4. /\ \A d \in Consumers \ {c} : con'[d] = con[d]
      /\ con'[c].pc = "ackCommit"
      /\ con'[c].key = k
      /\ con'[c].ids = con[c].ids
      /\ con'[c].held = con[c].held
  BY <1>1, <1>2 DEF TypeOK
<1>5. \A p \in Actors : \A j \in Keys : countLock[j] = p => countLock'[j] = p
  BY <1>2, ActorsAssumption DEF TypeOK, Actors
<1>6. RowsHeld'
  <2>1. countLock'[k] = c
    BY <1>2 DEF TypeOK
  <2>2. \A d \in Consumers : con'[d].held = con[d].held /\ con'[d].key = con[d].key
    BY <1>1, <1>4
  <2> QED
    BY <2>1, <2>2, <1>1, <1>2, <1>4, <1>5 DEF RowsHeld, Actors
<1>7. SendersOK' /\ DeliveriesOK'
  BY <1>2, <1>5, SendersKeptByConsumer DEF DeliveriesOK, Actors
<1>8. CountExact' /\ WithinCapacity' /\ AllOrNothing' /\ LeasesOnRows'
  BY <1>2 DEF CountExact, WithinCapacity, AllOrNothing, LeasesOnRows
<1> QED
  BY <1>3, <1>6, <1>7, <1>8

LEMMA CommitAckStep ==
  ASSUME IInv, NEW c \in Consumers, CommitAck(c)
  PROVE  IInv'
<1> USE DEF IInv
<1>1. PICK k \in Keys, ids \in SUBSET Ids : k = con[c].key /\ ids = con[c].ids
  BY DEF CommitAck, RowsHeld, TypeOK
<1> DEFINE n == Cardinality(ids)
<1>2. /\ con[c].pc = "ackCommit"
      /\ rows' = [rows EXCEPT ![k] = rows[k] \ ids]
      /\ lease' = [lease EXCEPT ![k] =
                     [m \in Ids |-> IF m \in ids THEN 0 ELSE lease[k][m]]]
      /\ counts' = [counts EXCEPT ![k] =
                      IF counts[k] - n > 0 THEN counts[k] - n ELSE 0]
      /\ countLock' = Unlocked(c)
      /\ con' = [con EXCEPT ![c] = IdleCon]
      /\ acked' = [acked EXCEPT ![k] = acked[k] \cup ids]
      /\ UNCHANGED <<nextId, enq, dest, outcome>>
  BY <1>1 DEF CommitAck
<1>3. /\ con[c].held = ids
      /\ ids \subseteq rows[k]
      /\ countLock[k] = c
  BY <1>1, <1>2 DEF RowsHeld
<1>4. n \in Nat /\ Cardinality(rows[k]) \in Nat /\ IsFiniteSet(rows[k])
  BY RowsFinite DEF TypeOK
<1>5. /\ Cardinality(rows[k] \ ids) = Cardinality(rows[k]) - n
      /\ n <= Cardinality(rows[k])
  <2>1. rows[k] \cap ids = ids
    BY <1>3
  <2>2. Cardinality(rows[k] \ ids) =
          Cardinality(rows[k]) - Cardinality(rows[k] \cap ids)
    BY <1>4, FS_Difference
  <2>3. n <= Cardinality(rows[k])
    BY <1>3, <1>4, FS_Subset
  <2> QED
    BY <2>1, <2>2, <2>3
<1>6. /\ counts'[k] = IF counts[k] - n > 0 THEN counts[k] - n ELSE 0
      /\ rows'[k] = rows[k] \ ids
      /\ \A j \in Keys \ {k} : counts'[j] = counts[j] /\ rows'[j] = rows[j]
  BY <1>2 DEF TypeOK
<1>7. counts'[k] \in Nat
  BY <1>4, <1>6 DEF TypeOK, NoRow
<1>8. TypeOK'
  <2>1. IdleCon \in ConType
    BY BoundsAssumption DEF IdleCon, ConType, ConPC
  <2>2. con' \in [Consumers -> ConType]
    BY <2>1, <1>2 DEF TypeOK, ConType
  <2>3. counts' \in [Keys -> Nat \cup {NoRow}]
    BY <1>2, <1>6, <1>7 DEF TypeOK
  <2>4. lease' \in [Keys -> [Ids -> 0..Recovery]]
    BY <1>2, BoundsAssumption DEF TypeOK
  <2>5. countLock' \in [Keys -> Actors \cup {None}]
    BY <1>2 DEF TypeOK, Unlocked
  <2>6. rows' \in [Keys -> SUBSET Ids] /\ acked' \in [Keys -> SUBSET Ids]
    BY <1>2 DEF TypeOK
  <2> QED
    BY <2>2, <2>3, <2>4, <2>5, <2>6, <1>2 DEF TypeOK, ConType
<1>9. /\ \A d \in Consumers \ {c} : con'[d] = con[d]
      /\ con'[c].pc = "idle" /\ con'[c].held = {}
  BY <1>2 DEF TypeOK, IdleCon
<1>10. RowsHeld'
  <2>1. \A d \in Consumers \ {c} :
          con[d].key = k => con[d].held \cap ids = {}
    BY <1>1, <1>3 DEF RowsHeld
  <2>2. \A j \in Keys, m \in Ids :
          lease'[j][m] = IF j = k /\ m \in ids THEN 0 ELSE lease[j][m]
    BY <1>2 DEF TypeOK
  <2>3. \A j \in Keys, d \in Consumers \ {c} :
          countLock[j] = d => countLock'[j] = d
    BY <1>2 DEF Unlocked
  <2>4. \A d \in Consumers : con[d].held \subseteq Ids
    BY DEF TypeOK
  <2> QED
    BY <2>1, <2>2, <2>3, <2>4, <1>6, <1>9 DEF RowsHeld
<1>11. SendersOK' /\ DeliveriesOK'
  <2>1. \A j \in Keys : counts[j] # NoRow => counts'[j] # NoRow
    BY <1>6, <1>7 DEF NoRow
  <2>2. \A j \in Keys, t \in Senders :
          countLock[j] = t => countLock'[j] = t /\ counts'[j] = counts[j]
    BY <1>2, <1>3, <1>6, ActorsAssumption DEF Unlocked
  <2> QED
    BY <2>1, <2>2, <1>2, SendersKeptByConsumer DEF DeliveriesOK
<1>12. CountExact'
  <2>1. CASE counts[k] = NoRow
    <3>1. rows[k] = {} /\ ids = {}
      BY <2>1, <1>3 DEF CountExact
    <3>2. n = 0
      BY <3>1, FS_EmptySet
    <3>3. counts'[k] = 0 /\ rows'[k] = {}
      BY <3>1, <3>2, <2>1, <1>6 DEF NoRow
    <3> QED
      BY <3>3, <1>6, FS_EmptySet DEF CountExact, NoRow
  <2>2. CASE counts[k] # NoRow
    <3>1. counts[k] = Cardinality(rows[k])
      BY <2>2 DEF CountExact
    <3>2. counts'[k] = Cardinality(rows'[k])
      BY <3>1, <1>4, <1>5, <1>6
    <3>3. SUFFICES ASSUME NEW j \in Keys
                   PROVE  IF counts'[j] = NoRow
                            THEN rows'[j] = {}
                            ELSE counts'[j] = Cardinality(rows'[j])
      BY DEF CountExact
    <3>4. CASE j = k
      BY <3>2, <3>4, <1>7 DEF NoRow
    <3>5. CASE j # k
      BY <3>5, <1>6 DEF CountExact
    <3> QED
      BY <3>4, <3>5
  <2> QED
    BY <2>1, <2>2
<1>13. WithinCapacity'
  <2>1. Cardinality(rows'[k]) <= Cardinality(rows[k])
    BY <1>4, <1>5, <1>6
  <2>2. Cardinality(rows'[k]) \in Nat
    BY <1>4, <1>5, <1>6
  <2>3. SUFFICES ASSUME NEW j \in Keys
                 PROVE  Cardinality(rows'[j]) <= MaxRequests
    BY DEF WithinCapacity
  <2>4. CASE j = k
    BY <2>1, <2>2, <2>4, <1>4, BoundsAssumption DEF WithinCapacity
  <2>5. CASE j # k
    BY <2>5, <1>6 DEF WithinCapacity
  <2> QED
    BY <2>4, <2>5
<1>14. AllOrNothing'
  BY <1>2, <1>3 DEF AllOrNothing, TypeOK
<1>15. LeasesOnRows'
  <2>1. \A j \in Keys, m \in Ids :
          lease'[j][m] = IF j = k /\ m \in ids THEN 0 ELSE lease[j][m]
    BY <1>2 DEF TypeOK
  <2> QED
    BY <2>1, <1>6 DEF LeasesOnRows
<1> QED
  BY <1>8, <1>10, <1>11, <1>12, <1>13, <1>14, <1>15

\* Leases only matter to a claim that holds ready rows.
LEMMA ReleaseStep ==
  ASSUME IInv, NEW c \in Consumers, NEW k \in Keys, NEW ids \in SUBSET Ids,
         Release(c, k, ids)
  PROVE  IInv'
<1> USE DEF IInv
<1>1. UNCHANGED <<nextId, counts, rows, countLock, enq, con, dest, outcome, acked>>
  BY DEF Release, history
<1>2. \A j \in Keys, m \in Ids : lease'[j][m] \in {0, lease[j][m]}
  BY DEF Release, TypeOK
<1>3. lease' \in [Keys -> [Ids -> 0..Recovery]]
  BY BoundsAssumption DEF Release, TypeOK
<1>4. TypeOK'
  BY <1>1, <1>3 DEF TypeOK
<1>5. RowsHeld'
  <2>1. \A d \in Consumers : con[d].held \subseteq Ids
    BY DEF TypeOK
  <2> QED
    BY <2>1, <1>1, <1>2 DEF RowsHeld
<1>6. SendersOK' /\ DeliveriesOK'
  BY <1>1, SendersKeptByConsumer DEF DeliveriesOK
<1>7. LeasesOnRows'
  BY <1>1, <1>2 DEF LeasesOnRows
<1>8. CountExact' /\ WithinCapacity' /\ AllOrNothing'
  BY <1>1 DEF CountExact, WithinCapacity, AllOrNothing
<1> QED
  BY <1>4, <1>5, <1>6, <1>7, <1>8

LEMMA FailConsumerStep ==
  ASSUME IInv, NEW c \in Consumers, FailConsumer(c)
  PROVE  IInv'
<1> USE DEF IInv
<1>1. /\ con' = [con EXCEPT ![c] = IdleCon]
      /\ countLock' = Unlocked(c)
      /\ UNCHANGED <<nextId, counts, rows, lease, enq, dest, outcome, acked>>
  BY DEF FailConsumer, tables, history
<1>2. TypeOK'
  <2>1. IdleCon \in ConType
    BY BoundsAssumption DEF IdleCon, ConType, ConPC
  <2>2. con' \in [Consumers -> ConType]
    BY <2>1, <1>1 DEF TypeOK, ConType
  <2>3. countLock' \in [Keys -> Actors \cup {None}]
    BY <1>1 DEF TypeOK, Unlocked
  <2> QED
    BY <2>2, <2>3, <1>1 DEF TypeOK, ConType
<1>3. /\ \A d \in Consumers \ {c} : con'[d] = con[d]
      /\ con'[c].pc = "idle" /\ con'[c].held = {}
  BY <1>1 DEF TypeOK, IdleCon
<1>4. RowsHeld'
  <2>1. \A j \in Keys, d \in Consumers \ {c} :
          countLock[j] = d => countLock'[j] = d
    BY <1>1 DEF Unlocked
  <2> QED
    BY <2>1, <1>1, <1>3 DEF RowsHeld
<1>5. SendersOK' /\ DeliveriesOK'
  BY <1>1, SendersKeptByConsumer, ActorsAssumption DEF DeliveriesOK, Unlocked
<1>6. CountExact' /\ WithinCapacity' /\ AllOrNothing' /\ LeasesOnRows'
  BY <1>1 DEF CountExact, WithinCapacity, AllOrNothing, LeasesOnRows
<1> QED
  BY <1>2, <1>4, <1>5, <1>6

LEMMA TickStep ==
  ASSUME IInv, Tick
  PROVE  IInv'
<1> USE DEF IInv
<1>1. /\ lease' = [k \in Keys |-> [m \in Ids |-> Less(lease[k][m])]]
      /\ con' = [c \in Consumers |-> [con[c] EXCEPT !.left = Less(con[c].left)]]
      /\ UNCHANGED <<nextId, counts, rows, countLock, enq, dest, outcome, acked>>
  BY DEF Tick, history
<1>2. \A t \in 0..Recovery : Less(t) \in 0..Recovery
  BY BoundsAssumption DEF Less
<1>3. TypeOK'
  <2>1. lease' \in [Keys -> [Ids -> 0..Recovery]]
    BY <1>1, <1>2 DEF TypeOK
  <2>2. \A c \in Consumers : [con[c] EXCEPT !.left = Less(con[c].left)] \in ConType
    <3> SUFFICES ASSUME NEW c \in Consumers
                 PROVE  [con[c] EXCEPT !.left = Less(con[c].left)] \in ConType
      OBVIOUS
    <3>1. con[c] \in ConType /\ Less(con[c].left) \in 0..Recovery
      BY <1>2 DEF TypeOK, ConType
    <3> QED
      BY <3>1 DEF ConType
  <2>3. con' \in [Consumers -> ConType]
    BY <2>2, <1>1
  <2> QED
    BY <2>1, <2>3, <1>1 DEF TypeOK, ConType
<1>4. \A c \in Consumers : /\ con'[c].pc = con[c].pc
                           /\ con'[c].key = con[c].key
                           /\ con'[c].ids = con[c].ids
                           /\ con'[c].held = con[c].held
  BY <1>1 DEF TypeOK
<1>5. \A k \in Keys, m \in Ids : lease[k][m] = 0 => lease'[k][m] = 0
  BY <1>1 DEF Less
<1>6. RowsHeld'
  <2>1. \A d \in Consumers : con[d].held \subseteq Ids
    BY DEF TypeOK
  <2>2. UNCHANGED <<rows, countLock>>
    BY <1>1
  <2>3. \A d \in Consumers, m \in Ids :
          con[d].key \in Keys /\ lease[con[d].key][m] = 0
            => lease'[con[d].key][m] = 0
    BY <1>5
  <2> QED
    BY <2>1, <2>2, <2>3, <1>4 DEF RowsHeld
<1>7. SendersOK' /\ DeliveriesOK'
  BY <1>1, SendersKeptByConsumer DEF DeliveriesOK
<1>8. LeasesOnRows'
  <2>1. \A k \in Keys, m \in Ids : lease'[k][m] > 0 => lease[k][m] > 0
    BY <1>1, BoundsAssumption DEF Less, TypeOK
  <2> QED
    BY <2>1, <1>1 DEF LeasesOnRows
<1>9. CountExact' /\ WithinCapacity' /\ AllOrNothing'
  BY <1>1 DEF CountExact, WithinCapacity, AllOrNothing
<1> QED
  BY <1>3, <1>6, <1>7, <1>8, <1>9

-----------------------------------------------------------------------------
(* The theorems. *)

LEMMA NextIInv == IInv /\ [Next]_vars => IInv'
<1> SUFFICES ASSUME IInv, [Next]_vars
             PROVE  IInv'
  OBVIOUS
<1>1. ASSUME NEW s \in Senders, NEW K \in (SUBSET Keys) \ {{}}, Begin(s, K)
      PROVE  IInv'
  BY <1>1, BeginStep
<1>2. ASSUME NEW s \in Senders, SenderStep(s)
      PROVE  IInv'
  BY <1>2, EnsureRowStep, LockCountStep, RefuseStep, WriteStep, CommitStep,
     RollbackStep DEF SenderStep
<1>3. ASSUME NEW s \in Senders, FailEnqueue(s)
      PROVE  IInv'
  BY <1>3, FailEnqueueStep
<1>4. ASSUME NEW c \in Consumers, NEW k \in Keys, Claim(c, k)
      PROVE  IInv'
  BY <1>4, ClaimStep
<1>5. ASSUME NEW c \in Consumers, NEW k \in Keys, NEW ids \in SUBSET Ids,
             Ack(c, k, ids) \/ Release(c, k, ids)
      PROVE  IInv'
  BY <1>5, AckStep, ReleaseStep
<1>6. ASSUME NEW c \in Consumers, ConsumerStep(c)
      PROVE  IInv'
  BY <1>6, CommitClaimStep, LowerCountStep, CommitAckStep DEF ConsumerStep
<1>7. ASSUME NEW c \in Consumers, FailConsumer(c)
      PROVE  IInv'
  BY <1>7, FailConsumerStep
<1>8. CASE Tick
  BY <1>8, TickStep
<1>9. CASE UNCHANGED vars
  BY <1>9 DEF vars, tables, history, IInv, TypeOK, SendersOK, FreshLocked,
     PassDone, Visited, HasRow, Counted, CountSeen, DeliveriesOK, RowsHeld,
     LeasesOnRows, CountExact, WithinCapacity, AllOrNothing
<1> QED
  BY <1>1, <1>2, <1>3, <1>4, <1>5, <1>6, <1>7, <1>8, <1>9 DEF Next

\* The inductive invariant holds in every reachable state.
THEOREM Invariance == Spec => []IInv
BY InitIInv, NextIInv, PTL DEF Spec

\* Every value stays in its type: the tables, the locks and the transactions.
THEOREM TypeCorrect == Spec => []TypeOK
<1>1. IInv => TypeOK
  BY DEF IInv
<1> QED
  BY <1>1, Invariance, PTL

\* inbox_counts.count is the number of stored rows, for every number of inboxes
\* and of concurrent transactions (insert_inbox_messages, ack_messages).
THEOREM CountsAreExact == Spec => []CountExact
<1>1. IInv => CountExact
  BY DEF IInv
<1> QED
  BY <1>1, Invariance, PTL

\* No inbox ever stores more than INBOX_MAX_REQUESTS deliveries.
THEOREM CapacityHolds == Spec => []WithinCapacity
<1>1. IInv => WithinCapacity
  BY DEF IInv
<1> QED
  BY <1>1, Invariance, PTL

\* A delivery to several inboxes is stored in all of them or in none.
THEOREM DeliveryIsAtomic == Spec => []AllOrNothing
<1>1. IInv => AllOrNothing
  BY DEF IInv
<1> QED
  BY <1>1, Invariance, PTL

\* claim_once never commits a claim of a delivery whose lease still runs.
THEOREM LeasesExclude == Spec => LeaseNotStolen
<1>1. IInv /\ [Next]_vars =>
        [\A c \in Consumers : CommitClaim(c) =>
           \A m \in con[c].ids : /\ m \in rows[con[c].key]
                                 /\ lease[con[c].key][m] = 0]_vars
  BY DEF CommitClaim, IInv, RowsHeld
<1> QED
  BY <1>1, Invariance, PTL DEF Spec, LeaseNotStolen

\* The step of insert_inbox_messages that answers 409 finds a full recipient.
LEMMA RefusalIsFull ==
  ASSUME IInv, NEW s \in Senders, Refuse(s)
  PROVE  \E k \in dest[enq[s].msg] : Cardinality(rows[k]) = MaxRequests
<1> USE DEF IInv
<1>1. /\ dest[enq[s].msg] \in SUBSET Keys
      /\ enq[s].todo \subseteq dest[enq[s].msg] /\ enq[s].todo # {}
      /\ \A j \in dest[enq[s].msg] : HasRow(s, j)
  BY OpenDelivery DEF Refuse, SendersOK, PassDone
<1>2. PICK k \in enq[s].todo : k = FirstKey(s)
  BY <1>1, FirstKeyInTodo
<1>3. CountSeen(s, k) >= MaxRequests
  BY <1>2 DEF Refuse
<1>4. CountSeen(s, k) = Cardinality(rows[k]) /\ CountSeen(s, k) \in Nat
  BY <1>1, <1>2, CountKnown DEF SendersOK
<1>5. Cardinality(rows[k]) <= MaxRequests
  BY <1>1 DEF WithinCapacity
<1>6. Cardinality(rows[k]) = MaxRequests
  BY <1>3, <1>4, <1>5, BoundsAssumption
<1> QED
  BY <1>1, <1>6

\* A delivery is refused only while a recipient really stores
\* INBOX_MAX_REQUESTS deliveries.
THEOREM RefusalsAreJustified == Spec => RefusedOnlyWhenFull
<1> DEFINE Justified == \A m \in Ids :
             outcome'[m] = "full" /\ outcome[m] # "full" =>
               \E k \in dest[m] : Cardinality(rows[k]) = MaxRequests
<1>1. ASSUME IInv, [Next]_vars
      PROVE  [Justified]_vars
  <2> USE <1>1
  <2>1. ASSUME NEW s \in Senders, Refuse(s)
        PROVE  Justified
    <3>1. outcome' = [outcome EXCEPT ![enq[s].msg] = "full"]
      BY <2>1 DEF Refuse
    <3>2. \A m \in Ids \ {enq[s].msg} : outcome'[m] = outcome[m]
      BY <3>1 DEF IInv, TypeOK
    <3> QED
      BY <2>1, <3>2, RefusalIsFull
  <2>2. ASSUME NEW s \in Senders, NEW K \in (SUBSET Keys) \ {{}}, Begin(s, K)
        PROVE  Justified
    BY <2>2 DEF Begin, IInv, TypeOK
  <2>3. ASSUME NEW s \in Senders, Commit(s)
        PROVE  Justified
    BY <2>3 DEF Commit, IInv, TypeOK
  <2>4. ASSUME NEW s \in Senders, FailEnqueue(s)
        PROVE  Justified
    BY <2>4 DEF FailEnqueue, IInv, TypeOK
  <2>5. CASE UNCHANGED outcome
    BY <2>5
  <2>6. \/ UNCHANGED outcome
        \/ \E s \in Senders : \/ Refuse(s)
                              \/ \E K \in (SUBSET Keys) \ {{}} : Begin(s, K)
                              \/ Commit(s)
                              \/ FailEnqueue(s)
    BY DEF Next, SenderStep, ConsumerStep, EnsureRow, LockCount, Write,
       Rollback, Claim, CommitClaim, Ack, LowerCount, CommitAck, Release,
       FailConsumer, Tick, vars, history
  <2> QED
    BY <2>1, <2>2, <2>3, <2>4, <2>5, <2>6
<1> QED
  BY <1>1, Invariance, PTL DEF Spec, RefusedOnlyWhenFull

-----------------------------------------------------------------------------
(***************************************************************************)
(* Inbox implements InboxStore: what clients may assume of an inbox holds  *)
(* whatever locks its transactions wait for and however they end.          *)
(***************************************************************************)

res == [k \in Keys |-> Reserved(k)]

\* InboxStore counts with its own copy of the standard operator.
LEMMA SameCardinality == \A S : Store!Cardinality(S) = Cardinality(S)
BY DEF Store!Cardinality, Cardinality

LEMMA InitStore == Init => Store!Init
BY DEF Init, Store!Init, Reserved

\* Steps that touch neither deliveries nor leases are invisible.
LEMMA Invisible ==
  ASSUME UNCHANGED <<dest, outcome, rows, lease>>
  PROVE  UNCHANGED Store!vars
BY DEF Store!vars, Reserved

LEMMA SenderMaps ==
  ASSUME IInv, NEW s \in Senders, SenderStep(s) \/ FailEnqueue(s)
  PROVE  [Store!Next]_(Store!vars)
<1> DEFINE m == enq[s].msg
<1>1. CASE EnsureRow(s) \/ LockCount(s) \/ Write(s) \/ Rollback(s)
  BY <1>1, Invisible
  DEF EnsureRow, LockCount, Write, Rollback, tables, history
<1>2. CASE Refuse(s)
  <2>1. m \in Ids /\ outcome[m] = "open"
    BY <1>2, OpenDelivery DEF Refuse, IInv
  <2>2. \E k \in dest[m] : Cardinality(rows[k]) >= MaxRequests
    <3>1. PICK k \in dest[m] : Cardinality(rows[k]) = MaxRequests
      BY <1>2, RefusalIsFull
    <3> QED
      BY <3>1, BoundsAssumption
  <2>3. UNCHANGED res
    BY <1>2 DEF Refuse, tables, res, Reserved
  <2>4. Store!Refuse(m)
    BY <2>1, <2>2, <2>3, <1>2, SameCardinality
    DEF Refuse, tables, Store!Refuse, res
  <2> QED
    BY <2>1, <2>4 DEF Store!Next
<1>3. CASE FailEnqueue(s)
  <2>1. m \in Ids
    BY <1>3, OpenDelivery DEF FailEnqueue, IInv
  <2>2. outcome[m] = "open"
    BY <1>3, OpenDelivery DEF FailEnqueue, IInv
  <2>3. UNCHANGED res
    BY <1>3 DEF FailEnqueue, tables, res, Reserved
  <2>4. Store!Fail(m)
    BY <2>2, <2>3, <1>3 DEF FailEnqueue, tables, Store!Fail, res
  <2> QED
    BY <2>1, <2>4 DEF Store!Next
<1>4. CASE Commit(s)
  <2>1. m \in Ids /\ outcome[m] = "open" /\ dest[m] \in SUBSET Keys
    BY <1>4, OpenDelivery DEF Commit, IInv
  <2>2. \A k \in dest[m] : Cardinality(rows[k]) < MaxRequests
    BY <2>1, <1>4, CountKnown DEF Commit, IInv, SendersOK, PassDone, Counted
  <2>3. UNCHANGED res
    <3>1. \A k \in Keys : /\ rows'[k] = rows[k] \/ rows'[k] = rows[k] \cup {m}
                          /\ lease'[k] = lease[k]
      BY <1>4 DEF Commit
    <3>2. \A k \in Keys : m \in rows[k] \/ ~(lease[k][m] > 0)
      BY <2>1 DEF IInv, LeasesOnRows
    <3>3. \A k \in Keys : Reserved(k)' = Reserved(k)
      BY <3>1, <3>2 DEF Reserved
    <3> QED
      BY <3>3 DEF res
  <2>4. /\ outcome' = [outcome EXCEPT ![m] = "queued"]
        /\ rows' = [k \in Keys |-> IF k \in dest[m] THEN rows[k] \cup {m}
                                                    ELSE rows[k]]
        /\ UNCHANGED dest
    BY <1>4 DEF Commit
  <2>5. Store!Accept(m)
    BY <2>1, <2>2, <2>3, <2>4, SameCardinality DEF Store!Accept, res
  <2> QED
    BY <2>1, <2>5 DEF Store!Next
<1> QED
  BY <1>1, <1>2, <1>3, <1>4 DEF SenderStep

LEMMA BeginMaps ==
  ASSUME IInv, NEW s \in Senders, NEW K \in (SUBSET Keys) \ {{}}, Begin(s, K)
  PROVE  Store!Next
<1>1. PICK m \in Ids : m = nextId + 1
  BY BoundsAssumption DEF Begin, IInv, TypeOK, Ids
<1>2. outcome[m] = "unsent"
  BY <1>1, BoundsAssumption DEF IInv, DeliveriesOK, TypeOK
<1>3. UNCHANGED res
  BY DEF Begin, tables, res, Reserved
<1>4. Store!Post(m, K)
  BY <1>1, <1>2, <1>3 DEF Begin, tables, Store!Post, res
<1> QED
  BY <1>4 DEF Store!Next

\* The reservations of one inbox change.
LEMMA OneInbox ==
  ASSUME NEW k \in Keys,
         \A j \in Keys \ {k} : rows'[j] = rows[j] /\ lease'[j] = lease[j]
  PROVE  res' = [res EXCEPT ![k] = Reserved(k)']
BY DEF res, Reserved

LEMMA ConsumerMaps ==
  ASSUME IInv, NEW c \in Consumers, ConsumerStep(c)
  PROVE  [Store!Next]_(Store!vars)
<1>1. CASE LowerCount(c)
  BY <1>1, Invisible DEF LowerCount, tables, history
<1>2. CASE CommitClaim(c)
  <2>1. PICK k \in Keys : k = con[c].key
    BY <1>2 DEF CommitClaim, IInv, RowsHeld
  <2>2. /\ con[c].ids \subseteq rows[k]
        /\ \A m \in con[c].ids : lease[k][m] = 0
    BY <2>1, <1>2 DEF CommitClaim, IInv, RowsHeld
  <2>3. /\ UNCHANGED <<rows, dest, outcome>>
        /\ \A j \in Keys \ {k} : lease'[j] = lease[j]
        /\ \A m \in Ids : lease'[k][m] = IF m \in con[c].ids THEN con[c].left
                                                             ELSE lease[k][m]
    BY <2>1, <1>2 DEF CommitClaim, history, IInv, TypeOK
  <2>4. PICK S \in SUBSET (rows[k] \ Reserved(k)) :
               Reserved(k)' = Reserved(k) \cup S
    <3>1. rows[k] \subseteq Ids
      BY DEF IInv, TypeOK
    <3>2. con[c].left \in Nat
      BY BoundsAssumption DEF IInv, TypeOK
    <3>3. CASE con[c].left > 0
      <4>1. Reserved(k)' = Reserved(k) \cup con[c].ids
        BY <3>1, <3>3, <2>2, <2>3 DEF Reserved
      <4>2. con[c].ids \in SUBSET (rows[k] \ Reserved(k))
        BY <2>2 DEF Reserved
      <4> QED
        BY <4>1, <4>2
    <3>4. CASE ~(con[c].left > 0)
      <4>1. Reserved(k)' = Reserved(k) \cup {}
        BY <3>1, <3>4, <2>2, <2>3 DEF Reserved
      <4> QED
        BY <4>1
    <3> QED
      BY <3>3, <3>4
  <2>5. res' = [res EXCEPT ![k] = Reserved(k) \cup S]
    BY <2>3, <2>4, OneInbox
  <2>6. Store!Reserve(k)
    BY <2>3, <2>5 DEF Store!Reserve, res
  <2> QED
    BY <2>6 DEF Store!Next
<1>3. CASE CommitAck(c)
  <2>1. PICK k \in Keys, S \in SUBSET Ids : k = con[c].key /\ S = con[c].ids
    BY <1>3 DEF CommitAck, IInv, RowsHeld, TypeOK
  <2>2. S \in SUBSET rows[k]
    BY <2>1, <1>3 DEF CommitAck, IInv, RowsHeld
  <2>3. /\ UNCHANGED <<dest, outcome>>
        /\ rows' = [rows EXCEPT ![k] = rows[k] \ S]
        /\ \A j \in Keys \ {k} : rows'[j] = rows[j] /\ lease'[j] = lease[j]
        /\ rows'[k] = rows[k] \ S
        /\ \A m \in Ids : lease'[k][m] = IF m \in S THEN 0 ELSE lease[k][m]
    BY <2>1, <1>3 DEF CommitAck, IInv, TypeOK
  <2>4. Reserved(k)' = Reserved(k) \ S
    BY <2>3 DEF Reserved, IInv, TypeOK
  <2>5. res' = [res EXCEPT ![k] = Reserved(k) \ S]
    BY <2>3, <2>4, OneInbox
  <2>6. Store!Settle(k)
    BY <2>2, <2>3, <2>5 DEF Store!Settle, res
  <2> QED
    BY <2>6 DEF Store!Next
<1> QED
  BY <1>1, <1>2, <1>3 DEF ConsumerStep

LEMMA ReleaseMaps ==
  ASSUME IInv, NEW c \in Consumers, NEW k \in Keys, NEW ids \in SUBSET Ids,
         Release(c, k, ids)
  PROVE  Store!Next
<1>1. /\ UNCHANGED <<rows, dest, outcome>>
      /\ \A j \in Keys \ {k} : lease'[j] = lease[j]
      /\ \A m \in Ids : lease'[k][m] = IF m \in ids \cap rows[k] THEN 0
                                                        ELSE lease[k][m]
  BY DEF Release, history, IInv, TypeOK
<1>2. PICK S \in SUBSET Reserved(k) : Reserved(k)' = Reserved(k) \ S
  <2>1. Reserved(k)' = Reserved(k) \ (ids \cap Reserved(k))
    BY <1>1 DEF Reserved, IInv, TypeOK
  <2> QED
    BY <2>1
<1>3. res' = [res EXCEPT ![k] = Reserved(k) \ S]
  BY <1>1, <1>2, OneInbox
<1>4. Store!Free(k)
  BY <1>1, <1>3 DEF Store!Free, res
<1> QED
  BY <1>4 DEF Store!Next

LEMMA TickMaps ==
  ASSUME IInv, Tick
  PROVE  Store!Next
<1>1. /\ UNCHANGED <<rows, dest, outcome>>
      /\ \A k \in Keys, m \in Ids : lease'[k][m] > 0 => lease[k][m] > 0
  BY BoundsAssumption DEF Tick, history, Less, IInv, TypeOK
<1>2. \A k \in Keys : Reserved(k)' \subseteq Reserved(k) /\ Reserved(k)' \in SUBSET Ids
  BY <1>1 DEF Reserved, IInv, TypeOK
<1>3. Store!Expire
  BY <1>1, <1>2 DEF Store!Expire
<1> QED
  BY <1>3 DEF Store!Next

\* Every behaviour of the inbox transactions is one of the abstract store.
THEOREM Refinement == Spec => ImplementsStore
<1>1. ASSUME IInv, [Next]_vars
      PROVE  [Store!Next]_(Store!vars)
  <2> USE <1>1
  <2>1. ASSUME NEW s \in Senders, NEW K \in (SUBSET Keys) \ {{}}, Begin(s, K)
        PROVE  Store!Next
    BY <2>1, BeginMaps
  <2>2. ASSUME NEW s \in Senders, SenderStep(s) \/ FailEnqueue(s)
        PROVE  [Store!Next]_(Store!vars)
    BY <2>2, SenderMaps
  <2>3. ASSUME NEW c \in Consumers, NEW k \in Keys,
               Claim(c, k) \/ \E ids \in SUBSET Ids : Ack(c, k, ids)
        PROVE  UNCHANGED Store!vars
    BY <2>3, Invisible DEF Claim, Ack, tables, history
  <2>4. ASSUME NEW c \in Consumers, NEW k \in Keys, NEW ids \in SUBSET Ids,
               Release(c, k, ids)
        PROVE  Store!Next
    BY <2>4, ReleaseMaps
  <2>5. ASSUME NEW c \in Consumers, ConsumerStep(c)
        PROVE  [Store!Next]_(Store!vars)
    BY <2>5, ConsumerMaps
  <2>6. ASSUME NEW c \in Consumers, FailConsumer(c)
        PROVE  UNCHANGED Store!vars
    BY <2>6, Invisible DEF FailConsumer, tables, history
  <2>7. CASE Tick
    BY <2>7, TickMaps
  <2>8. CASE UNCHANGED vars
    BY <2>8, Invisible DEF vars, tables, history
  <2> QED
    BY <2>1, <2>2, <2>3, <2>4, <2>5, <2>6, <2>7, <2>8 DEF Next
<1> QED
  BY <1>1, InitStore, Invariance, PTL DEF Spec, ImplementsStore, Store!Spec

-----------------------------------------------------------------------------
(***************************************************************************)
(* Enqueues and acks never wait in a circle.                               *)
(*                                                                         *)
(* Who waits in the second pass waits for somebody in his second pass, who *)
(* is at a later key; who waits in the first pass, if nobody in the second *)
(* is involved, for somebody in his first pass at a later key.  Keys are   *)
(* finitely many, so one of them waits for nobody in the circle.           *)
(***************************************************************************)

\* What a sender has locked: rows it inserted and, in the second pass, the rows
\* it has visited.
LocksKnown(s) ==
  \A k \in Keys : countLock[k] = s =>
    /\ enq[s].pc # "idle"
    /\ enq[s].pc = "ensure" => k \in enq[s].fresh
    /\ enq[s].pc = "lock" => k \in enq[s].fresh \cup Visited(s)

\* A pass visits the keys in their order.
PassSorted(s) ==
  enq[s].pc \in {"ensure", "lock"} =>
    \A j \in Visited(s), k \in enq[s].todo : j < k

\* Rows are inserted for visited keys.
FreshVisited(s) == enq[s].pc = "ensure" => enq[s].fresh \subseteq Visited(s)

SenderSorted(s) == LocksKnown(s) /\ PassSorted(s) /\ FreshVisited(s)

\* A consumer locks the count of the inbox it acks, when it lowers it.
AckLocks ==
  \A c \in Consumers, k \in Keys :
    countLock[k] = c => con[c].pc = "ackCommit" /\ con[c].key = k

WaitInv == (\A s \in Senders : SenderSorted(s)) /\ AckLocks

-----------------------------------------------------------------------------
(* Facts about sets of keys. *)

\* The first key of a pass is before the others.
LEMMA FirstKeyIsFirst ==
  ASSUME NEW s \in Senders, enq[s].todo \subseteq Keys, enq[s].todo # {}
  PROVE  /\ FirstKey(s) \in enq[s].todo
         /\ \A j \in enq[s].todo \ {FirstKey(s)} : FirstKey(s) < j
<1>1. enq[s].todo \subseteq Nat
  BY KeysAssumption
<1>2. \E k \in enq[s].todo : \A j \in enq[s].todo :
        ~ (<<j, k>> \in OpToRel(<, Nat))
  BY <1>1, WFMin, NatLessThanWellFounded, Zenon
<1>3. \A k, j \in Nat : ~ (<<j, k>> \in OpToRel(<, Nat)) => k <= j
  BY DEF OpToRel
<1>4. \E k \in enq[s].todo : \A j \in enq[s].todo : k <= j
  BY <1>1, <1>2, <1>3
<1>5. /\ FirstKey(s) \in enq[s].todo
      /\ \A j \in enq[s].todo : FirstKey(s) <= j
  BY <1>4 DEF FirstKey
<1> QED
  BY <1>1, <1>5

\* A non-empty set of keys has a last one.
LEMMA LastKey ==
  ASSUME NEW T \in SUBSET Keys, T # {}
  PROVE  \E m \in T : \A k \in T : k <= m
<1> DEFINE After(m) == {k \in T : m < k}
           Afters == {After(m) : m \in T}
<1>1. IsFiniteSet(T) /\ T \subseteq Nat
  BY KeysAssumption, FS_Subset
<1>2. Afters \subseteq FiniteSubsetsOf(T) /\ Afters # {}
  <2>1. FiniteSubsetsOf(T) = SUBSET T
    BY <1>1, FS_FiniteSubsetsOfFinite
  <2>2. \A m \in T : After(m) \in SUBSET T
    OBVIOUS
  <2> HIDE DEF After
  <2> QED
    BY <2>1, <2>2
<1>3. \E A \in Afters : \A B \in Afters : ~ (<<B, A>> \in StrictSubsetOrdering(T))
  <2>1. IsWellFoundedOn(StrictSubsetOrdering(T), FiniteSubsetsOf(T))
    BY FS_StrictSubsetOrderingWellFounded
  <2> HIDE DEF Afters
  <2> QED
    BY <1>2, <2>1, WFMin, Zenon
<1>4. PICK m \in T : \A n \in T : ~ (<<After(n), After(m)>> \in StrictSubsetOrdering(T))
  BY <1>3
<1>5. ASSUME NEW n \in T, m < n
      PROVE  FALSE
  <2>1. \A k \in T : n < k => m < k
    BY <1>1, <1>5
  <2>2. n \in After(m) /\ n \notin After(n)
    BY <1>1, <1>5
  <2>3. After(n) \subseteq After(m) /\ After(m) \subseteq T /\ After(n) \subseteq T
    BY <2>1
  <2>4. <<After(n), After(m)>> \in StrictSubsetOrdering(T)
    <3> HIDE DEF After
    <3> QED
      BY <2>2, <2>3 DEF StrictSubsetOrdering
  <2> QED
    BY <1>4, <2>4
<1> QED
  BY <1>1, <1>5

-----------------------------------------------------------------------------
(* WaitInv is kept. *)

LEMMA InitWaitInv == Init => WaitInv
BY ActorsAssumption
DEF Init, WaitInv, SenderSorted, LocksKnown, PassSorted, FreshVisited, AckLocks, IdleEnq

\* What others do leaves a sender's keys in order.
LEMMA SortedKept ==
  ASSUME NEW t \in Senders, SenderSorted(t), enq'[t] = enq[t],
         enq[t].pc # "idle" => dest'[enq[t].msg] = dest[enq[t].msg],
         \A k \in Keys : countLock'[k] = t => countLock[k] = t
  PROVE  SenderSorted(t)'
BY DEF SenderSorted, LocksKnown, PassSorted, FreshVisited, Visited

\* A step of a sender.
LEMMA SenderMoves ==
  ASSUME IInv, WaitInv, NEW s \in Senders,
         \A t \in Senders \ {s} : enq'[t] = enq[t], UNCHANGED con,
         \A m \in Ids : m # nextId' => dest'[m] = dest[m],
         nextId' = nextId \/ (nextId' = nextId + 1 /\ nextId' \in Ids),
         nextId' = nextId => dest' = dest,
         \A p \in Actors \ {s}, k \in Keys : countLock'[k] = p => countLock[k] = p,
         SenderSorted(s)'
  PROVE  WaitInv'
<1>1. ASSUME NEW t \in Senders \ {s}
      PROVE  SenderSorted(t)'
  <2>1. enq'[t] = enq[t]
    OBVIOUS
  <2>2. enq[t].pc # "idle" => dest'[enq[t].msg] = dest[enq[t].msg]
    BY BoundsAssumption DEF IInv, TypeOK, DeliveriesOK, Ids
  <2>3. \A k \in Keys : countLock'[k] = t => countLock[k] = t
    BY DEF Actors
  <2> QED
    BY <2>1, <2>2, <2>3, SortedKept DEF WaitInv
<1>2. AckLocks'
  BY ActorsAssumption DEF WaitInv, AckLocks, Actors
<1> QED
  BY <1>1, <1>2 DEF WaitInv

LEMMA BeginWait ==
  ASSUME IInv, WaitInv, NEW s \in Senders, NEW K \in (SUBSET Keys) \ {{}}, Begin(s, K)
  PROVE  WaitInv'
<1>1. /\ enq[s].pc = "idle" /\ nextId' = nextId + 1 /\ nextId' \in Ids
      /\ UNCHANGED <<countLock, con>>
      /\ enq' = [enq EXCEPT ![s] =
                   [pc |-> "ensure", msg |-> nextId + 1, todo |-> K, fresh |-> {}]]
      /\ dest' = [dest EXCEPT ![nextId + 1] = K]
  BY BoundsAssumption DEF Begin, IInv, TypeOK, Ids
<1>2. /\ enq'[s] = [pc |-> "ensure", msg |-> nextId + 1, todo |-> K, fresh |-> {}]
      /\ \A t \in Senders \ {s} : enq'[t] = enq[t]
  BY <1>1 DEF IInv, TypeOK
<1>3. dest'[nextId + 1] = K
  BY <1>1 DEF IInv, TypeOK
<1>4. \A k \in Keys : countLock[k] # s
  BY <1>1 DEF WaitInv, SenderSorted, LocksKnown
<1>5. SenderSorted(s)'
  BY <1>1, <1>2, <1>3, <1>4 DEF SenderSorted, LocksKnown, PassSorted, FreshVisited, Visited
<1>6. \A m \in Ids : m # nextId' => dest'[m] = dest[m]
  BY <1>1 DEF IInv, TypeOK
<1>7. nextId' # nextId
  BY <1>1 DEF IInv, TypeOK
<1> QED
  BY <1>1, <1>2, <1>5, <1>6, <1>7, SenderMoves

\* One key of a pass is done, and next is what follows the pass.
DoneKey(s, next, F) ==
  LET k == FirstKey(s) IN
  /\ enq'[s].msg = enq[s].msg /\ enq'[s].fresh = enq[s].fresh \cup F
  /\ IF enq[s].todo = {k}
       THEN enq'[s].pc = next /\ enq'[s].todo = dest[enq[s].msg]
       ELSE enq'[s].pc = enq[s].pc /\ enq'[s].todo = enq[s].todo \ {k}
  /\ \A t \in Senders \ {s} : enq'[t] = enq[t]

LEMMA PassMoves ==
  ASSUME IInv, WaitInv, NEW s \in Senders, enq[s].pc \in {"ensure", "lock"},
         NEW next \in {"lock", "write"}, enq[s].pc = "ensure" <=> next = "lock",
         NEW F \in SUBSET {FirstKey(s)}, DoneKey(s, next, F),
         \A k \in Keys : countLock'[k] = s =>
           countLock[k] = s \/ k \in F \/ (k = FirstKey(s) /\ enq[s].pc = "lock"),
         \A p \in Actors \ {s}, k \in Keys : countLock'[k] = p => countLock[k] = p,
         UNCHANGED <<con, dest, nextId>>
  PROVE  WaitInv'
<1> DEFINE k == FirstKey(s)
<1>1. /\ enq[s].todo \subseteq Keys /\ enq[s].todo # {}
      /\ enq[s].todo \subseteq dest[enq[s].msg] /\ SenderSorted(s)
  BY DEF IInv, TypeOK, SendersOK, PassDone, WaitInv
<1>2. k \in enq[s].todo /\ \A j \in enq[s].todo \ {k} : k < j
  BY <1>1, FirstKeyIsFirst
<1>3. SenderSorted(s)'
  <2>1. CASE enq[s].todo = {k}
    <3>1. Visited(s)' = {}
      BY <2>1 DEF Visited, DoneKey
    <3> QED
      BY <1>1, <2>1, <3>1
      DEF DoneKey, SenderSorted, LocksKnown, PassSorted, FreshVisited
  <2>2. CASE enq[s].todo # {k}
    <3>1. Visited(s)' = Visited(s) \cup {k}
      BY <1>1, <1>2, <2>2 DEF Visited, DoneKey
    <3>2. LocksKnown(s)' /\ FreshVisited(s)'
      BY <1>1, <2>2, <3>1 DEF DoneKey, SenderSorted, LocksKnown, FreshVisited
    <3>3. PassSorted(s)'
      BY <1>1, <1>2, <2>2, <3>1 DEF DoneKey, SenderSorted, PassSorted
    <3> QED
      BY <3>2, <3>3 DEF SenderSorted
  <2> QED
    BY <2>1, <2>2
<1>4. \A t \in Senders \ {s} : enq'[t] = enq[t]
  BY DEF DoneKey
<1> QED
  BY <1>3, <1>4, SenderMoves

LEMMA EnsureRowWait ==
  ASSUME IInv, WaitInv, NEW s \in Senders, EnsureRow(s)
  PROVE  WaitInv'
<1>1. enq[s].pc = "ensure" /\ UNCHANGED <<con, dest, nextId>>
  BY DEF EnsureRow, history
<1>2. CASE counts[FirstKey(s)] = NoRow
  <2>1. /\ countLock' = [countLock EXCEPT ![FirstKey(s)] = s]
        /\ enq' = [enq EXCEPT ![s] =
                     [Advance(s, FirstKey(s), "lock") EXCEPT !.fresh = @ \cup {FirstKey(s)}]]
    BY <1>2 DEF EnsureRow
  <2>2. \A p \in Actors, k \in Keys :
          countLock'[k] = p => countLock[k] = p \/ (p = s /\ k = FirstKey(s))
    BY <2>1 DEF IInv, TypeOK
  <2>3. DoneKey(s, "lock", {FirstKey(s)})
    BY <2>1 DEF IInv, TypeOK, DoneKey, Advance
  <2> QED
    BY <1>1, <2>2, <2>3, PassMoves DEF Actors
<1>3. CASE counts[FirstKey(s)] # NoRow
  <2>1. enq' = [enq EXCEPT ![s] = Advance(s, FirstKey(s), "lock")] /\ UNCHANGED countLock
    BY <1>3 DEF EnsureRow
  <2>2. DoneKey(s, "lock", {})
    BY <2>1 DEF IInv, TypeOK, DoneKey, Advance
  <2> QED
    BY <1>1, <2>1, <2>2, PassMoves
<1> QED
  BY <1>2, <1>3

LEMMA LockCountWait ==
  ASSUME IInv, WaitInv, NEW s \in Senders, LockCount(s)
  PROVE  WaitInv'
<1>1. /\ enq[s].pc = "lock" /\ UNCHANGED <<con, dest, nextId>>
      /\ countLock' = [countLock EXCEPT ![FirstKey(s)] = s]
      /\ enq' = [enq EXCEPT ![s] = Advance(s, FirstKey(s), "write")]
  BY DEF LockCount, history
<1>2. \A p \in Actors, k \in Keys :
        countLock'[k] = p => countLock[k] = p \/ (p = s /\ k = FirstKey(s))
  BY <1>1 DEF IInv, TypeOK
<1>3. DoneKey(s, "write", {})
  BY <1>1 DEF IInv, TypeOK, DoneKey, Advance
<1> QED
  BY <1>1, <1>2, <1>3, PassMoves DEF Actors

\* Steps after which the sender waits for nothing.
LEMMA EndsPass ==
  ASSUME IInv, WaitInv, NEW s \in Senders,
         Refuse(s) \/ Write(s) \/ FailEnqueue(s)
  PROVE  WaitInv'
<1>1. PICK pc \in {"rollback", "commit"} : enq' = [enq EXCEPT ![s].pc = pc]
  BY DEF Refuse, Write, FailEnqueue
<1>2. enq'[s].pc = pc /\ \A t \in Senders \ {s} : enq'[t] = enq[t]
  BY <1>1 DEF IInv, TypeOK
<1>3. SenderSorted(s)'
  BY <1>2 DEF SenderSorted, LocksKnown, PassSorted, FreshVisited
<1>4. UNCHANGED <<con, dest, nextId>>
  BY DEF Refuse, Write, FailEnqueue, history
<1>5. \A p \in Actors \ {s}, k \in Keys : countLock'[k] = p => countLock[k] = p
  BY DEF Refuse, Write, FailEnqueue, IInv, TypeOK
<1> QED
  BY <1>2, <1>3, <1>4, <1>5, SenderMoves

LEMMA EndsSender ==
  ASSUME IInv, WaitInv, NEW s \in Senders, Commit(s) \/ Rollback(s)
  PROVE  WaitInv'
<1>1. /\ enq' = [enq EXCEPT ![s] = IdleEnq] /\ countLock' = Unlocked(s)
      /\ UNCHANGED <<con, dest, nextId>>
  BY DEF Commit, Rollback, history
<1>2. enq'[s] = IdleEnq /\ \A t \in Senders \ {s} : enq'[t] = enq[t]
  BY <1>1 DEF IInv, TypeOK
<1>3. \A k \in Keys : countLock'[k] # s
  BY <1>1, ActorsAssumption DEF Unlocked
<1>4. SenderSorted(s)'
  BY <1>2, <1>3 DEF SenderSorted, LocksKnown, PassSorted, FreshVisited, IdleEnq
<1>5. \A p \in Actors \ {s}, k \in Keys : countLock'[k] = p => countLock[k] = p
  BY <1>1, ActorsAssumption DEF Unlocked, Actors
<1> QED
  BY <1>1, <1>2, <1>4, <1>5, SenderMoves

\* A step of a consumer, which locks at most the inbox it acks.
LEMMA ConsumerMoves ==
  ASSUME IInv, WaitInv, NEW c \in Consumers, UNCHANGED <<enq, dest>>,
         \A d \in Consumers \ {c} : con'[d] = con[d],
         \A p \in Actors \ {c}, k \in Keys : countLock'[k] = p => countLock[k] = p,
         \A k \in Keys : countLock'[k] = c => con'[c].pc = "ackCommit" /\ con'[c].key = k
  PROVE  WaitInv'
<1>1. ASSUME NEW t \in Senders
      PROVE  SenderSorted(t)'
  BY ActorsAssumption, SortedKept DEF WaitInv, Actors
<1>2. AckLocks'
  BY DEF WaitInv, AckLocks, Actors
<1> QED
  BY <1>1, <1>2 DEF WaitInv

LEMMA ConsumerWait ==
  ASSUME IInv, WaitInv, NEW c \in Consumers,
         \/ \E k \in Keys : Claim(c, k)
         \/ \E k \in Keys, ids \in SUBSET Ids : Ack(c, k, ids) \/ Release(c, k, ids)
         \/ ConsumerStep(c) \/ FailConsumer(c)
  PROVE  WaitInv'
<1> USE DEF history
<1>1. ASSUME NEW new, con' = [con EXCEPT ![c] = new], UNCHANGED <<enq, dest, countLock>>,
             con[c].pc # "ackCommit"
      PROVE  WaitInv'
  BY <1>1, ConsumerMoves DEF IInv, TypeOK, WaitInv, AckLocks
<1>2. ASSUME NEW k \in Keys, Claim(c, k)
      PROVE  WaitInv'
  BY <1>1, <1>2 DEF Claim
<1>3. ASSUME NEW k \in Keys, NEW ids \in SUBSET Ids, Ack(c, k, ids)
      PROVE  WaitInv'
  BY <1>1, <1>3 DEF Ack
<1>4. ASSUME NEW k \in Keys, NEW ids \in SUBSET Ids, Release(c, k, ids)
      PROVE  WaitInv'
  BY <1>4, ConsumerMoves DEF Release, WaitInv, AckLocks
<1>5. CASE CommitClaim(c)
  BY <1>1, <1>5 DEF CommitClaim
<1>6. CASE LowerCount(c)
  <2>1. /\ countLock' = [countLock EXCEPT ![con[c].key] = c]
        /\ con' = [con EXCEPT ![c].pc = "ackCommit"] /\ con[c].pc = "ack"
        /\ UNCHANGED <<enq, dest>>
    BY <1>6 DEF LowerCount
  <2>2. /\ con'[c].pc = "ackCommit" /\ con'[c].key = con[c].key
        /\ \A d \in Consumers \ {c} : con'[d] = con[d]
    BY <2>1 DEF IInv, TypeOK
  <2>3. \A p \in Actors, k \in Keys :
          countLock'[k] = p => countLock[k] = p \/ (p = c /\ k = con[c].key)
    BY <2>1 DEF IInv, TypeOK
  <2>4. \A k \in Keys : countLock[k] # c
    BY <2>1 DEF WaitInv, AckLocks
  <2> QED
    BY <2>1, <2>2, <2>3, <2>4, ConsumerMoves DEF Actors
<1>7. CASE CommitAck(c) \/ FailConsumer(c)
  <2>1. /\ con' = [con EXCEPT ![c] = IdleCon] /\ countLock' = Unlocked(c)
        /\ UNCHANGED <<enq, dest>>
    BY <1>7 DEF CommitAck, FailConsumer
  <2>2. \A d \in Consumers \ {c} : con'[d] = con[d]
    BY <2>1 DEF IInv, TypeOK
  <2>3. /\ \A k \in Keys : countLock'[k] # c
        /\ \A p \in Actors, k \in Keys : countLock'[k] = p => countLock[k] = p
    BY <2>1, ActorsAssumption DEF Unlocked, Actors
  <2> QED
    BY <2>1, <2>2, <2>3, ConsumerMoves
<1> QED
  BY <1>2, <1>3, <1>4, <1>5, <1>6, <1>7 DEF ConsumerStep

LEMMA TickWait ==
  ASSUME IInv, WaitInv, Tick \/ UNCHANGED vars
  PROVE  WaitInv'
<1>1. UNCHANGED <<enq, dest, countLock>>
  BY DEF Tick, vars, history
<1>2. \A c \in Consumers : con'[c].pc = con[c].pc /\ con'[c].key = con[c].key
  BY DEF Tick, vars, IInv, TypeOK
<1>3. \A t \in Senders : SenderSorted(t)'
  BY <1>1, SortedKept DEF WaitInv
<1> QED
  BY <1>1, <1>2, <1>3 DEF WaitInv, AckLocks

LEMMA NextWaitInv == IInv /\ WaitInv /\ [Next]_vars => WaitInv'
<1> SUFFICES ASSUME IInv, WaitInv, [Next]_vars
             PROVE  WaitInv'
  OBVIOUS
<1>1. ASSUME NEW s \in Senders,
             \/ \E K \in (SUBSET Keys) \ {{}} : Begin(s, K)
             \/ SenderStep(s) \/ FailEnqueue(s)
      PROVE  WaitInv'
  BY <1>1, BeginWait, EnsureRowWait, LockCountWait, EndsPass, EndsSender DEF SenderStep
<1>2. ASSUME NEW c \in Consumers,
             \/ \E k \in Keys : Claim(c, k)
             \/ \E k \in Keys, ids \in SUBSET Ids : Ack(c, k, ids) \/ Release(c, k, ids)
             \/ ConsumerStep(c) \/ FailConsumer(c)
      PROVE  WaitInv'
  BY <1>2, ConsumerWait
<1>3. CASE Tick \/ UNCHANGED vars
  BY <1>3, TickWait
<1> QED
  BY <1>1, <1>2, <1>3 DEF Next

-----------------------------------------------------------------------------
(* Nobody waits in a circle. *)

Waiting(p) == p \in Senders /\ enq[p].pc \in {"ensure", "lock"}

\* Who is waited for and waits himself is a sender in a pass.
LEMMA HolderIsSender ==
  ASSUME IInv, WaitInv, NEW p \in Actors, NEW q \in Actors,
         WaitsFor(p) = q, WaitsFor(q) # None
  PROVE  /\ q \in Senders /\ enq[q].pc \in {"ensure", "lock"}
         /\ \E k \in Keys : countLock[k] = q
<1>1. q # None
  BY ActorsAssumption DEF Actors
<1>2. \E k \in Keys : countLock[k] = q
  <2>1. CASE p \in Senders
    <3>1. enq[p].pc \in {"ensure", "lock"} /\ countLock[FirstKey(p)] = q
      BY <1>1, <2>1 DEF WaitsFor
    <3>2. FirstKey(p) \in Keys
      BY <2>1, <3>1, FirstKeyIsFirst DEF IInv, TypeOK, SendersOK, PassDone
    <3> QED
      BY <3>1, <3>2
  <2>2. CASE p \notin Senders
    <3>1. con[p].pc = "ack" /\ countLock[con[p].key] = q /\ p \in Consumers
      BY <1>1, <2>2 DEF WaitsFor, Actors
    <3>2. con[p].key \in Keys
      BY <3>1 DEF IInv, RowsHeld
    <3> QED
      BY <3>1, <3>2
  <2> QED
    BY <2>1, <2>2
<1>3. q \in Senders
  BY <1>2 DEF WaitInv, AckLocks, WaitsFor, Actors
<1> QED
  BY <1>2, <1>3 DEF WaitsFor

\* A circle that waits for itself has a sender at the last key any of some
\* senders is at, if each of them waits for one of them at a later key.
LEMMA SomebodyIsLast ==
  ASSUME IInv, NEW L \in SUBSET Senders, L # {},
         \A p \in L : enq[p].pc \in {"ensure", "lock"},
         \A p \in L : \E q \in L : FirstKey(p) < FirstKey(q)
  PROVE  FALSE
<1> DEFINE T == {FirstKey(p) : p \in L}
<1>1. T \in SUBSET Keys /\ T # {}
  <2>1. \A p \in L : FirstKey(p) \in Keys
    BY FirstKeyIsFirst DEF IInv, TypeOK, SendersOK, PassDone
  <2> QED
    BY <2>1
<1>2. PICK m \in T : \A k \in T : k <= m
  <2> HIDE DEF T
  <2> QED
    BY <1>1, LastKey
<1>3. PICK p \in L, q \in L : m = FirstKey(p) /\ FirstKey(p) < FirstKey(q)
  BY <1>2
<1>4. FirstKey(q) \in T /\ FirstKey(q) \in Nat /\ m \in Nat
  BY <1>1, <1>2, KeysAssumption
<1> QED
  BY <1>2, <1>3, <1>4

LEMMA NobodyWaitsInCircle ==
  ASSUME IInv, WaitInv
  PROVE  NoWaitCycle
<1> SUFFICES ASSUME NEW P \in (SUBSET Actors) \ {{}},
                    \A p \in P : WaitsFor(p) \in P
             PROVE  FALSE
  BY DEF NoWaitCycle
<1> DEFINE L == {p \in P : p \in Senders /\ enq[p].pc = "lock"}
           E == {p \in P : p \in Senders /\ enq[p].pc = "ensure"}
<1>1. \A p \in P : WaitsFor(p) # None
  BY ActorsAssumption DEF Actors
<1>2. \A p \in P : WaitsFor(p) \in L \cup E
  BY <1>1, HolderIsSender
<1>3. \A p \in L \cup E :
        /\ FirstKey(p) \in Keys /\ FirstKey(p) \in enq[p].todo
        /\ countLock[FirstKey(p)] = WaitsFor(p) /\ WaitsFor(p) # None
        /\ enq[p].pc = "lock" => WaitsFor(p) # p
  BY <1>1, FirstKeyIsFirst DEF WaitsFor, IInv, TypeOK, SendersOK, PassDone
\* In the second pass all keys have a row: nobody waits for a row that is new.
<1>4. ASSUME NEW p \in L
      PROVE  WaitsFor(p) \in L /\ FirstKey(p) < FirstKey(WaitsFor(p))
  <2> DEFINE q == WaitsFor(p)
             k == FirstKey(p)
  <2>1. q \in L \cup E /\ q # p /\ countLock[k] = q /\ k \in Keys
    BY <1>2, <1>3
  <2>2. HasRow(p, k)
    BY <1>3 DEF IInv, SendersOK, PassDone
  <2>3. k \notin enq[q].fresh
    BY <2>1, <2>2 DEF HasRow, IInv, SendersOK, FreshLocked
  <2>4. enq[q].pc = "lock" /\ k \in Visited(q)
    BY <2>1, <2>3 DEF WaitInv, SenderSorted, LocksKnown
  <2>5. FirstKey(q) \in enq[q].todo
    BY <1>3, <2>1
  <2>6. k < FirstKey(q)
    BY <2>1, <2>4, <2>5 DEF WaitInv, SenderSorted, PassSorted
  <2> QED
    BY <2>1, <2>4, <2>6
<1>5. L = {}
  <2>1. \A p \in L : \E q \in L : FirstKey(p) < FirstKey(q)
    BY <1>4
  <2> QED
    BY <2>1, SomebodyIsLast
<1>6. ASSUME NEW p \in E
      PROVE  WaitsFor(p) \in E /\ FirstKey(p) < FirstKey(WaitsFor(p))
  <2> DEFINE q == WaitsFor(p)
             k == FirstKey(p)
  <2>1. q \in E /\ countLock[k] = q /\ k \in Keys /\ FirstKey(q) \in enq[q].todo
    BY <1>2, <1>3, <1>5
  <2>2. k \in enq[q].fresh /\ enq[q].fresh \subseteq Visited(q)
    BY <2>1 DEF WaitInv, SenderSorted, LocksKnown, FreshVisited
  <2> QED
    BY <2>1, <2>2 DEF WaitInv, SenderSorted, PassSorted
<1>7. E = {}
  <2>1. \A p \in E : \E q \in E : FirstKey(p) < FirstKey(q)
    BY <1>6
  <2> QED
    BY <2>1, SomebodyIsLast
<1> QED
  BY <1>2, <1>5, <1>7

\* Enqueues to overlapping recipients and acks never wait for each other in a
\* circle, however many there are: the keys are visited in sorted order
\* (insert_inbox_messages, ack_messages).
THEOREM EnqueuesNeverDeadlock == Spec => []NoWaitCycle
<1>1. IInv /\ WaitInv => NoWaitCycle
  BY NobodyWaitsInCircle
<1> QED
  BY <1>1, InitWaitInv, NextWaitInv, Invariance, PTL DEF Spec
=============================================================================
