------------------------------- MODULE Library -------------------------------
(***************************************************************************)
(* One resource of the library of cc.me: a pool of `count' numbered slots  *)
(* (tables library_resources and library_leases) that clients borrow for   *)
(* a bounded time, waiting for a slot if they want to.                     *)
(*                                                                         *)
(* try_borrow is a transaction: it waits for the lock of the resource's    *)
(* row (SELECT count .. FOR UPDATE), drops the expired leases, takes the   *)
(* lowest free slot and commits, or is rolled back when none is free.  Its *)
(* now() is the time it began.  return_lease and the upsert and delete of  *)
(* the resource are single statements.                                     *)
(*                                                                         *)
(* expires_at is kept as the ticks left until it; it goes below 0 because  *)
(* an open transaction still sees the time it began.                       *)
(***************************************************************************)
EXTENDS Integers, FiniteSets

CONSTANTS
  Borrowers,  \* clients, each with one request at a time
  None,       \* nobody holds the row lock
  MaxCount,   \* LIBRARY_MAX_COUNT
  MaxTtl,     \* LIBRARY_MAX_TTL_SECONDS, in ticks
  MaxAge,     \* bound of the model: ticks a transaction stays open
  Slack,      \* ticks by which an alarm is off (times are cut to seconds)
  MaxLeases   \* names for leases: one more than the table and the clients
              \*   can hold is enough, an unused name is as good as new

LibraryAssumption ==
  /\ None \notin Borrowers
  /\ MaxCount \in Nat /\ MaxTtl \in Nat \ {0} /\ MaxAge \in Nat /\ Slack \in Nat
  /\ MaxLeases \in Nat

Missing == -1   \* the resource has no row
LeaseIds == 1..MaxLeases
Slots == 0..(MaxCount - 1)
Lease == [id : LeaseIds, position : Slots, left : (-MaxAge)..MaxTtl]

VARIABLES
  count,    \* library_resources.count, or Missing
  leases,   \* the rows of library_leases
  lock,     \* the transaction that holds the lock of the resource's row
  req,      \* each client's borrow request: where it is, the age of its
            \*   transaction, the slot it is about to insert
  held,     \* the lease each client got last and has not returned, or 0
  late,     \* requests whose wait is over
  alarm,    \* ticks until a waiting request looks at the next expiry
  pinged,   \* requests whose receiver holds a notification of the resource
  owed,     \* a handler has committed and still has to notify
  lost,     \* history: a notification was lost
  peak      \* history: the largest count since the resource was registered

vars == <<count, leases, lock, req, held, late, alarm, pinged, owed, lost,
          peak>>

resource == <<count, peak>>
signals == <<late, alarm, pinged>>

NoAlarm == MaxTtl + Slack + 1

Idle == [pc |-> "idle", age |-> 0, slot |-> 0]
Begun == [pc |-> "begin", age |-> 0, slot |-> 0]

Init ==
  /\ count \in 0..MaxCount
  /\ leases = {}
  /\ lock = None
  /\ req = [p \in Borrowers |-> Idle]
  /\ held = [p \in Borrowers |-> 0]
  /\ late = {}
  /\ alarm = [p \in Borrowers |-> NoAlarm]
  /\ pinged = {}
  /\ owed = FALSE
  /\ lost = FALSE
  /\ peak = count

-----------------------------------------------------------------------------
(* What a statement sees *)

\* Leases that run now.
Live == {l \in leases : l.left > 0}

\* fault: a lease is dropped a tick before it expires
ExpiredEarly(p) == {l \in leases : l.left <= 1 - req[p].age}

\* Leases that are over for the transaction of p: expires_at <= now().
Expired(p) == {l \in leases : l.left <= -req[p].age}

\* generate_series(0, count - 1) without the positions that are taken.
Free(p) ==
  {i \in 0..(count - 1) : \A l \in leases \ Expired(p) : l.position # i}

Lowest(S) == CHOOSE i \in S : \A j \in S : i <= j

\* Requests that hold a receiver of library_tx.
Subscribed == {p \in Borrowers : req[p].pc # "idle"}

-----------------------------------------------------------------------------
(* borrow_resource and try_borrow *)

\* The request computes its deadline and subscribes before its first look.
Ask(p) ==
  /\ req[p].pc = "idle"
  /\ req' = [req EXCEPT ![p] = Begun]
  /\ UNCHANGED <<resource, leases, lock, held, signals, owed, lost>>

\* The answer of a request; its receiver is dropped.
Done(p) ==
  /\ req' = [req EXCEPT ![p] = Idle]
  /\ late' = late \ {p}
  /\ alarm' = [alarm EXCEPT ![p] = NoAlarm]
  /\ pinged' = pinged \ {p}

\* SELECT count .. FOR UPDATE finds no row: 404.
NotFound(p) ==
  /\ req[p].pc = "begin"
  /\ lock = None
  /\ count = Missing
  /\ Done(p)
  /\ UNCHANGED <<resource, leases, lock, held, owed, lost>>

\* fault: the row is read without FOR UPDATE
LockRowShared(p) ==
  /\ req[p].pc = "begin"
  /\ count # Missing
  /\ lock' = p
  /\ req' = [req EXCEPT ![p].pc = "locked"]
  /\ UNCHANGED <<resource, leases, held, signals, owed, lost>>

LockRow(p) ==
  /\ req[p].pc = "begin"
  /\ lock = None
  /\ count # Missing
  /\ lock' = p
  /\ req' = [req EXCEPT ![p].pc = "locked"]
  /\ UNCHANGED <<resource, leases, held, signals, owed, lost>>

\* SELECT min(gs): the lowest free position.
Choose(p) ==
  /\ req[p].pc = "locked"
  /\ Free(p) # {}
  /\ req' = [req EXCEPT ![p].pc = "insert", ![p].slot = Lowest(Free(p))]
  /\ UNCHANGED <<resource, leases, lock, held, signals, owed, lost>>

\* Names no row and no client holds: Uuid::new_v4().
NewIds ==
  LeaseIds \ ({l.id : l \in leases} \cup {held[p] : p \in Borrowers})

\* INSERT the lease with the clamped ttl, COMMIT: the expired leases are
\* deleted with it.
Grant(p) ==
  /\ req[p].pc = "insert"
  /\ NewIds # {}
  /\ \E ttl \in 1..MaxTtl :
       leases' = (leases \ Expired(p)) \cup
                   {[id |-> Lowest(NewIds), position |-> req[p].slot,
                     left |-> ttl - req[p].age]}
  /\ held' = [held EXCEPT ![p] = Lowest(NewIds)]
  /\ lock' = None
  /\ Done(p)
  /\ UNCHANGED <<resource, owed, lost>>

NonNegative(t) == IF t < 0 THEN 0 ELSE t

\* How long the first expiry among S is away, in clocks cut to seconds.
Alarms(S) ==
  IF S = {} THEN {NoAlarm}
  ELSE {NonNegative(Lowest({l.left : l \in S}) + d) : d \in (-Slack)..Slack}

\* fault: a request past its deadline goes on waiting
FullForever(p) ==
  /\ req[p].pc = "locked"
  /\ Free(p) = {}
  /\ lock' = None
  /\ req' = [req EXCEPT ![p] = [pc |-> "wait", age |-> 0, slot |-> 0]]
  /\ \E a \in Alarms(leases \ Expired(p)) : alarm' = [alarm EXCEPT ![p] = a]
  /\ UNCHANGED <<resource, leases, held, late, pinged, owed, lost>>

\* No slot is free: the transaction is dropped.  Past the deadline the answer
\* is 409; otherwise the request sleeps until the first expiry it has seen.
Full(p) ==
  /\ req[p].pc = "locked"
  /\ Free(p) = {}
  /\ lock' = None
  /\ \/ /\ p \in late
        /\ Done(p)
     \/ /\ p \notin late
        /\ req' = [req EXCEPT ![p] = [pc |-> "wait", age |-> 0, slot |-> 0]]
        /\ \E a \in Alarms(leases \ Expired(p)) :
             alarm' = [alarm EXCEPT ![p] = a]
        /\ UNCHANGED <<late, pinged>>
  /\ UNCHANGED <<resource, leases, held, owed, lost>>

\* A notification, the alarm or the deadline ends the sleep: look again.
Wake(p) ==
  /\ req[p].pc = "wait"
  /\ p \in pinged \/ p \in late \/ alarm[p] = 0
  /\ req' = [req EXCEPT ![p] = Begun]
  /\ pinged' = pinged \ {p}
  /\ alarm' = [alarm EXCEPT ![p] = NoAlarm]
  /\ UNCHANGED <<resource, leases, lock, held, late, owed, lost>>

\* The wait the client asked for is over.
Deadline(p) ==
  /\ p \in Subscribed \ late
  /\ late' = late \cup {p}
  /\ UNCHANGED <<resource, leases, lock, req, held, alarm, pinged,
                 owed, lost>>

-----------------------------------------------------------------------------
(* return_lease, put_resource, delete_resource *)

\* fault: a returned lease wakes nobody
ReturnSilently(p) ==
  LET back == {l \in Live : l.id = held[p]} IN
  /\ req[p].pc = "idle"
  /\ held[p] # 0
  /\ held' = [held EXCEPT ![p] = 0]
  /\ leases' = leases \ back
  /\ UNCHANGED <<resource, lock, req, signals, owed, lost>>

\* DELETE .. expires_at > now(): a lease that ran out is not returned, and
\* notify_library follows only for one that is.
Return(p) ==
  LET back == {l \in Live : l.id = held[p]} IN
  /\ req[p].pc = "idle"
  /\ held[p] # 0
  /\ held' = [held EXCEPT ![p] = 0]
  /\ leases' = leases \ back
  /\ owed' = (owed \/ back # {})
  /\ UNCHANGED <<resource, lock, req, signals, lost>>

\* The upsert waits for the row lock; notify_library follows.
Put(n) ==
  /\ lock = None
  /\ count' = n
  /\ peak' = IF n > peak THEN n ELSE peak
  /\ owed' = TRUE
  /\ UNCHANGED <<leases, lock, req, held, signals, lost>>

\* DELETE cascades to the leases; nobody is notified.
Delete ==
  /\ lock = None
  /\ count # Missing
  /\ count' = Missing
  /\ leases' = {}
  /\ peak' = 0
  /\ UNCHANGED <<lock, req, held, signals, owed, lost>>

\* notify_library reaches the receivers.
Notify ==
  /\ owed
  /\ owed' = FALSE
  /\ pinged' = pinged \cup Subscribed
  /\ UNCHANGED <<resource, leases, lock, req, held, late, alarm, lost>>

\* It does not: the handler was dropped after its commit, or the listener of
\* another instance was not connected.
LoseNotification ==
  /\ owed
  /\ lost' = TRUE
  /\ owed' = FALSE
  /\ UNCHANGED <<resource, leases, lock, req, held, signals>>

\* A statement fails (500), or the client is gone and its request is dropped:
\* an open transaction is rolled back.
FailBorrow(p) ==
  /\ req[p].pc # "idle"
  /\ lock' = IF lock = p THEN None ELSE lock
  /\ Done(p)
  /\ UNCHANGED <<resource, leases, held, owed, lost>>

Open(p) == req[p].pc \in {"begin", "locked", "insert"}

Tick ==
  /\ \A p \in Borrowers : Open(p) => req[p].age < MaxAge
  /\ \/ \E l \in leases : l.left > -MaxAge
     \/ \E p \in Borrowers : alarm[p] \in 1..(NoAlarm - 1)
  /\ leases' = {[l EXCEPT !.left = IF @ > -MaxAge THEN @ - 1 ELSE @] : l \in leases}
  /\ alarm' = [p \in Borrowers |-> IF alarm[p] \in 1..(NoAlarm - 1)
                                     THEN alarm[p] - 1 ELSE alarm[p]]
  /\ req' = [p \in Borrowers |-> IF Open(p) THEN [req[p] EXCEPT !.age = @ + 1]
                                            ELSE req[p]]
  /\ UNCHANGED <<resource, lock, held, late, pinged, owed, lost>>

BorrowStep(p) ==
  \/ NotFound(p)
  \/ LockRow(p)
  \/ Choose(p)
  \/ Grant(p)
  \/ Full(p)
  \/ Wake(p)

Next ==
  \/ \E p \in Borrowers : \/ Ask(p)
                          \/ BorrowStep(p)
                          \/ Deadline(p)
                          \/ Return(p)
                          \/ FailBorrow(p)
  \/ \E n \in 0..MaxCount : Put(n)
  \/ Delete
  \/ Notify
  \/ LoseNotification
  \/ Tick

Spec == Init /\ [][Next]_vars

\* Requests that can run are run, owed notifications are sent or lost, timers
\* and clocks go on.  Clients need not ask, return or resize.
FairSpec ==
  /\ Spec
  /\ \A p \in Borrowers : SF_vars(BorrowStep(p)) /\ WF_vars(Deadline(p))
  /\ WF_vars(Notify \/ LoseNotification)
  /\ WF_vars(Tick)

-----------------------------------------------------------------------------
(* Properties *)

ReqPC == {"idle", "begin", "locked", "insert", "wait"}

\* Rows, requests and timers hold values of their types.
TypeOK ==
  /\ count \in 0..MaxCount \cup {Missing}
  /\ leases \subseteq Lease
  /\ lock \in Borrowers \cup {None}
  /\ req \in [Borrowers -> [pc : ReqPC, age : 0..MaxAge, slot : Nat]]
  /\ held \in [Borrowers -> LeaseIds \cup {0}]
  /\ late \subseteq Borrowers
  /\ alarm \in [Borrowers -> 0..NoAlarm]
  /\ pinged \subseteq Borrowers
  /\ owed \in BOOLEAN
  /\ lost \in BOOLEAN
  /\ peak \in 0..MaxCount

\* No two leases of a resource hold the same position, live or expired: two
\* borrowers that look at once never both find it free.  The unique index
\* library_leases_slot_idx is left out: the row lock alone is enough, and no
\* borrow fails with 500 because of it.
OnePerSlot ==
  \A l, m \in leases : l.position = m.position => l = m

\* The live leases never outnumber the largest count the resource has had since
\* it was registered; with a count that is never lowered, they never
\* outnumber the slots ("concurrent borrowers never over-issue").
NeverOverIssued == Cardinality(Live) <= peak

\* A new lease gets a slot of the pool that nobody holds, however long its
\* transaction waited and whatever was returned or ran out meanwhile.
GrantsFreeSlot ==
  \A p \in Borrowers : Grant(p) =>
    LET s == req[p].slot IN
    /\ s < count
    /\ \A l \in Live : l.position # s

\* The slots a request would find free now.
FreeNow == {i \in 0..(count - 1) : \A l \in Live : l.position # i}

\* While no notification is lost, a request sleeps beside a free slot only with
\* a notification in its receiver or about to be sent, or with an alarm
\* that is due within the rounding of its clock.
NoLostWakeup ==
  ~lost =>
    \A p \in Borrowers :
      req[p].pc = "wait" /\ FreeNow # {} =>
        p \in pinged \/ owed \/ alarm[p] <= Slack

\* Every borrow is answered: with a lease, 404, or 409 after its wait.
BorrowAnswered == \A p \in Borrowers : req[p].pc = "begin" ~> req[p].pc = "idle"

\* "Lowering count only withholds new leases until enough free up": a lease is
\* granted only while fewer than count are live.
LoweringWithholds ==
  [][\A p \in Borrowers : Grant(p) => Cardinality(Live) < count]_vars

=============================================================================
