------------------------------- MODULE Locks --------------------------------
(***************************************************************************)
(* Who waits for whom in the tables of the inboxes: the row locks of       *)
(* enqueues, claims, acks and releases, and of instances that start, taken *)
(* one after the other.  PostgreSQL ends a circle of waiting transactions  *)
(* by aborting one.  What the transactions write is the subject of Inbox,  *)
(* what a recount writes beside them that of InboxStartup.                 *)
(***************************************************************************)
EXTENDS Integers, FiniteSets

CONSTANTS
  Enqueues, Claims, Acks, Releases,  \* requests that are served at once
  Starts,     \* instances that start, and start again
  Keys,       \* inboxes: numbers, in the order of the text
  Ids,        \* deliveries; the id of one that is gone is used again
  InboxOf,    \* the inbox of each
  None

Transactions == Enqueues \cup Claims \cup Acks \cup Releases \cup Starts

Counter(k) == <<"counter", k>>
Row(d) == <<"row", d>>
Advisory == <<"advisory", 0>>
LockNames == {Counter(k) : k \in Keys} \cup {Row(d) : d \in Ids} \cup {Advisory}

\* A transaction is one request or one start.
LocksAssumption ==
  /\ Keys \subseteq Int
  /\ InboxOf \in [Ids -> Keys]
  /\ IsFiniteSet(Transactions)
  /\ Enqueues \cap (Claims \cup Acks \cup Releases \cup Starts) = {}
  /\ Claims \cap (Acks \cup Releases \cup Starts) = {}
  /\ (Acks \cup Releases) \cap Starts = {}
  /\ None \notin LockNames

VARIABLES
  rows,     \* the committed deliveries
  present,  \* the inboxes with a committed counter
  stage,    \* where each transaction is
  inboxes,  \* the inboxes it is about
  todo,     \* the locks its statements have still to take
  want,     \* the lock it waits for
  held      \* the locks it has

vars == <<rows, present, stage, inboxes, todo, want, held>>

Idle(t) == stage[t] = "idle"

\* A counter lives on when its inbox is empty, so any may be there.
Init ==
  /\ rows \in SUBSET Ids
  /\ present \in SUBSET Keys
  /\ {InboxOf[d] : d \in rows} \subseteq present
  /\ stage = [t \in Transactions |-> "idle"]
  /\ inboxes = [t \in Transactions |-> {}]
  /\ todo = [t \in Transactions |-> {}]
  /\ want = [t \in Transactions |-> None]
  /\ held = [t \in Transactions |-> {}]

Free(l) == \A t \in Transactions : l \notin held[t]

-----------------------------------------------------------------------------
(* Transactions *)

Begins(t, first, keys, locks) ==
  /\ Idle(t)
  /\ stage' = [stage EXCEPT ![t] = first]
  /\ inboxes' = [inboxes EXCEPT ![t] = keys]
  /\ todo' = [todo EXCEPT ![t] = locks]
  /\ UNCHANGED <<rows, present, want>>

Enqueue(t) ==
  \E keys \in (SUBSET Keys) \ {{}} :
    Begins(t, "insert", keys, {Counter(k) : k \in keys}) /\ UNCHANGED held

\* A DELETE or an UPDATE of the given ids, among the rows it sees.
Scan(t) ==
  \E k \in Keys : \E ds \in (SUBSET {d \in rows : InboxOf[d] = k}) \ {{}} :
    Begins(t, "scan", {k}, {Row(d) : d \in ds}) /\ UNCHANGED held

\* FOR UPDATE SKIP LOCKED: a claim has what is free, and waits for nothing.
Claim(t) ==
  \E k \in Keys : \E ds \in SUBSET {d \in rows : InboxOf[d] = k /\ Free(Row(d))} :
    /\ Begins(t, "end", {k}, {})
    /\ held' = [held EXCEPT ![t] = {Row(d) : d \in ds}]

\* migrate: pg_advisory_lock first
Start(t) == Begins(t, "advisory", {}, {Advisory}) /\ UNCHANGED held

\* fault: the recipients are locked as they are listed
NextAsListed(t) == todo[t]

\* An enqueue takes the keys in order, and updates what it has then in the order
\* of the recipients; a scan has an order of its own.
NextLocks(t) ==
  IF t \in Enqueues /\ stage[t] # "update"
  THEN {l \in todo[t] : \A m \in todo[t] : l[2] <= m[2]}
  ELSE todo[t]

\* What a statement does when nobody else has the lock any more: DO NOTHING
\* on a counter that is there, and nothing to a row that is gone.
Locks(t, l) ==
  CASE stage[t] = "insert" -> l[2] \notin present
    [] stage[t] = "scan" -> l[2] \in rows
    [] OTHER -> TRUE

Take(t, l) ==
  /\ todo' = [todo EXCEPT ![t] = @ \ {l}]
  /\ want' = [want EXCEPT ![t] = None]
  /\ held' = [held EXCEPT ![t] = IF Locks(t, l) THEN @ \cup {l} ELSE @]
  /\ UNCHANGED <<rows, present, stage, inboxes>>

\* The version of the counter that u leaves, when it has more than its lock:
\* an ack and a recount write it in the statement that locks it.
Updated(u, l) ==
  u \in Enqueues => stage[u] = "end" \/ (stage[u] = "update" /\ l \notin todo[u])

\* DO NOTHING on a committed counter passes those who have but locked it, and
\* waits for one who has updated it.
Blocked(t, l) ==
  \E u \in Transactions \ {t} :
    l \in held[u] /\ (stage[t] = "insert" /\ l[2] \in present => Updated(u, l))

Request(t) ==
  /\ want[t] = None
  /\ \E l \in NextLocks(t) :
       \/ ~Blocked(t, l) /\ Take(t, l)
       \/ /\ Blocked(t, l)
          /\ want' = [want EXCEPT ![t] = l]
          /\ UNCHANGED <<rows, present, stage, inboxes, todo, held>>

Grant(t) == want[t] # None /\ ~Blocked(t, want[t]) /\ Take(t, want[t])

\* The statement after the one whose locks are taken: an enqueue locks the
\* counters it has made sure of and updates them, an ack that deleted something
\* its counter, a starting instance those of all inboxes that hold deliveries.
Proceed(t) ==
  /\ todo[t] = {} /\ stage[t] \notin {"idle", "end"}
  /\ LET goes(next, locks) ==
           /\ stage' = [stage EXCEPT ![t] = next]
           /\ todo' = [todo EXCEPT ![t] = locks]
     IN CASE stage[t] = "insert" -> goes("lock", {Counter(k) : k \in inboxes[t]})
          [] stage[t] = "lock" -> goes("update", {Counter(k) : k \in inboxes[t]})
          [] stage[t] = "scan" /\ t \in Acks /\ held[t] # {} ->
               goes("lower", {Counter(k) : k \in inboxes[t]})
          [] stage[t] = "advisory" ->
               goes("recount", {Counter(InboxOf[d]) : d \in rows})
          [] OTHER -> goes("end", {})
  /\ UNCHANGED <<rows, present, inboxes, want, held>>

Over(t) ==
  /\ stage' = [stage EXCEPT ![t] = "idle"]
  /\ inboxes' = [inboxes EXCEPT ![t] = {}]
  /\ todo' = [todo EXCEPT ![t] = {}]
  /\ want' = [want EXCEPT ![t] = None]

\* Every lock goes with the transaction; migrate unlocks what it locked.
Ends(t) == Over(t) /\ held' = [held EXCEPT ![t] = {}]

\* A delivery is stored under a new id for each recipient; here under one
\* that is free, or none if the ids of the model are all in use.
Commit(t) ==
  /\ stage[t] = "end"
  /\ \/ /\ t \in Enqueues
        /\ \E new \in SUBSET {d \in Ids \ rows : InboxOf[d] \in inboxes[t]} :
             /\ \A d, e \in new : InboxOf[d] = InboxOf[e] => d = e
             /\ rows' = rows \cup new
     \/ t \in Acks /\ rows' = {d \in rows : Row(d) \notin held[t]}
     \/ t \notin Enqueues \cup Acks /\ UNCHANGED rows
  /\ present' = present \cup {k \in Keys : Counter(k) \in held[t]}
  /\ Ends(t)

\* A full inbox, a failed statement, a dropped request, an instance that dies.
Fail(t) == ~Idle(t) /\ Ends(t) /\ UNCHANGED <<rows, present>>

-----------------------------------------------------------------------------
(* PostgreSQL's deadlock detector *)

Blocker(t) == CHOOSE u \in Transactions \ {t} : want[t] \in held[u]
Waiting(t) == want[t] # None /\ Blocked(t, want[t])

\* Sets of transactions that each wait for another one of them.
Closed == {P \in (SUBSET {t \in Transactions : Waiting(t)}) \ {{}} :
             {Blocker(t) : t \in P} = P}

Circles == {P \in Closed : \A Q \in Closed : Q \subseteq P => Q = P}

Abort(t) ==
  /\ \E P \in Circles : t \in P
  /\ Ends(t) /\ UNCHANGED <<rows, present>>

-----------------------------------------------------------------------------

Begin(t) ==
  \/ t \in Enqueues /\ Enqueue(t)
  \/ t \in Claims /\ Claim(t)
  \/ t \in Acks \cup Releases /\ Scan(t)
  \/ t \in Starts /\ Start(t)

Runs(t) == Request(t) \/ Grant(t) \/ Proceed(t) \/ Commit(t)

Next == \E t \in Transactions : Begin(t) \/ Runs(t) \/ Fail(t) \/ Abort(t)

Spec == Init /\ [][Next]_vars

\* What can run is run: PostgreSQL queues the waiters of a row.  Its detector
\* looks after a second of waiting.
FairSpec ==
  /\ Spec
  /\ \A t \in Transactions : SF_vars(Runs(t))
  /\ WF_vars(\E t \in Transactions : Abort(t))

-----------------------------------------------------------------------------
(* Properties *)

\* Requests wait in a circle only where acks and releases scan rows of one
\* inbox, or enqueues meet the recount of an instance that starts.  While all
\* instances serve no enqueue is part of one (sorted inbox_keys), a claim
\* never is (SKIP LOCKED), nor an ack that waits for its counter.
CirclesAreKnown ==
  \A P \in Circles :
    \/ /\ P \subseteq Acks \cup Releases
       /\ \A t, u \in P : inboxes[t] = inboxes[u]
       /\ \A t \in P : stage[t] = "scan"
    \/ P \subseteq Enqueues \cup Starts /\ P \cap Starts # {}

\* Every request and every start ends, in whatever circles they meet.
AllEnd == \A t \in Transactions : ~Idle(t) ~> Idle(t)
=============================================================================
