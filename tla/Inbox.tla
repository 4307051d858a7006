-------------------------------- MODULE Inbox --------------------------------
(***************************************************************************)
(* The encrypted inbox of cc.me: the tables inbox_messages and             *)
(* inbox_counts of PostgreSQL, and the transactions that the handlers of   *)
(* src/src/main.rs run on them (READ COMMITTED, explicit row locks).       *)
(*                                                                         *)
(*   - a Sender runs insert_inbox_messages: one delivery, up to            *)
(*     MAX_INBOX_RECIPIENTS inboxes, all of them or none;                  *)
(*   - a Consumer runs claim_once, ack_messages and release_messages.      *)
(*                                                                         *)
(* A step is one SQL statement (or a group of statements that cannot wait  *)
(* and is invisible to the other transactions until COMMIT).  What an open *)
(* transaction has written is kept in its own record and reaches the       *)
(* tables at its commit.                                                   *)
(*                                                                         *)
(* A delivery is named by the order in which its transaction began, which  *)
(* is the order of inbox_messages.created_at (now() is the start of the    *)
(* transaction).  lease_until is kept as the time left until it, 0 when it *)
(* is NULL or past: the code only ever compares it with now().             *)
(***************************************************************************)
EXTENDS Integers, FiniteSets

CONSTANTS
  Keys,         \* inbox keys, numbered in the order of inbox_keys.sort()
  Senders,      \* requests that enqueue a delivery
  Consumers,    \* requests that claim, ack or release
  None,         \* "no transaction"
  MaxEnqueues,  \* bound of the model: deliveries ever attempted
  MaxRequests,  \* INBOX_MAX_REQUESTS
  Limit,        \* limit of a claim
  Recovery      \* CLAIM_RECOVERY_SECONDS, in ticks

ASSUME KeysAssumption == Keys \subseteq Nat /\ IsFiniteSet(Keys)
ASSUME ActorsAssumption ==
  /\ Senders \cap Consumers = {}
  /\ None \notin Senders \cup Consumers
ASSUME BoundsAssumption ==
  /\ MaxEnqueues \in Nat
  /\ MaxRequests \in Nat \ {0}     \* env_usize(..).max(1)
  /\ Limit \in Nat \ {0}           \* inbox_limit clamps to 1..max_get_limit
  /\ Recovery \in Nat \ {0}

Ids == 1..MaxEnqueues
Actors == Senders \cup Consumers
NoRow == -1   \* the key has no committed row in inbox_counts

VARIABLES
  nextId,     \* deliveries attempted so far
  counts,     \* inbox_counts.count of each key, NoRow when there is no row
  countLock,  \* the transaction holding the row lock of a key's count
  rows,       \* the deliveries stored for each key (inbox_messages)
  lease,      \* ticks until lease_until of each row, 0 = ready
  enq,        \* each sender's transaction
  con,        \* each consumer's transaction
  dest,       \* history: the recipients each delivery was posted to
  outcome,    \* history: how each posted delivery ended
  acked       \* history: the deliveries each inbox has lost to an ack

tables == <<counts, rows, lease>>
history == <<dest, outcome, acked>>
vars == <<nextId, counts, countLock, rows, lease, enq, con, dest, outcome,
          acked>>

IdleEnq == [pc |-> "idle", msg |-> 0, todo |-> {}, fresh |-> {}]
IdleCon == [pc |-> "idle", key |-> 0, ids |-> {}, held |-> {}, left |-> 0]

Init ==
  /\ nextId = 0
  /\ counts = [k \in Keys |-> NoRow]
  /\ countLock = [k \in Keys |-> None]
  /\ rows = [k \in Keys |-> {}]
  /\ lease = [k \in Keys |-> [m \in Ids |-> 0]]
  /\ enq = [s \in Senders |-> IdleEnq]
  /\ con = [c \in Consumers |-> IdleCon]
  /\ dest = [m \in Ids |-> {}]
  /\ outcome = [m \in Ids |-> "unsent"]
  /\ acked = [k \in Keys |-> {}]

-----------------------------------------------------------------------------
(* Row locks and visibility. *)

\* fault: the keys are visited as the URL lists them
FirstKeyAsListed(s) ==
  LET T == enq[s].todo IN
  IF enq[s].msg % 2 = 0 THEN CHOOSE k \in T : \A j \in T : k >= j
                        ELSE CHOOSE k \in T : \A j \in T : k <= j

\* The next key of a pass over the sorted recipients (inbox_keys.sort()).
FirstKey(s) == CHOOSE k \in enq[s].todo : \A j \in enq[s].todo : k <= j

\* A row of inbox_messages is locked by the claim or ack working on it.
RowLocked(k, m) ==
  \E c \in Consumers : con[c].key = k /\ m \in con[c].held

\* The count row of k was written by a transaction that has not committed:
\* an INSERT ... ON CONFLICT that meets it has to wait.
Dirty(k) ==
  \/ \E s \in Senders : \/ k \in enq[s].fresh
                        \/ enq[s].pc = "commit" /\ k \in dest[enq[s].msg]
  \/ \E c \in Consumers : con[c].pc = "ackCommit" /\ con[c].key = k

\* The count that sender s reads: its own uncommitted row counts 0.
CountSeen(s, k) == IF k \in enq[s].fresh THEN 0 ELSE counts[k]

Unlocked(p) ==
  [k \in Keys |-> IF countLock[k] = p THEN None ELSE countLock[k]]

\* The n oldest deliveries of a set.
Oldest(S, n) == {m \in S : Cardinality({x \in S : x < m}) < n}

Ready(k) == {m \in rows[k] : lease[k][m] = 0}

-----------------------------------------------------------------------------
(* insert_inbox_messages *)

\* BEGIN: the recipients are distinct (decode_public_keys drops repeats).
Begin(s, K) ==
  /\ enq[s].pc = "idle"
  /\ nextId < MaxEnqueues
  /\ nextId' = nextId + 1
  /\ enq' = [enq EXCEPT ![s] =
               [pc |-> "ensure", msg |-> nextId + 1, todo |-> K, fresh |-> {}]]
  /\ dest' = [dest EXCEPT ![nextId + 1] = K]
  /\ outcome' = [outcome EXCEPT ![nextId + 1] = "open"]
  /\ UNCHANGED <<tables, countLock, con, acked>>

\* The end of one pass over the sorted keys starts the next one.
Advance(s, k, next) ==
  IF enq[s].todo = {k}
    THEN [enq[s] EXCEPT !.pc = next, !.todo = dest[enq[s].msg]]
    ELSE [enq[s] EXCEPT !.todo = @ \ {k}]

\* INSERT INTO inbox_counts .. 0 ON CONFLICT DO NOTHING, one key.
EnsureRow(s) ==
  LET k == FirstKey(s) IN
  /\ enq[s].pc = "ensure"
  /\ ~Dirty(k)
  /\ IF counts[k] = NoRow
       THEN /\ countLock' = [countLock EXCEPT ![k] = s]
            /\ enq' = [enq EXCEPT ![s] =
                         [Advance(s, k, "lock") EXCEPT !.fresh = @ \cup {k}]]
       ELSE /\ enq' = [enq EXCEPT ![s] = Advance(s, k, "lock")]
            /\ UNCHANGED countLock
  /\ UNCHANGED <<nextId, tables, con, history>>

\* fault: the count is read without FOR UPDATE
LockCountUnlocked(s) ==
  LET k == FirstKey(s) IN
  /\ enq[s].pc = "lock"
  /\ CountSeen(s, k) < MaxRequests
  /\ enq' = [enq EXCEPT ![s] = Advance(s, k, "write")]
  /\ UNCHANGED <<nextId, tables, countLock, con, history>>

\* SELECT count .. FOR UPDATE finds room in the inbox.
LockCount(s) ==
  LET k == FirstKey(s) IN
  /\ enq[s].pc = "lock"
  /\ countLock[k] \in {None, s}
  /\ CountSeen(s, k) < MaxRequests
  /\ countLock' = [countLock EXCEPT ![k] = s]
  /\ enq' = [enq EXCEPT ![s] = Advance(s, k, "write")]
  /\ UNCHANGED <<nextId, tables, con, history>>

\* SELECT count .. FOR UPDATE finds the inbox full: 409, the dropped
\* transaction is rolled back.
Refuse(s) ==
  LET k == FirstKey(s) IN
  /\ enq[s].pc = "lock"
  /\ countLock[k] \in {None, s}
  /\ CountSeen(s, k) >= MaxRequests
  /\ countLock' = [countLock EXCEPT ![k] = s]
  /\ enq' = [enq EXCEPT ![s].pc = "rollback"]
  /\ outcome' = [outcome EXCEPT ![enq[s].msg] = "full"]
  /\ UNCHANGED <<nextId, tables, con, dest, acked>>

\* fault: the inserts are committed one by one, outside the transaction
WriteAutocommit(s) ==
  /\ enq[s].pc = "write"
  /\ enq' = [enq EXCEPT ![s].pc = "commit"]
  /\ rows' = [k \in Keys |-> IF k \in dest[enq[s].msg]
                              THEN rows[k] \cup {enq[s].msg} ELSE rows[k]]
  /\ UNCHANGED <<nextId, counts, lease, countLock, con, history>>

\* INSERT INTO inbox_messages and UPDATE inbox_counts for every recipient:
\* the rows are new and the counts locked, so no statement waits.
Write(s) ==
  /\ enq[s].pc = "write"
  /\ enq' = [enq EXCEPT ![s].pc = "commit"]
  /\ UNCHANGED <<nextId, tables, countLock, con, history>>

Commit(s) ==
  LET m == enq[s].msg IN
  /\ enq[s].pc = "commit"
  /\ rows' = [k \in Keys |-> IF k \in dest[m] THEN rows[k] \cup {m}
                                              ELSE rows[k]]
  /\ counts' = [k \in Keys |-> IF k \in dest[m] THEN CountSeen(s, k) + 1
                                                ELSE counts[k]]
  /\ countLock' = Unlocked(s)
  /\ enq' = [enq EXCEPT ![s] = IdleEnq]
  /\ outcome' = [outcome EXCEPT ![m] = "queued"]
  /\ UNCHANGED <<nextId, lease, con, dest, acked>>

\* A statement fails or the instance dies before COMMIT.
FailEnqueue(s) ==
  /\ enq[s].pc \in {"ensure", "lock", "write", "commit"}
  /\ enq' = [enq EXCEPT ![s].pc = "rollback"]
  /\ outcome' = [outcome EXCEPT ![enq[s].msg] = "error"]
  /\ UNCHANGED <<nextId, tables, countLock, con, dest, acked>>

\* ROLLBACK of a dropped transaction; its locks last until then.
Rollback(s) ==
  /\ enq[s].pc = "rollback"
  /\ countLock' = Unlocked(s)
  /\ enq' = [enq EXCEPT ![s] = IdleEnq]
  /\ UNCHANGED <<nextId, tables, con, history>>

-----------------------------------------------------------------------------
(* claim_once *)

\* fault: the lease is one tick longer than CLAIM_RECOVERY_SECONDS
ClaimTooLong(c, k) ==
  LET candidates == Oldest({m \in Ready(k) : ~RowLocked(k, m)}, Limit) IN
  /\ con[c].pc = "idle"
  /\ con' = [con EXCEPT ![c] =
               [pc |-> "claim", key |-> k, ids |-> candidates,
                held |-> candidates, left |-> Recovery + 1]]
  /\ UNCHANGED <<nextId, tables, countLock, enq, history>>

\* fault: the candidates are selected without FOR UPDATE SKIP LOCKED
ClaimUnlocked(c, k) ==
  LET candidates == Oldest(Ready(k), Limit) IN
  /\ con[c].pc = "idle"
  /\ con' = [con EXCEPT ![c] =
               [pc |-> "claim", key |-> k, ids |-> candidates,
                held |-> candidates, left |-> Recovery]]
  /\ UNCHANGED <<nextId, tables, countLock, enq, history>>

\* The candidates are the oldest ready rows nobody else has locked; all of
\* them get locked, and a non-empty prefix fits the response budget.
Claim(c, k) ==
  LET candidates == Oldest({m \in Ready(k) : ~RowLocked(k, m)}, Limit) IN
  /\ con[c].pc = "idle"
  /\ \E n \in 1..Limit :
       con' = [con EXCEPT ![c] =
                 [pc |-> "claim", key |-> k, ids |-> Oldest(candidates, n),
                  held |-> candidates, left |-> Recovery]]
  /\ UNCHANGED <<nextId, tables, countLock, enq, history>>

CommitClaim(c) ==
  LET k == con[c].key IN
  /\ con[c].pc = "claim"
  /\ lease' = [lease EXCEPT ![k] =
                 [m \in Ids |-> IF m \in con[c].ids THEN con[c].left ELSE @[m]]]
  /\ con' = [con EXCEPT ![c] = IdleCon]
  /\ UNCHANGED <<nextId, counts, rows, countLock, enq, history>>

(* ack_messages *)

\* DELETE FROM inbox_messages .. RETURNING id, once no other transaction
\* holds one of the rows.
Ack(c, k, ids) ==
  LET found == ids \cap rows[k] IN
  /\ con[c].pc = "idle"
  /\ found # {}
  /\ \A m \in found : ~RowLocked(k, m)
  /\ con' = [con EXCEPT ![c] =
               [pc |-> "ack", key |-> k, ids |-> found, held |-> found,
                left |-> 0]]
  /\ UNCHANGED <<nextId, tables, countLock, enq, history>>

\* UPDATE inbox_counts .. waits for the lock of the count.
LowerCount(c) ==
  LET k == con[c].key IN
  /\ con[c].pc = "ack"
  /\ countLock[k] = None
  /\ countLock' = [countLock EXCEPT ![k] = c]
  /\ con' = [con EXCEPT ![c].pc = "ackCommit"]
  /\ UNCHANGED <<nextId, tables, enq, history>>

\* fault: acked rows are not taken off the count
CommitAckUncounted(c) ==
  LET k == con[c].key IN
  /\ con[c].pc = "ackCommit"
  /\ rows' = [rows EXCEPT ![k] = @ \ con[c].ids]
  /\ lease' = [lease EXCEPT ![k] =
                 [m \in Ids |-> IF m \in con[c].ids THEN 0 ELSE @[m]]]
  /\ countLock' = Unlocked(c)
  /\ con' = [con EXCEPT ![c] = IdleCon]
  /\ acked' = [acked EXCEPT ![k] = @ \cup con[c].ids]
  /\ UNCHANGED <<nextId, counts, enq, dest, outcome>>

CommitAck(c) ==
  LET k == con[c].key
      n == Cardinality(con[c].ids) IN
  /\ con[c].pc = "ackCommit"
  /\ rows' = [rows EXCEPT ![k] = @ \ con[c].ids]
  /\ lease' = [lease EXCEPT ![k] =
                 [m \in Ids |-> IF m \in con[c].ids THEN 0 ELSE @[m]]]
  /\ counts' = [counts EXCEPT ![k] = IF @ - n > 0 THEN @ - n ELSE 0]
  /\ countLock' = Unlocked(c)
  /\ con' = [con EXCEPT ![c] = IdleCon]
  /\ acked' = [acked EXCEPT ![k] = @ \cup con[c].ids]
  /\ UNCHANGED <<nextId, enq, dest, outcome>>

(* release_messages: one statement, committed on its own *)
Release(c, k, ids) ==
  LET found == ids \cap rows[k] IN
  /\ con[c].pc = "idle"
  /\ found # {}
  /\ \A m \in found : ~RowLocked(k, m)
  /\ lease' = [lease EXCEPT ![k] =
                 [m \in Ids |-> IF m \in found THEN 0 ELSE @[m]]]
  /\ UNCHANGED <<nextId, counts, rows, countLock, enq, con, history>>

\* A claim or an ack fails before COMMIT and is rolled back.
FailConsumer(c) ==
  /\ con[c].pc # "idle"
  /\ con' = [con EXCEPT ![c] = IdleCon]
  /\ countLock' = Unlocked(c)
  /\ UNCHANGED <<nextId, tables, enq, history>>

-----------------------------------------------------------------------------

\* fault: a claim never ends
LessNever(t) == t

\* The time left after one tick.
Less(t) == IF t > 0 THEN t - 1 ELSE 0

\* Time passes: every lease is nearer to its end.
Tick ==
  /\ \/ \E k \in Keys, m \in Ids : lease[k][m] > 0
     \/ \E c \in Consumers : con[c].left > 0
  /\ lease' = [k \in Keys |-> [m \in Ids |-> Less(lease[k][m])]]
  /\ con' = [c \in Consumers |-> [con[c] EXCEPT !.left = Less(@)]]
  /\ UNCHANGED <<nextId, counts, rows, countLock, enq, history>>

SenderStep(s) ==
  \/ EnsureRow(s)
  \/ LockCount(s)
  \/ Refuse(s)
  \/ Write(s)
  \/ Commit(s)
  \/ Rollback(s)

ConsumerStep(c) ==
  \/ CommitClaim(c)
  \/ LowerCount(c)
  \/ CommitAck(c)

Next ==
  \/ \E s \in Senders : \/ \E K \in (SUBSET Keys) \ {{}} : Begin(s, K)
                        \/ SenderStep(s)
                        \/ FailEnqueue(s)
  \/ \E c \in Consumers : \/ \E k \in Keys : Claim(c, k)
                          \/ \E k \in Keys, ids \in SUBSET Ids :
                               Ack(c, k, ids) \/ Release(c, k, ids)
                          \/ ConsumerStep(c)
                          \/ FailConsumer(c)
  \/ Tick

Spec == Init /\ [][Next]_vars

\* A statement that can run is run (the database schedules every session),
\* clients may stop asking at any time, and time passes.
FairSpec ==
  /\ Spec
  /\ \A s \in Senders : SF_vars(SenderStep(s))
  /\ \A c \in Consumers : SF_vars(ConsumerStep(c))
  /\ WF_vars(Tick)

-----------------------------------------------------------------------------
(* Properties *)

EnqPC == {"idle", "ensure", "lock", "write", "commit", "rollback"}
ConPC == {"idle", "claim", "ack", "ackCommit"}
Outcome == {"unsent", "open", "queued", "full", "error"}

\* The tables and the open transactions hold values of their types, and an
\* open delivery has a number that was given out.
TypeOK ==
  /\ nextId \in 0..MaxEnqueues
  /\ counts \in [Keys -> Nat \cup {NoRow}]
  /\ countLock \in [Keys -> Actors \cup {None}]
  /\ rows \in [Keys -> SUBSET Ids]
  /\ lease \in [Keys -> [Ids -> 0..Recovery]]
  /\ enq \in [Senders -> [pc : EnqPC, msg : 0..MaxEnqueues,
                          todo : SUBSET Keys, fresh : SUBSET Keys]]
  /\ con \in [Consumers -> [pc : ConPC, key : Keys \cup {0},
                            ids : SUBSET Ids, held : SUBSET Ids,
                            left : 0..Recovery]]
  /\ dest \in [Ids -> SUBSET Keys]
  /\ outcome \in [Ids -> Outcome]
  /\ acked \in [Keys -> SUBSET Ids]

\* The counter that admits deliveries (insert_inbox_messages compares it with
\* INBOX_MAX_REQUESTS, ack_messages lowers it) is the number of stored rows,
\* whatever transactions overlapped, failed or were rolled back.
CountExact ==
  \A k \in Keys :
    IF counts[k] = NoRow THEN rows[k] = {}
                         ELSE counts[k] = Cardinality(rows[k])

\* An inbox never stores more than INBOX_MAX_REQUESTS deliveries, however many
\* senders read its count at the same time.
WithinCapacity == \A k \in Keys : Cardinality(rows[k]) <= MaxRequests

\* A delivery to several inboxes reaches all of them or none: once answered
\* "queued" every recipient stores it until that recipient acks it, and one
\* that was refused or failed is nowhere.
AllOrNothing ==
  \A m \in Ids : \A k \in Keys :
    m \in rows[k] \cup acked[k] <=> outcome[m] = "queued" /\ k \in dest[m]

\* The row of inbox_counts a transaction waits for, None when it waits for none.
\* insert_inbox_messages visits its keys in sorted order for this.
WaitsFor(p) ==
  IF p \in Senders
    THEN LET k == FirstKey(p) IN
         IF \/ enq[p].pc = "ensure" /\ Dirty(k)
            \/ enq[p].pc = "lock" /\ countLock[k] # p
           THEN countLock[k] ELSE None
    ELSE IF con[p].pc = "ack" THEN countLock[con[p].key] ELSE None

\* No group of transactions waits on itself: PostgreSQL never has to break a
\* deadlock between enqueues to overlapping recipients and acks.
NoWaitCycle ==
  \A P \in (SUBSET Actors) \ {{}} : \E p \in P : WaitsFor(p) \notin P

\* A claim that commits takes no delivery whose lease still runs: two clients
\* never hold the same delivery within one lease that nobody released.
LeaseNotStolen ==
  [][\A c \in Consumers : CommitClaim(c) =>
        \A m \in con[c].ids : /\ m \in rows[con[c].key]
                              /\ lease[con[c].key][m] = 0]_vars

\* A delivery is refused with 409 only while some recipient stores
\* INBOX_MAX_REQUESTS deliveries: space freed by a committed ack is usable.
RefusedOnlyWhenFull ==
  [][\A m \in Ids : outcome'[m] = "full" /\ outcome[m] # "full" =>
        \E k \in dest[m] : Cardinality(rows[k]) = MaxRequests]_vars

\* Every delivery that was begun is answered: lock waits never starve one.
EnqueueAnswered ==
  \A m \in Ids : outcome[m] = "open" ~> outcome[m] \in {"queued", "full", "error"}

\* A delivery that was claimed becomes ready again or is acked, even when its
\* consumer never comes back (claim recovery).
ClaimRecovered ==
  \A k \in Keys, m \in Ids :
    lease[k][m] > 0 ~> m \in Ready(k) \/ m \in acked[k]

=============================================================================
