---------------------------- MODULE InboxStartup ----------------------------
(***************************************************************************)
(* A rolling restart: a new instance of cc.me runs run_migrations on the   *)
(* database while the instances already running serve the inboxes.         *)
(* migrate serialises the migrations of several instances with an advisory *)
(* lock, which the handlers of Inbox do not take.  One statement of the    *)
(* migrations writes a table the handlers write too: the recount of        *)
(* inbox_counts from inbox_messages.                                       *)
(***************************************************************************)
EXTENDS Inbox

CONSTANT Booting   \* the transaction of the starting instance, a new actor

VARIABLE boot   \* the recount: where it is, what it has counted, what it owes

bootVars == <<vars, boot>>

BootInit ==
  /\ Init
  /\ boot = [pc |-> "before", counted |-> [k \in Keys |-> 0], todo |-> {}]

\* SELECT inbox_key, count(*) .. GROUP BY inbox_key: the statement sees the
\* deliveries committed when it starts; an empty inbox yields no group.
Recount ==
  /\ boot.pc = "before"
  /\ boot' = [pc |-> "upsert",
              counted |-> [k \in Keys |-> Cardinality(rows[k])],
              todo |-> {k \in Keys : rows[k] # {}}]
  /\ UNCHANGED vars

\* ON CONFLICT .. DO UPDATE locks the row of each group, in no given order.
UpsertCount(k) ==
  /\ boot.pc = "upsert"
  /\ k \in boot.todo
  /\ countLock[k] = None
  /\ countLock' = [countLock EXCEPT ![k] = Booting]
  /\ boot' = [boot EXCEPT !.todo = @ \ {k}]
  /\ UNCHANGED <<nextId, tables, enq, con, history>>

\* The statement ends and commits: count = EXCLUDED.count.
CommitRecount ==
  /\ boot.pc = "upsert"
  /\ boot.todo = {}
  /\ counts' = [k \in Keys |-> IF countLock[k] = Booting THEN boot.counted[k]
                                                         ELSE counts[k]]
  /\ countLock' = Unlocked(Booting)
  /\ boot' = [boot EXCEPT !.pc = "serving"]
  /\ UNCHANGED <<nextId, rows, lease, enq, con, history>>

BootStep ==
  \/ Recount
  \/ \E k \in Keys : UpsertCount(k)
  \/ CommitRecount

BootNext ==
  \/ Next /\ UNCHANGED boot
  \/ BootStep

BootSpec == BootInit /\ [][BootNext]_bootVars

\* "Inboxes hold 100 hooks by default": a restart does not let an inbox store
\* more than INBOX_MAX_REQUESTS deliveries.
HoldsAtMostLimit == \A k \in Keys : Cardinality(rows[k]) <= MaxRequests

=============================================================================
