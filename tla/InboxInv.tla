------------------------------ MODULE InboxInv ------------------------------
(***************************************************************************)
(* The inductive invariant of Inbox: what every open transaction may rely  *)
(* on between two of its statements.                                       *)
(***************************************************************************)
EXTENDS Inbox

Visited(s) == dest[enq[s].msg] \ enq[s].todo

\* The key has a row in inbox_counts, be it one that only s can see.
HasRow(s, k) == k \in enq[s].fresh \/ counts[k] # NoRow

\* s has locked the count of k and found room.
Counted(s, k) ==
  /\ countLock[k] = s
  /\ HasRow(s, k)
  /\ CountSeen(s, k) < MaxRequests

\* Uncommitted rows of inbox_counts are locked by their writer.
FreshLocked(s) ==
  \A k \in enq[s].fresh : countLock[k] = s /\ counts[k] = NoRow

\* Each pass of insert_inbox_messages has done its work on the visited keys.
PassDone(s) ==
  /\ enq[s].pc = "idle" => enq[s].fresh = {}
  /\ enq[s].pc = "ensure" =>
       /\ enq[s].todo # {} /\ enq[s].todo \subseteq dest[enq[s].msg]
       /\ \A k \in Visited(s) : HasRow(s, k)
  /\ enq[s].pc = "lock" =>
       /\ enq[s].todo # {} /\ enq[s].todo \subseteq dest[enq[s].msg]
       /\ \A k \in dest[enq[s].msg] : HasRow(s, k)
       /\ \A k \in Visited(s) : Counted(s, k)
  /\ enq[s].pc \in {"write", "commit"} =>
       \A k \in dest[enq[s].msg] : Counted(s, k)

SendersOK == \A s \in Senders : FreshLocked(s) /\ PassDone(s)

\* Open deliveries are distinct and unanswered; numbers not given out are
\* unused.
DeliveriesOK ==
  /\ \A s \in Senders : enq[s].pc # "idle" =>
       /\ enq[s].msg \in 1..nextId
       /\ dest[enq[s].msg] # {}
       /\ enq[s].pc # "rollback" => outcome[enq[s].msg] = "open"
       /\ \A t \in Senders : t # s /\ enq[t].pc # "idle" => enq[t].msg # enq[s].msg
  /\ \A m \in Ids : m > nextId => outcome[m] = "unsent" /\ dest[m] = {}

\* A claim holds ready rows, an ack rows that exist, and no two transactions
\* hold the same row; an ack that has lowered the count holds its lock.
RowsHeld ==
  /\ \A c \in Consumers :
       /\ con[c].pc = "idle" => con[c].held = {}
       /\ con[c].pc # "idle" =>
            con[c].key \in Keys /\ con[c].held \subseteq rows[con[c].key]
       /\ con[c].pc = "claim" =>
            /\ con[c].ids \subseteq con[c].held
            /\ \A m \in con[c].held : lease[con[c].key][m] = 0
       /\ con[c].pc \in {"ack", "ackCommit"} => con[c].ids = con[c].held
       /\ con[c].pc = "ackCommit" => countLock[con[c].key] = c
  /\ \A c, d \in Consumers :
       c # d /\ con[c].key = con[d].key => con[c].held \cap con[d].held = {}

\* Only stored deliveries have a lease: a row is inserted ready.
LeasesOnRows ==
  \A k \in Keys : \A m \in Ids : lease[k][m] > 0 => m \in rows[k]

\* Everything above, and the properties it implies.
IInv ==
  /\ TypeOK
  /\ SendersOK
  /\ DeliveriesOK
  /\ RowsHeld
  /\ LeasesOnRows
  /\ CountExact
  /\ WithinCapacity
  /\ AllOrNothing

=============================================================================
