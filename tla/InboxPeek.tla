----------------------------- MODULE InboxPeek -----------------------------
(***************************************************************************)
(* Reading an inbox without claiming: pages of ready deliveries after a    *)
(* cursor, ordered by the start of the transaction that stored them and    *)
(* then by id. One client walks one inbox, passing back each cursor; other *)
(* clients store, lease, release and ack deliveries meanwhile. How a poll  *)
(* learns of a delivery is the subject of LongPoll: here it may wake at    *)
(* any time.                                                               *)
(***************************************************************************)
EXTENDS Integers, Sequences, SequencesExt, FiniteSetsExt

CONSTANTS
  Count,       \* deliveries: their ids, in the order of the text, are 1..Count
  Cost,        \* inbox_item_cost of each
  Budget,      \* inbox_item_budget
  Limit,       \* inbox_limit: rows of a page
  Window,      \* AUTH_WINDOW_SECONDS, in ticks
  MaxClock,    \* bound of the model: ticks
  MaxLeases,   \* bound of the model: leases of others
  MaxLost      \* bound of the model: answers that do not arrive

Ids == 1..Count

PeekAssumption ==
  /\ Count \in Nat /\ Limit \in Nat \ {0} /\ Window \in Nat
  /\ Cost \in [Ids -> 0..Budget]
  /\ MaxClock \in Nat /\ MaxLeases \in Nat /\ MaxLost \in Nat

Start == <<-1, 0>>   \* no cursor: before every delivery

VARIABLES
  clock,
  stage,   \* of each delivery: "none", "open" (its transaction runs),
           \*   "ready", "leased" or "gone"
  stamp,   \* created_at
  pc,      \* of the request: "idle", "sent", "first", "look", "wait", "last"
  ts, p,   \* its timestamp, and whether it polls
  page,    \* the answer on its way, or NoPage
  cursor,  \* the cursor the client has
  read,    \* the deliveries it has received, in order
  leases, lost,
  owed     \* history: ready after the cursor at the last answered look, and
           \*   not in its page

vars == <<clock, stage, stamp, pc, ts, p, page, cursor, read, leases, lost, owed>>
store == <<clock, stage, stamp, leases>>
client == <<ts, p, cursor, read, lost, owed>>

NoPage == [items |-> <<>>, cursor |-> Start, cut |-> {}, some |-> FALSE]

Init ==
  /\ clock = 0 /\ leases = 0 /\ lost = 0
  /\ stage = [d \in Ids |-> "none"] /\ stamp = [d \in Ids |-> 0]
  /\ pc = "idle" /\ ts = 0 /\ p = FALSE /\ page = NoPage
  /\ cursor = Start /\ read = <<>> /\ owed = {}

-----------------------------------------------------------------------------
(* The other clients of the inbox. *)

Move(d, from, to) == stage[d] \in from /\ stage' = [stage EXCEPT ![d] = to]
Elsewhere == UNCHANGED <<pc, page, client>>

Begin(d) ==
  /\ Move(d, {"none"}, "open")
  /\ stamp' = [stamp EXCEPT ![d] = clock]
  /\ UNCHANGED <<clock, leases>> /\ Elsewhere
Commit(d) == Move(d, {"open"}, "ready") /\ UNCHANGED <<clock, stamp, leases>> /\ Elsewhere
Abort(d) == Move(d, {"open"}, "gone") /\ UNCHANGED <<clock, stamp, leases>> /\ Elsewhere
Lease(d) ==
  /\ leases < MaxLeases
  /\ Move(d, {"ready"}, "leased")
  /\ leases' = leases + 1
  /\ UNCHANGED <<clock, stamp>> /\ Elsewhere
Free(d) == Move(d, {"leased"}, "ready") /\ UNCHANGED <<clock, stamp, leases>> /\ Elsewhere
Ack(d) == Move(d, {"ready", "leased"}, "gone") /\ UNCHANGED <<clock, stamp, leases>> /\ Elsewhere

Tick ==
  /\ clock < MaxClock
  /\ clock' = clock + 1
  /\ UNCHANGED <<stage, stamp, leases>> /\ Elsewhere

-----------------------------------------------------------------------------
(* GET /i/{public_key} *)

\* The order of deliveries and cursors.
Before(c, d) == c[1] < d[1] \/ (c[1] = d[1] /\ c[2] < d[2])
Key(d) == <<stamp[d], d>>

\* The condition on $3 and $4.
After(d) ==
  \/ cursor = Start
  \/ stamp[d] > cursor[1]
  \/ stamp[d] = cursor[1] /\ d > cursor[2]

\* The order of the rows.
InOrder(s) == \A i, j \in DOMAIN s : i < j => Before(Key(s[i]), Key(s[j]))
Rows ==
  LET found == {d \in Ids : stage[d] = "ready" /\ After(d)}
      sorted == CHOOSE s \in SetToSeqs(found) : InOrder(s)
  IN SubSeq(sorted, 1, Min({Limit, Len(sorted)}))

\* page_from_rows: the rows that fit into an answer, from the first on.
Used(rows) == FoldLeft(LAMBDA sum, d : sum + Cost[d], 0, rows)
Fitting(rows) ==
  LET fits == {n \in 1..Len(rows) : Used(SubSeq(rows, 1, n)) <= Budget}
  IN SubSeq(rows, 1, Max({0} \cup fits))

\* The cursor names the last row the query found.
PageOfRow(items) ==
  [items |-> items,
   cursor |-> IF Rows = <<>> THEN cursor ELSE Key(Last(Rows)),
   cut |-> {d \in Ids : stage[d] = "ready" /\ Before(cursor, Key(d))} \ ToSet(items),
   some |-> TRUE]
Page(items) ==
  [items |-> items,
   cursor |-> IF items = <<>> THEN cursor ELSE Key(Last(items)),
   cut |-> {d \in Ids : stage[d] = "ready" /\ Before(cursor, Key(d))} \ ToSet(items),
   some |-> TRUE]

\* The client signs a request for what follows its cursor.
Ask ==
  /\ pc = "idle" /\ ~page.some
  /\ pc' = "sent" /\ ts' = clock
  /\ p' \in BOOLEAN
  /\ UNCHANGED <<store, page, cursor, read, lost, owed>>

\* verify_inbox_request: a request that travelled too long is refused.
Verify ==
  /\ pc = "sent"
  /\ pc' = IF ts + Window < clock THEN "idle" ELSE "first"
  /\ UNCHANGED <<store, page, client>>

\* peek_messages, and what follows a page: an answer, or (in a poll) the wait.
Look ==
  /\ pc \in {"first", "look", "last"}
  /\ LET items == Fitting(Rows)
     IN \/ /\ items # <<>> \/ pc = "last" \/ (pc = "first" /\ ~p)
           /\ pc' = "idle" /\ page' = Page(items)
        \/ /\ items = <<>> /\ pc = "first" /\ p
           /\ pc' = "look" /\ UNCHANGED page
        \/ /\ items = <<>> /\ pc = "look"   \* before the deadline
           /\ pc' = "wait" /\ UNCHANGED page
        \/ /\ items = <<>> /\ pc = "look"   \* after it
           /\ pc' = "idle" /\ page' = Page(items)
  /\ UNCHANGED <<store, client>>

\* wait_for_inbox_notification: an announcement, or a receiver that lagged.
Wake == pc = "wait" /\ pc' = "look" /\ UNCHANGED <<store, page, client>>

Deadline == pc = "wait" /\ pc' = "last" /\ UNCHANGED <<store, page, client>>

\* The client takes the answer, with its cursor.
Receive ==
  /\ page.some
  /\ read' = read \o page.items
  /\ cursor' = page.cursor
  /\ owed' = page.cut
  /\ page' = NoPage
  /\ UNCHANGED <<store, pc, ts, p, lost>>

\* The answer is lost: the client asks again from the same cursor.
Lose ==
  /\ page.some /\ lost < MaxLost
  /\ lost' = lost + 1
  /\ page' = NoPage
  /\ UNCHANGED <<store, pc, ts, p, cursor, read, owed>>

Others(d) == Begin(d) \/ Commit(d) \/ Abort(d) \/ Lease(d) \/ Free(d) \/ Ack(d)
Next ==
  \/ \E d \in Ids : Others(d)
  \/ Tick \/ Ask \/ Verify \/ Look \/ Wake \/ Deadline \/ Receive \/ Lose

Spec == Init /\ [][Next]_vars

\* The client asks on and the server answers; a poll need not be woken, its
\* deadline comes all the same, and at last answers arrive.
FairSpec ==
  /\ Spec
  /\ WF_vars(Ask) /\ WF_vars(Verify) /\ WF_vars(Look)
  /\ SF_vars(Deadline) /\ WF_vars(Receive)

-----------------------------------------------------------------------------

TypeOK ==
  /\ stage \in [Ids -> {"none", "open", "ready", "leased", "gone"}]
  /\ stamp \in [Ids -> 0..clock]
  /\ pc \in {"idle", "sent", "first", "look", "wait", "last"}
  /\ page.some => pc = "idle"
  /\ cursor = Start \/ cursor \in {Key(d) : d \in Ids}
  /\ Len(page.items) <= Limit
  /\ Before(page.cursor, cursor) => page = NoPage

(***************************************************************************)
(* A client that passes back its cursors reads deliveries in one order and *)
(* never one of them twice, whatever is stored, leased, released and lost  *)
(* in between (peek_messages, page_from_rows, encode_cursor).              *)
(***************************************************************************)
ReadInOrder == InOrder(read)

(***************************************************************************)
(* What a page leaves out, because of its limit, of the budget of an       *)
(* answer or of deliveries with the same time, stays ahead of the cursor:  *)
(* the next pages have it (peek_messages, page_from_rows).                 *)
(***************************************************************************)
CutIsAhead == \A d \in owed : Before(cursor, Key(d))

(***************************************************************************)
(* A delivery that is ready and ahead of the cursor does not stay so for   *)
(* ever while the client goes on reading, even if no announcement ever     *)
(* reaches its polls (peek_inbox, long_poll_peek).                         *)
(***************************************************************************)
ReadyIsRead ==
  \A d \in Ids :
    (stage[d] = "ready" /\ Before(cursor, Key(d)))
      ~> ~(stage[d] = "ready" /\ Before(cursor, Key(d)))

=============================================================================
