------------------------------ MODULE LongPoll ------------------------------
(***************************************************************************)
(* How a request that long-polls an inbox learns of a new delivery.        *)
(*                                                                         *)
(* Every instance of cc.me has one broadcast channel (inbox_tx, capacity   *)
(* INBOX_NOTIFY_CAPACITY).  notify_inbox sends the key of an inbox on the  *)
(* channel of its own instance and then to PostgreSQL with pg_notify;      *)
(* inbox_notification_worker of every instance, also of the sending one,   *)
(* listens there and repeats the key on the channel of its instance.       *)
(* long_poll_claim subscribes to the channel, looks, and sleeps until its  *)
(* key is announced, its receiver has lagged, or its deadline passes.      *)
(*                                                                         *)
(* Deliveries are counted, and a claim takes one: which delivery it is and *)
(* how a claim locks it is the subject of Inbox.                           *)
(***************************************************************************)
EXTENDS Integers, Sequences

CONSTANTS
  Instances,   \* server processes on one database
  Keys,        \* inboxes
  Pollers,     \* clients that claim with "poll": true in a loop
  Home,        \* the instance each poller is connected to
  Wants,       \* the inbox each poller asks for
  Capacity,    \* INBOX_NOTIFY_CAPACITY
  MaxPosts,    \* bound of the model: deliveries stored in a run
  MaxFaults    \* bound of the model: lost connections, aborted handlers,
               \* leases that run out

PollersAssumption ==
  /\ Home \in [Pollers -> Instances]
  /\ Wants \in [Pollers -> Keys]
CapacityAssumption == Capacity \in Nat \ {0}
PollBoundsAssumption == MaxPosts \in Nat /\ MaxFaults \in Nat

VARIABLES
  ready,      \* number of ready deliveries of each inbox
  posts,      \* deliveries stored so far
  faults,     \* faults so far
  announce,   \* announce[i][k]: handlers of instance i still to announce k,
              \*   <<on the channel of i, to PostgreSQL>>
  listening,  \* the instances whose listener is connected
  wire,       \* notifications PostgreSQL has sent each listener
  poll,       \* where each poller's request is
  late,       \* the pollers whose deadline has passed
  queue,      \* keys in each poller's receiver
  lagged      \* the receivers that lost the oldest of their keys

vars == <<ready, posts, faults, announce, listening, wire, poll, late, queue,
          lagged>>

store == <<ready, posts, faults>>
channel == <<listening, wire>>
client == <<poll, late, queue, lagged>>

Init ==
  /\ ready = [k \in Keys |-> 0]
  /\ posts = 0
  /\ faults = 0
  /\ announce = [i \in Instances |-> [k \in Keys |-> <<0, 0>>]]
  /\ listening = Instances
  /\ wire = [i \in Instances |-> <<>>]
  /\ poll = [p \in Pollers |-> "first"]
  /\ late = {}
  /\ queue = [p \in Pollers |-> <<>>]
  /\ lagged = {}

-----------------------------------------------------------------------------
(* The broadcast channel of an instance *)

Subscribed(p) == poll[p] \in {"look", "wait", "last"}

Hears(i) == {p \in Pollers : Home[p] = i /\ Subscribed(p)}

\* inbox_tx.send(k): a full receiver drops its oldest key and will be told
\* that it lagged.
Broadcast(i, k) ==
  /\ queue' = [p \in Pollers |->
       IF p \notin Hears(i) THEN queue[p]
       ELSE IF Len(queue[p]) < Capacity THEN Append(queue[p], k)
       ELSE Append(Tail(queue[p]), k)]
  /\ lagged' = lagged \cup {p \in Hears(i) : Len(queue[p]) = Capacity}

(* Handlers that make a delivery ready *)

\* insert_inbox_messages or release_messages commits at instance i; the
\* handler goes on to notify_inbox.
Store(i, k) ==
  /\ posts < MaxPosts
  /\ posts' = posts + 1
  /\ ready' = [ready EXCEPT ![k] = @ + 1]
  /\ announce' = [announce EXCEPT ![i][k][1] = @ + 1]
  /\ UNCHANGED <<faults, channel, client>>

\* notify_inbox, first statement.
NotifyLocal(i, k) ==
  /\ announce[i][k][1] > 0
  /\ Broadcast(i, k)
  /\ announce' = [announce EXCEPT ![i][k] = <<@[1] - 1, @[2] + 1>>]
  /\ UNCHANGED <<store, channel, poll, late>>

\* notify_inbox, second statement: SELECT pg_notify, committed on its own.
NotifyPostgres(i, k) ==
  /\ announce[i][k][2] > 0
  /\ announce' = [announce EXCEPT ![i][k][2] = @ - 1]
  /\ wire' = [j \in Instances |-> IF j \in listening THEN Append(wire[j], k)
                                                     ELSE wire[j]]
  /\ UNCHANGED <<store, listening, client>>

\* The handler ends before it has announced the delivery: the client is gone
\* and the request is dropped, or pg_notify fails and is only logged.
DropAnnouncement(i, k) ==
  /\ faults < MaxFaults
  /\ faults' = faults + 1
  /\ \E n \in {1, 2} :
       /\ announce[i][k][n] > 0
       /\ announce' = [announce EXCEPT ![i][k][n] = @ - 1]
  /\ UNCHANGED <<ready, posts, channel, client>>

\* A lease runs out (or a claim is rolled back): ready again, and announced
\* by nobody.
Lapse(k) ==
  /\ faults < MaxFaults
  /\ faults' = faults + 1
  /\ ready' = [ready EXCEPT ![k] = @ + 1]
  /\ UNCHANGED <<posts, announce, channel, client>>

(* inbox_notification_worker *)

Forward(i) ==
  /\ wire[i] # <<>>
  /\ Broadcast(i, Head(wire[i]))
  /\ wire' = [wire EXCEPT ![i] = Tail(@)]
  /\ UNCHANGED <<store, announce, listening, poll, late>>

\* The listener's connection breaks: what was sent on it is lost, and so is
\* what is notified before the next LISTEN.
LoseListener(i) ==
  /\ i \in listening
  /\ faults < MaxFaults
  /\ faults' = faults + 1
  /\ listening' = listening \ {i}
  /\ wire' = [wire EXCEPT ![i] = <<>>]
  /\ UNCHANGED <<ready, posts, announce, client>>

Reconnect(i) ==
  /\ i \notin listening
  /\ listening' = listening \cup {i}
  /\ UNCHANGED <<store, announce, wire, client>>

-----------------------------------------------------------------------------
(* claim_inbox and long_poll_claim *)

\* The request is answered, with a delivery or empty; the receiver is dropped
\* and the client asks again.
Answer(p) ==
  /\ poll' = [poll EXCEPT ![p] = "first"]
  /\ queue' = [queue EXCEPT ![p] = <<>>]
  /\ late' = late \ {p}
  /\ lagged' = lagged \ {p}

Take(p) == ready' = [ready EXCEPT ![Wants[p]] = @ - 1]

\* claim_once before the long poll, as the last look, or in the loop.
Find(p) ==
  /\ poll[p] \in {"first", "look", "last"}
  /\ ready[Wants[p]] > 0
  /\ Take(p)
  /\ Answer(p)
  /\ UNCHANGED <<posts, faults, announce, channel>>

\* The first claim_once finds nothing.
FirstMiss(p) ==
  /\ poll[p] = "first"
  /\ ready[Wants[p]] = 0
  /\ poll' = [poll EXCEPT ![p] = "empty"]
  /\ UNCHANGED <<store, announce, channel, late, queue, lagged>>

\* The receiver is created (subscribe), and the loop entered: it looks before
\* it sleeps.
Subscribe(p) ==
  /\ poll[p] = "empty"
  /\ poll' = [poll EXCEPT ![p] = "look"]
  /\ UNCHANGED <<store, announce, channel, late, queue, lagged>>

\* The loop finds nothing: sleep, or answer empty when the deadline passed.
Miss(p) ==
  /\ poll[p] = "look"
  /\ ready[Wants[p]] = 0
  /\ IF p \in late THEN Answer(p)
     ELSE /\ poll' = [poll EXCEPT ![p] = "wait"]
          /\ UNCHANGED <<late, queue, lagged>>
  /\ UNCHANGED <<store, announce, channel>>

\* The receiver yields a key before the deadline: one of another inbox is
\* ignored.
Receive(p) ==
  /\ poll[p] = "wait"
  /\ p \notin lagged
  /\ queue[p] # <<>>
  /\ queue' = [queue EXCEPT ![p] = Tail(@)]
  /\ poll' = [poll EXCEPT ![p] = IF Head(queue[p]) = Wants[p] THEN "look"
                                                              ELSE "wait"]
  /\ UNCHANGED <<store, announce, channel, late, lagged>>

\* fault: a lagged receiver is treated like a key of another inbox
ReceiveLaggedIgnored(p) ==
  /\ poll[p] = "wait"
  /\ p \in lagged
  /\ lagged' = lagged \ {p}
  /\ UNCHANGED <<store, announce, channel, poll, late, queue>>

\* RecvError::Lagged: some key was lost, so look.
ReceiveLagged(p) ==
  /\ poll[p] = "wait"
  /\ p \in lagged
  /\ lagged' = lagged \ {p}
  /\ poll' = [poll EXCEPT ![p] = "look"]
  /\ UNCHANGED <<store, announce, channel, late, queue>>

\* The deadline of a long poll passes.
Deadline(p) ==
  /\ Subscribed(p)
  /\ p \notin late
  /\ late' = late \cup {p}
  /\ UNCHANGED <<store, announce, channel, poll, queue, lagged>>

\* fault: a timed-out poll answers empty at once
TimeOutEmpty(p) ==
  /\ poll[p] = "wait"
  /\ p \in late
  /\ Answer(p)
  /\ UNCHANGED <<store, announce, channel>>

\* fault: a timed-out poll sleeps again
TimeOutSleeps(p) ==
  /\ poll[p] = "wait"
  /\ p \in late
  /\ late' = late \ {p}
  /\ UNCHANGED <<store, announce, channel, poll, queue, lagged>>

\* wait_for_inbox_notification times out: take a last look.
TimeOut(p) ==
  /\ poll[p] = "wait"
  /\ p \in late
  /\ poll' = [poll EXCEPT ![p] = "last"]
  /\ UNCHANGED <<store, announce, channel, late, queue, lagged>>

LastMiss(p) ==
  /\ poll[p] = "last"
  /\ ready[Wants[p]] = 0
  /\ Answer(p)
  /\ UNCHANGED <<store, announce, channel>>

-----------------------------------------------------------------------------

PollerStep(p) ==
  \/ Find(p)
  \/ FirstMiss(p)
  \/ Subscribe(p)
  \/ Miss(p)
  \/ Receive(p)
  \/ ReceiveLagged(p)
  \/ TimeOut(p)
  \/ LastMiss(p)

Next ==
  \/ \E i \in Instances, k \in Keys : \/ Store(i, k)
                                      \/ NotifyLocal(i, k)
                                      \/ NotifyPostgres(i, k)
                                      \/ DropAnnouncement(i, k)
  \/ \E k \in Keys : Lapse(k)
  \/ \E i \in Instances : Forward(i) \/ LoseListener(i) \/ Reconnect(i)
  \/ \E p \in Pollers : PollerStep(p) \/ Deadline(p)

Spec == Init /\ [][Next]_vars

\* Tasks that can run are run by the runtime; the listener reconnects in a
\* loop.  Deadlines, faults and new deliveries need not happen.
TaskFairness ==
  /\ \A i \in Instances, k \in Keys :
       WF_vars(NotifyLocal(i, k)) /\ WF_vars(NotifyPostgres(i, k))
  /\ \A i \in Instances : WF_vars(Forward(i)) /\ WF_vars(Reconnect(i))
  /\ \A p \in Pollers : WF_vars(PollerStep(p))

PromptSpec == Spec /\ TaskFairness

\* Timers fire as well (tokio::time::timeout).
TimedSpec == PromptSpec /\ \A p \in Pollers : WF_vars(Deadline(p))

-----------------------------------------------------------------------------
(* Properties *)

\* Counters, queues and request states stay in their ranges; a receiver never
\* holds more than the capacity of its channel.
TypeOK ==
  /\ ready \in [Keys -> 0..(MaxPosts + MaxFaults)]
  /\ posts \in 0..MaxPosts
  /\ faults \in 0..MaxFaults
  /\ \A i \in Instances, k \in Keys : announce[i][k] \in (0..MaxPosts) \X (0..MaxPosts)
  /\ listening \subseteq Instances
  /\ \A i \in Instances : wire[i] \in Seq(Keys)
  /\ poll \in [Pollers -> {"first", "empty", "look", "wait", "last"}]
  /\ late \subseteq {p \in Pollers : Subscribed(p)}
  /\ lagged \subseteq Pollers
  /\ \A p \in Pollers : queue[p] \in Seq(Keys) /\ Len(queue[p]) <= Capacity

Occurs(k, q) == \E n \in DOMAIN q : q[n] = k

\* A word of inbox k is still on its way to the pollers of instance i.
OnItsWay(i, k) ==
  \/ announce[i][k][1] > 0
  \/ \E j \in Instances : announce[j][k][1] > 0 \/ announce[j][k][2] > 0
  \/ Occurs(k, wire[i])

\* As long as nothing fails, no request sleeps on an inbox that has a ready
\* delivery without a notification for it underway, in its receiver, or lost
\* there in a way it will be told of (RecvError::Lagged).
NoLostWakeup ==
  faults = 0 =>
    \A p \in Pollers :
      poll[p] = "wait" /\ ready[Wants[p]] > 0 =>
        \/ p \in lagged
        \/ Occurs(Wants[p], queue[p])
        \/ OnItsWay(Home[p], Wants[p])

Wanted(k) == \E p \in Pollers : Wants[p] = k

\* A ready delivery of an inbox somebody polls is claimed.  Under PromptSpec
\* with no faults, notifications alone achieve it: no deadline has to pass.
\* Under TimedSpec it holds in spite of lost connections, handlers that end
\* before they notify, and leases that run out unannounced.
ReadyIsClaimed ==
  \A k \in Keys : Wanted(k) => (ready[k] > 0 ~> ready[k] = 0)

\* A request that was subscribed answers empty only right after a look that
\* found nothing: what became ready while it slept is not left behind.
EmptyAnswerIsFresh ==
  \A p \in Pollers :
    Subscribed(p) /\ poll'[p] = "first" /\ ready' = ready => ready[Wants[p]] = 0

=============================================================================
