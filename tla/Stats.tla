------------------------------- MODULE Stats -------------------------------
(***************************************************************************)
(* The usage statistics: request handlers drop an event into a bounded     *)
(* channel, one worker per server writes batches of them to PostgreSQL     *)
(* rows shared by every server, and GET /stats reads the rows back with    *)
(* one query per figure. A unique member stands for its bit of the row.    *)
(***************************************************************************)
EXTENDS Integers, Sequences, SequencesExt, FiniteSetsExt

CONSTANTS
  Servers,          \* processes on one database
  Counted,          \* the counted kinds, in the order of record_stat_batch
  Members,          \* the members of the unique kind, Inbox
  QueueMax,         \* STATS_CHANNEL_CAPACITY
  BatchMax,         \* STATS_BATCH_MAX
  HourLen, DayLen,  \* ticks of the clock in an hour and in a day
  Hours, Days,      \* STATS_HOURS, STATS_DAYS
  MaxEvents,        \* bound of the model: events
  MaxClock,         \* bound of the model: ticks
  Loads             \* bound of the model: GET /stats

StatsAssumption ==
  /\ IsFiniteSet(Servers)
  /\ Counted \in Seq(STRING) /\ Counted # <<>> /\ IsInjective(Counted)
  /\ "Inbox" \notin ToSet(Counted) /\ Members \cap ToSet(Counted) = {}
  /\ QueueMax \in Nat \ {0} /\ BatchMax \in Nat \ {0}
  /\ HourLen \in Nat \ {0} /\ \E hours \in 1..DayLen : DayLen = hours * HourLen
  \* The hours that are listed begin on a day that is listed.
  /\ Hours \in Nat \ {0} /\ Days \in Nat \ {0} /\ (Hours - 1) * HourLen <= (Days - 1) * DayLen
  /\ MaxEvents \in Nat /\ MaxClock \in Nat /\ Loads \in Nat

Periods == <<"Hour", "Day">>
Kinds == ToSet(Counted) \cup {"Inbox"}
Events == ToSet(Counted) \cup Members
Length(p) == IF p = "Hour" THEN HourLen ELSE DayLen
Bucket(p, t) == t \div Length(p)
Rows == {<<p, k, b>> : p \in ToSet(Periods), k \in Kinds, b \in 0..MaxClock}
Empty(k) == IF k = "Inbox" THEN {} ELSE 0

VARIABLES
  clock,
  queue,   \* stats_tx, stats_rx of each server
  batch,   \* the batch its worker records, <<>> between batches
  todo,    \* the statements its transaction has left
  done,    \* the statements it has executed: their rows are locked
  table,   \* stat_counts and stat_uniques, as committed
  load,    \* GET /stats: when it began, its queries left, what they returned
  loads,
  sent, lost   \* history: how often each event happened, and was dropped

vars == <<clock, queue, batch, todo, done, table, load, loads, sent, lost>>
writer == <<batch, todo, done>>
reading == <<load, loads>>

Idle == [at |-> 0, left |-> <<>>, got |-> <<>>]

Init ==
  /\ clock = 0
  /\ queue = [s \in Servers |-> <<>>]
  /\ batch = queue /\ todo = queue /\ done = queue
  /\ table = [r \in Rows |-> Empty(r[2])]
  /\ load = Idle /\ loads = 0
  /\ sent = [e \in Events |-> 0] /\ lost = sent

\* How often e stands in a sequence, and what of a set stands in it, in order.
Of(seq, e) == Cardinality({n \in DOMAIN seq : seq[n] = e})
Picked(seq, S) ==
  LET picked[n \in 0 .. Len(seq)] ==
        IF n = 0 THEN <<>>
        ELSE IF seq[n] \in S THEN Append(picked[n - 1], seq[n]) ELSE picked[n - 1]
  IN picked[Len(seq)]

Lose(seq) == lost' = [e \in Events |-> lost[e] + Of(seq, e)]

-----------------------------------------------------------------------------
(* The servers. *)

\* record_stat_soon: an event that finds the channel full is dropped.
Happened == MapThenSumSet(LAMBDA e : sent[e], Events)
Record(s, e) ==
  /\ Happened < MaxEvents
  /\ sent' = [sent EXCEPT ![e] = @ + 1]
  /\ IF Len(queue[s]) < QueueMax
     THEN queue' = [queue EXCEPT ![s] = Append(@, e)] /\ UNCHANGED lost
     ELSE Lose(<<e>>) /\ UNCHANGED queue
  /\ UNCHANGED <<clock, writer, table, reading>>

CountStatements(b, p, t) ==
  LET kinds == Picked(Counted, ToSet(b))
  IN [i \in DOMAIN kinds |-> [row |-> <<p, kinds[i], Bucket(p, t)>>,
                              add |-> Of(b, kinds[i])]]
UniqueStatements(b, p, t) ==
  LET members == Picked(b, Members)
  IN [i \in DOMAIN members |-> [row |-> <<p, "Inbox", Bucket(p, t)>>,
                                add |-> {members[i]}]]

OfPeriod(b, p, t) == CountStatements(b, p, t) \o UniqueStatements(b, p, t)

\* The statements of a batch's transaction: both periods of one clock reading.
Statements(b, t) == OfPeriod(b, "Hour", t) \o OfPeriod(b, "Day", t)

\* The worker takes what waits in the channel, up to a batch, and begins.
Take(s) ==
  LET b == SubSeq(queue[s], 1, Min({Len(queue[s]), BatchMax}))
  IN /\ batch[s] = <<>> /\ b # <<>>
     /\ queue' = [queue EXCEPT ![s] = SubSeq(@, Len(b) + 1, Len(@))]
     /\ batch' = [batch EXCEPT ![s] = b]
     /\ todo' = [todo EXCEPT ![s] = Statements(b, clock)]
     /\ UNCHANGED <<clock, done, table, reading, sent, lost>>

Held(s) == {done[s][i].row : i \in DOMAIN done[s]}
Blocks(o, s) == todo[s] # <<>> /\ o # s /\ Head(todo[s]).row \in Held(o)

\* insert_stat_count, insert_stat_unique: the upsert locks its row.
Insert(s) ==
  /\ todo[s] # <<>>
  /\ \A o \in Servers : ~Blocks(o, s)
  /\ done' = [done EXCEPT ![s] = Append(@, Head(todo[s]))]
  /\ todo' = [todo EXCEPT ![s] = Tail(@)]
  /\ UNCHANGED <<clock, queue, batch, table, reading, sent, lost>>

Add(k, old, add) == IF k = "Inbox" THEN old \cup add ELSE old + add
Upsert(tab, st) == [tab EXCEPT ![st.row] = Add(st.row[2], @, st.add)]
Apply(statements) ==
  LET tab[n \in 0 .. Len(statements)] ==
        IF n = 0 THEN table ELSE Upsert(tab[n - 1], statements[n])
  IN tab[Len(statements)]

Release(s) ==
  /\ batch' = [batch EXCEPT ![s] = <<>>]
  /\ todo' = [todo EXCEPT ![s] = <<>>]
  /\ done' = [done EXCEPT ![s] = <<>>]

Commit(s) ==
  /\ batch[s] # <<>> /\ todo[s] = <<>>
  /\ table' = Apply(done[s])
  /\ Release(s)
  /\ UNCHANGED <<clock, queue, reading, sent, lost>>

\* The statements run outside a transaction.
FailHalfDone(s) ==
  /\ batch[s] # <<>>
  /\ Lose(batch[s])
  /\ table' = Apply(done[s])
  /\ Release(s)
  /\ UNCHANGED <<clock, queue, reading, sent>>

\* A statement or the commit fails: the batch is logged and forgotten.
Fail(s) ==
  /\ batch[s] # <<>>
  /\ Lose(batch[s])
  /\ Release(s)
  /\ UNCHANGED <<clock, queue, table, reading, sent>>

\* The process ends, by a signal or a crash; nothing drains its channel.
Stop(s) ==
  /\ queue[s] \o batch[s] # <<>>
  /\ Lose(queue[s] \o batch[s])
  /\ Release(s)
  /\ queue' = [queue EXCEPT ![s] = <<>>]
  /\ UNCHANGED <<clock, table, reading, sent>>

-----------------------------------------------------------------------------
(* GET /stats: every figure is a query of its own, outside a transaction. *)

Recent(current, count) ==
  LET first == IF current < count - 1 THEN 0 ELSE current - (count - 1)
  IN first..current
Window(p, t) == Recent(Bucket(p, t), IF p = "Hour" THEN Hours ELSE Days)

ReadOrder == <<Head(Counted), "Inbox">> \o Tail(Counted)
Queries(what, p) ==
  [i \in DOMAIN ReadOrder |-> [what |-> what, period |-> p, kind |-> ReadOrder[i]]]

Plan ==
  Queries("total", "Hour") \o Queries("total", "Day")
    \o Queries("series", "Hour") \o Queries("series", "Day")

StartLoad ==
  /\ loads < Loads /\ load.left = <<>>
  /\ load' = [at |-> clock, left |-> Plan, got |-> <<>>]
  /\ loads' = loads + 1
  /\ UNCHANGED <<clock, queue, writer, table, sent, lost>>

\* count_total, count_series: the rows of the window, as committed now.
Ask ==
  /\ load.left # <<>>
  /\ LET q == Head(load.left)
         rows == [b \in Window(q.period, load.at) |-> table[<<q.period, q.kind, b>>]]
     IN load' = [load EXCEPT !.left = Tail(@), !.got = Append(@, [q |-> q, rows |-> rows])]
  /\ UNCHANGED <<clock, queue, writer, table, loads, sent, lost>>

\* A query fails, or the client goes away: there is no answer.
Abandon ==
  /\ load.left # <<>>
  /\ load' = Idle
  /\ UNCHANGED <<clock, queue, writer, table, loads, sent, lost>>

Tick ==
  /\ clock < MaxClock
  /\ clock' = clock + 1
  /\ UNCHANGED <<queue, writer, table, reading, sent, lost>>

\* Every bound is reached and everybody rests.
Rest ==
  /\ clock = MaxClock /\ loads = Loads /\ load.left = <<>>
  /\ \A s \in Servers : queue[s] \o batch[s] = <<>>
  /\ UNCHANGED vars

Work(s) == Take(s) \/ Insert(s) \/ Commit(s)

Next ==
  \/ \E s \in Servers :
       \/ \E e \in Events : Record(s, e)
       \/ Take(s) \/ Insert(s) \/ Commit(s)
       \/ Fail(s) \/ Stop(s)
  \/ StartLoad \/ Ask \/ Abandon \/ Tick \/ Rest

Spec == Init /\ [][Next]_vars

\* The worker never waits for anything but the database, and the database
\* grants a lock that is free. Nothing makes a query fail.
FairSpec == Spec /\ \A s \in Servers : WF_vars(Work(s))

-----------------------------------------------------------------------------

TypeOK ==
  /\ clock \in 0..MaxClock /\ loads \in 0..Loads
  /\ \A s \in Servers :
       /\ queue[s] \in Seq(Events) /\ Len(queue[s]) <= QueueMax
       /\ batch[s] \in Seq(Events) /\ Len(batch[s]) <= BatchMax
       /\ batch[s] = <<>> => todo[s] \o done[s] = <<>>
  /\ \A r \in Rows : IF r[2] = "Inbox" THEN table[r] \subseteq Members ELSE table[r] \in Nat
  /\ load.left = <<>> \/ load.left = SubSeq(Plan, Len(load.got) + 1, Len(Plan))

\* The rows of a kind, summed or merged.
Sum(rows) ==
  LET sum[n \in 0 .. MaxClock + 1] ==
        IF n = 0 THEN 0
        ELSE sum[n - 1] + (IF n - 1 \in DOMAIN rows THEN rows[n - 1] ELSE 0)
  IN sum[MaxClock + 1]
Figure(k, rows) ==
  IF k = "Inbox" THEN UNION {rows[b] : b \in DOMAIN rows} ELSE Sum(rows)
Stored(p, k, bs) == [b \in bs |-> table[<<p, k, b>>]]

\* The events a server has not recorded, and where one waits.
Pending(s) == batch[s] \o queue[s]
Waiting(e) ==
  Cardinality({w \in Servers \X (1 .. BatchMax + QueueMax) :
                 w[2] \in DOMAIN Pending(w[1]) /\ Pending(w[1])[w[2]] = e})

(***************************************************************************)
(* Whatever fails and wherever a server stops, an event is counted once or *)
(* dropped: what a kind's rows hold, what waits and what was lost add up   *)
(* to what happened; a member whose event was not lost is in a row         *)
(* (record_stat_soon, stats_worker, record_stat_batch).                    *)
(***************************************************************************)
CountedOnce ==
  LET hours(k) == Figure(k, Stored("Hour", k, 0..MaxClock))
  IN /\ \A k \in ToSet(Counted) : hours(k) + Waiting(k) + lost[k] = sent[k]
     /\ \A m \in Members :
          /\ m \in hours("Inbox") => sent[m] > Waiting(m) + lost[m]
          /\ sent[m] > Waiting(m) + lost[m] => m \in hours("Inbox")

(***************************************************************************)
(* A day's row is what its hours' rows add up to, for every kind, although *)
(* they are written by separate statements and batches cross the end of an *)
(* hour and of a day (record_stat_batch: one clock reading, one            *)
(* transaction).                                                           *)
(***************************************************************************)
PeriodsAgree ==
  \A d \in 0..Bucket("Day", MaxClock), k \in Kinds :
    LET hours == {h \in 0..Bucket("Hour", MaxClock) : (h * HourLen) \div DayLen = d}
    IN table[<<"Day", k, d>>] = Figure(k, Stored("Hour", k, hours))

(***************************************************************************)
(* The workers of several servers never wait for each other's row locks in *)
(* a circle, whatever their batches hold and whichever hour each believes  *)
(* it is (record_stat_batch: one order of periods and kinds).              *)
(***************************************************************************)
NoLockCycle ==
  \A ring \in (SUBSET Servers) \ {{}} :
    \E s \in ring : \A o \in ring : ~Blocks(o, s)

Answered == load.left = <<>> /\ load.got # <<>>
Got(what, p, k) ==
  (CHOOSE g \in ToSet(load.got) : g.q = [what |-> what, period |-> p, kind |-> k]).rows
Within(k, small, large) == IF k = "Inbox" THEN small \subseteq large ELSE small <= large

(***************************************************************************)
(* The queries of one GET /stats see the rows at different moments; still  *)
(* the buckets it lists add up to at least the total it shows, for each    *)
(* kind and period (load_stats: totals first, rows only grow).             *)
(***************************************************************************)
SeriesCoversTotal ==
  Answered => \A p \in ToSet(Periods), k \in Kinds :
    Within(k, Figure(k, Got("total", p, k)), Figure(k, Got("series", p, k)))

(***************************************************************************)
(* And its last 30 days count at least what its last 48 hours count,       *)
(* batches being committed in between (load_stats, recent_buckets,         *)
(* record_stat_batch).                                                     *)
(***************************************************************************)
WindowsNest ==
  Answered => \A k \in Kinds :
    Within(k, Figure(k, Got("total", "Hour", k)), Figure(k, Got("total", "Day", k)))

(***************************************************************************)
(* What waits in a server's channel is taken out of it, after a batch that *)
(* failed too (stats_worker).                                              *)
(***************************************************************************)
Drains == \A s \in Servers : queue[s] # <<>> ~> queue[s] = <<>>
=============================================================================
