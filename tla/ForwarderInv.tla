---------------------------- MODULE ForwarderInv ----------------------------
(***************************************************************************)
(* The inductive invariant of Forwarder: what a forwarder, its call and    *)
(* its answer agree on, and who may still bring a delivery to the target.  *)
(***************************************************************************)
EXTENDS Forwarder

Calls == [who : Forwarders \cup {"nobody"}, op : {"claim", "ack", "release"}, ids : SUBSET Ids]

Types ==
  /\ store \in [Ids -> {"none", "open", "ready", "leased", "gone"}]
  /\ took \in [Ids -> Nat]
  /\ pc \in [Forwarders -> {"down", "claim", "replay", "ack", "failack", "release"}]
  /\ batch \in [Forwarders -> Seq(Ids)]
  /\ at \in [Forwarders -> Nat]
  /\ calls \subseteq Calls
  /\ answer \in [Forwarders -> [some : BOOLEAN, items : Seq(Ids)]]
  /\ fails \in Nat /\ faults \in Nat

\* What a claim returned: no delivery twice, none that was never accepted.
Batch(s) ==
  /\ Len(s) <= Limit
  /\ \A i, j \in DOMAIN s : s[i] = s[j] => i = j
  /\ \A i \in DOMAIN s : store[s[i]] \notin {"none", "open"}

\* Where a forwarder is in its batch.
InBatch(f) ==
  /\ Batch(batch[f]) /\ Batch(answer[f].items)
  /\ at[f] <= Limit + 1
  /\ pc[f] \in {"replay", "failack", "release"} => at[f] \in DOMAIN batch[f]
  /\ pc[f] = "ack" => at[f] = Len(batch[f]) + 1
  /\ pc[f] \in {"down", "replay"} => ~answer[f].some
  /\ ~answer[f].some => answer[f].items = <<>>
  /\ pc[f] \in {"down", "claim"} => batch[f] = <<>>

\* A call is the one its forwarder waits for.
Asked(c) ==
  /\ \A d \in c.ids : store[d] \notin {"none", "open"}
  /\ c.who \in Forwarders =>
       /\ ~answer[c.who].some
       /\ \/ pc[c.who] = "claim" /\ c.op = "claim" /\ c.ids = {}
          \/ pc[c.who] \in {"ack", "failack"} /\ c.op = "ack" /\ c.ids = Handled(c.who)
          \/ pc[c.who] = "release" /\ c.op = "release" /\ c.ids = Rest(c.who)

\* What is passed over in a batch was taken, and an ack that was answered has
\* been carried out.
Passed(f) ==
  /\ pc[f] \in {"replay", "ack", "failack", "release"} =>
       \A d \in Handled(f) : took[d] > 0
  /\ pc[f] \in {"ack", "failack"} /\ answer[f].some =>
       \A d \in Handled(f) : store[d] = "gone"

\* What an ack names was taken, also when nobody waits for it any more.
AcksTaken(c) == c.op = "ack" => \A d \in c.ids : took[d] > 0

Agreed ==
  /\ Types /\ AckedWasTaken
  /\ \A f \in Forwarders : InBatch(f) /\ Passed(f)
  /\ \A c \in calls : Asked(c) /\ AcksTaken(c)

-----------------------------------------------------------------------------
\* f has yet to replay d, or to give it back.
Owes(f, d) ==
  \/ pc[f] = "claim" /\ d \in ToSet(answer[f].items)
  \/ pc[f] \in {"replay", "failack"} /\ d \in Rest(f)
  \/ pc[f] = "release" /\ ~answer[f].some /\ d \in Rest(f)

\* f works on d, and its lease is not left behind.
Holds(f, d) ==
  \/ Owes(f, d)
  \/ pc[f] \in {"replay", "ack", "failack"} /\ d \in Handled(f)

\* The inbox may give d to a forwarder, at once or when a lease ends.
Loose(d) ==
  \/ store[d] \in {"none", "open", "ready"}
  \/ store[d] = "leased" /\ \A f \in Forwarders : ~Holds(f, d)

\* A release that nobody waits for gives d back.
Returns(c, d) == c.who = "nobody" /\ c.op = "release" /\ d \in c.ids

\* The ways d may come to the target without another fault.
Ways(d) ==
  {<<"inbox", d>> : x \in {y \in {d} : Loose(y)}}
  \cup {<<"forwarder", f>> : f \in {g \in Forwarders : Owes(g, d)}}
  \cup {<<"call", c>> : c \in {e \in calls : Returns(e, d)}}

Few(d) == IsFiniteSet(Ways(d)) /\ took[d] + Cardinality(Ways(d)) <= 1 + faults
FewWays == \A d \in Ids : Few(d)

IInv == Agreed /\ FewWays
=============================================================================
