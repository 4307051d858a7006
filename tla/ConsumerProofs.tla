--------------------------- MODULE ConsumerProofs ---------------------------
(***************************************************************************)
(* Theorems about those who take deliveries from an inbox: about Forwarder *)
(* for any forwarders, any number of deliveries and claims of any size,    *)
(* and about LongPoll for any instances, inboxes and pollers, and          *)
(* receivers of any capacity.                                              *)
(***************************************************************************)
EXTENDS ForwarderInv, FiniteSetTheorems, TLAPS

\* The constants and variables of LongPoll.
CONSTANTS Instances, Keys, Pollers, Home, Wants, Capacity, MaxPosts, MaxLosses
VARIABLES ready, posts, losses, announce, listening, wire, poll, late, queue, lagged

Poll == INSTANCE LongPoll WITH MaxFaults <- MaxLosses, faults <- losses

-----------------------------------------------------------------------------
(* Sequences and counts *)

LEMMA PartOfSequence ==
  ASSUME NEW s \in Seq(Ids), NEW m \in Nat \ {0}, NEW n \in Nat, n <= Len(s)
  PROVE  ToSet(SubSeq(s, m, n)) = {s[i] : i \in m..n}
<1>1. /\ DOMAIN SubSeq(s, m, n) = 1..(IF m <= n THEN n - m + 1 ELSE 0)
      /\ \A i \in DOMAIN SubSeq(s, m, n) : SubSeq(s, m, n)[i] = s[i + m - 1]
  OBVIOUS
<1>2. CASE m > n
  BY <1>1, <1>2 DEF ToSet
<1>3. CASE m <= n
  <2>1. \A i \in m..n : i - m + 1 \in DOMAIN SubSeq(s, m, n)
                        /\ SubSeq(s, m, n)[i - m + 1] = s[i]
    BY <1>1, <1>3
  <2>2. \A i \in DOMAIN SubSeq(s, m, n) : i + m - 1 \in m..n
    BY <1>1, <1>3
  <2>3. ToSet(SubSeq(s, m, n)) \subseteq {s[i] : i \in m..n}
    BY <1>1, <2>2, Zenon DEF ToSet
  <2>4. {s[i] : i \in m..n} \subseteq ToSet(SubSeq(s, m, n))
    BY <2>1, Zenon DEF ToSet
  <2> QED
    BY <2>3, <2>4
<1> QED
  BY <1>2, <1>3

\* Where a forwarder is in its batch tells what it has handled.
LEMMA PartsOfBatch ==
  ASSUME Types, NEW f \in Forwarders, InBatch(f),
         pc[f] \in {"replay", "ack", "failack", "release"}
  PROVE  /\ Handled(f) = {batch[f][i] : i \in 1..(at[f] - 1)}
         /\ Rest(f) = {batch[f][i] : i \in at[f]..Len(batch[f])}
         /\ Handled(f) \cup Rest(f) \subseteq Ids
         /\ ToSet(batch[f]) = Handled(f) \cup Rest(f)
<1>1. /\ batch[f] \in Seq(Ids) /\ Len(batch[f]) \in Nat
      /\ at[f] \in Nat \ {0} /\ at[f] - 1 \in Nat /\ at[f] - 1 <= Len(batch[f])
      /\ DOMAIN batch[f] = 1..Len(batch[f])
  BY DEF Types, InBatch
<1>2. /\ Handled(f) = {batch[f][i] : i \in 1..(at[f] - 1)}
      /\ Rest(f) = {batch[f][i] : i \in at[f]..Len(batch[f])}
  BY <1>1, PartOfSequence DEF Handled, Rest
<1>3. \A i \in DOMAIN batch[f] : batch[f][i] \in Ids
  BY <1>1
<1> QED
  BY <1>1, <1>2, <1>3 DEF ToSet

\* One of the oldest has fewer than Limit before it, and no two have as many.
LEMMA OldestFit ==
  ASSUME ForwarderAssumption
  PROVE  Oldest \subseteq Ids /\ IsFiniteSet(Oldest) /\ Cardinality(Oldest) <= Limit
<1> DEFINE before(d) == {e \in Ready : e < d}
<1> DEFINE rank == [d \in Oldest |-> Cardinality(before(d))]
<1>1. Oldest \subseteq Ids /\ Ready \subseteq Ids /\ Ids \subseteq Nat
  BY DEF Oldest, Ready, Ids
<1>2. IsFiniteSet(Ids)
  BY FS_Interval DEF ForwarderAssumption, Ids
<1>3. \A d \in Ids : IsFiniteSet(before(d)) /\ Cardinality(before(d)) \in Nat
  BY <1>1, <1>2, FS_Subset, FS_CardinalityType
<1>4. rank \in [Oldest -> 0..(Limit - 1)]
  <2>1. \A d \in Oldest : d \in Ids /\ Cardinality(before(d)) < Limit
    BY <1>1 DEF Oldest
  <2>2. \A d \in Oldest : Cardinality(before(d)) \in 0..(Limit - 1)
    BY <1>3, <2>1 DEF ForwarderAssumption
  <2> QED
    BY <2>2
<1>5. ASSUME NEW d \in Oldest, NEW e \in Oldest, d < e
      PROVE  Cardinality(before(d)) # Cardinality(before(e))
  <2>1. d \in Ready /\ d \in Nat /\ e \in Nat /\ Ready \subseteq Nat /\ d \in Ids /\ e \in Ids
    BY <1>1 DEF Oldest
  <2>2. before(d) \subseteq before(e) /\ d \in before(e) /\ d \notin before(d)
    <3>1. \A x \in Ready : x < d => x < e
      BY <1>5, <2>1
    <3>2. d < e /\ ~(d < d)
      BY <1>5, <2>1
    <3> QED
      BY <2>1, <3>1, <3>2, Zenon
  <2> QED
    <3>1. IsFiniteSet(before(e)) /\ before(d) \in SUBSET before(e) /\ before(d) # before(e)
      BY <1>3, <2>1, <2>2
    <3> HIDE DEF before
    <3> QED
      BY <3>1, FS_Subset
<1>6. \A d, e \in Oldest : rank[d] = rank[e] => d = e
  BY <1>1, <1>5
<1>7. rank \in Injection(Oldest, 0..(Limit - 1))
  BY <1>4, <1>6 DEF Injection, IsInjective
<1>8. IsFiniteSet(0..(Limit - 1)) /\ Cardinality(0..(Limit - 1)) = Limit
  BY FS_Interval DEF ForwarderAssumption
<1> QED
  BY <1>1, <1>7, <1>8, FS_Injection

LEMMA CountSubset ==
  ASSUME NEW S, IsFiniteSet(S), NEW T, T \subseteq S
  PROVE  IsFiniteSet(T) /\ Cardinality(T) <= Cardinality(S)
BY FS_Subset

LEMMA CountAdded ==
  ASSUME NEW S, IsFiniteSet(S), NEW b, NEW T, T \subseteq S \cup {b}
  PROVE  IsFiniteSet(T) /\ Cardinality(T) <= Cardinality(S) + 1
<1>1. /\ IsFiniteSet(S \cup {b})
      /\ Cardinality(S \cup {b}) = IF b \in S THEN Cardinality(S) ELSE Cardinality(S) + 1
  BY FS_AddElement
<1>2. IsFiniteSet(T) /\ Cardinality(T) <= Cardinality(S \cup {b})
  BY <1>1, FS_Subset
<1>3. Cardinality(S) \in Nat /\ Cardinality(T) \in Nat
  BY <1>2, FS_CardinalityType
<1> QED
  BY <1>1, <1>2, <1>3

LEMMA CountRemoved ==
  ASSUME NEW S, IsFiniteSet(S), NEW a \in S
  PROVE  IsFiniteSet(S \ {a}) /\ Cardinality(S \ {a}) + 1 = Cardinality(S)
<1>1. IsFiniteSet(S \ {a}) /\ Cardinality(S \ {a}) = Cardinality(S) - 1
  BY FS_RemoveElement
<1>2. Cardinality(S) \in Nat
  BY FS_CardinalityType
<1> QED
  BY <1>1, <1>2

LEMMA CountUsed ==
  ASSUME NEW S, IsFiniteSet(S), NEW a \in S, NEW T, T \subseteq S \ {a}
  PROVE  IsFiniteSet(T) /\ Cardinality(T) + 1 <= Cardinality(S)
<1>1. IsFiniteSet(S \ {a}) /\ Cardinality(S \ {a}) + 1 = Cardinality(S)
  BY CountRemoved
<1>2. IsFiniteSet(T) /\ Cardinality(T) <= Cardinality(S \ {a})
  BY <1>1, CountSubset
<1>3. Cardinality(S \ {a}) \in Nat /\ Cardinality(T) \in Nat
  BY <1>1, <1>2, FS_CardinalityType
<1> QED
  BY <1>1, <1>2, <1>3

LEMMA CountMoved ==
  ASSUME NEW S, IsFiniteSet(S), NEW a \in S, NEW b, NEW T, T \subseteq (S \ {a}) \cup {b}
  PROVE  IsFiniteSet(T) /\ Cardinality(T) <= Cardinality(S)
<1>1. IsFiniteSet(S \ {a}) /\ Cardinality(S \ {a}) + 1 = Cardinality(S)
  BY CountRemoved
<1>2. IsFiniteSet(T) /\ Cardinality(T) <= Cardinality(S \ {a}) + 1
  BY <1>1, CountAdded
<1> QED
  BY <1>1, <1>2

LEMMA CountMovedAndAdded ==
  ASSUME NEW S, IsFiniteSet(S), NEW a \in S, NEW b, NEW e, NEW T,
         T \subseteq ((S \ {a}) \cup {b}) \cup {e}
  PROVE  IsFiniteSet(T) /\ Cardinality(T) <= Cardinality(S) + 1
<1>1. PICK U : U = (S \ {a}) \cup {b}
  OBVIOUS
<1>2. IsFiniteSet(U) /\ Cardinality(U) <= Cardinality(S)
  BY <1>1, CountMoved
<1>3. IsFiniteSet(T) /\ Cardinality(T) <= Cardinality(U) + 1
  BY <1>1, <1>2, CountAdded
<1>4. Cardinality(S) \in Nat /\ Cardinality(T) \in Nat /\ Cardinality(U) \in Nat
  BY <1>2, <1>3, FS_CardinalityType
<1> QED
  BY <1>2, <1>3, <1>4

-----------------------------------------------------------------------------
(* What a forwarder, its call and its answer agree on *)

\* A step that leaves a forwarder alone.
Still(f) ==
  pc'[f] = pc[f] /\ batch'[f] = batch[f] /\ at'[f] = at[f] /\ answer'[f] = answer[f]

\* No delivery goes back behind its acceptance or returns once it is gone.
Onward ==
  \A d \in Ids : /\ store[d] \notin {"none", "open"} => store'[d] \notin {"none", "open"}
                 /\ store[d] = "gone" => store'[d] = "gone"
                 /\ took'[d] >= took[d]

\* A step has to answer for the forwarders it moves and the calls it makes.
LEMMA Moved ==
  ASSUME Agreed, Types', Onward, AckedWasTaken', NEW F \in SUBSET Forwarders,
         \A g \in Forwarders \ F : Still(g),
         \A f \in F : InBatch(f)' /\ Passed(f)',
         \A c \in calls' : (c \in calls /\ c.who \notin F) \/ (Asked(c)' /\ AcksTaken(c)')
  PROVE  Agreed'
<1>1. ASSUME NEW g \in Forwarders \ F
      PROVE  InBatch(g)' /\ Handled(g)' = Handled(g) /\ Rest(g)' = Rest(g) /\ Passed(g)'
  <2>1. Types /\ InBatch(g) /\ Passed(g) /\ Still(g)
    BY <1>1 DEF Agreed
  <2>2. /\ \A i \in DOMAIN batch[g] : batch[g][i] \in Ids
        /\ \A i \in DOMAIN answer[g].items : answer[g].items[i] \in Ids
    BY <2>1 DEF Types
  <2>3. Batch(batch[g])' /\ Batch(answer[g].items)'
    BY <2>1, <2>2 DEF Still, InBatch, Batch, Onward
  <2>4. InBatch(g)'
    BY <2>1, <2>3 DEF InBatch, Still
  <2>5. Handled(g)' = Handled(g) /\ Rest(g)' = Rest(g)
    BY <2>1 DEF Still, Handled, Rest
  <2>6. Passed(g)'
    <3>1. pc[g] \in {"replay", "ack", "failack", "release"} => Handled(g) \subseteq Ids
      BY <2>1, PartsOfBatch
    <3>2. ASSUME NEW d \in Ids, took[d] > 0 PROVE took'[d] > 0
      BY <3>2 DEF Onward, Agreed, Types
    <3> QED
      BY <2>1, <2>5, <3>1, <3>2 DEF Passed, Still, Onward
  <2> QED
    BY <2>4, <2>5, <2>6
<1>2. ASSUME NEW c \in calls', c \in calls, c.who \notin F
      PROVE  Asked(c)' /\ AcksTaken(c)'
  <2>1. Asked(c) /\ AcksTaken(c) /\ c.ids \subseteq Ids
    BY <1>2 DEF Agreed, Types, Calls
  <2>2. AcksTaken(c)'
    BY <2>1 DEF AcksTaken, Onward, Agreed, Types
  <2>3. c.who \in Forwarders =>
          /\ Still(c.who) /\ Handled(c.who)' = Handled(c.who) /\ Rest(c.who)' = Rest(c.who)
    BY <1>1, <1>2
  <2>4. Asked(c)'
    BY <2>1, <2>3 DEF Asked, Still, Onward
  <2> QED
    BY <2>2, <2>4
<1> QED
  BY <1>1, <1>2 DEF Agreed

LEMMA InitAgreed ==
  ASSUME ForwarderAssumption, Init
  PROVE  Agreed
<1>1. Types
  BY DEF Init, Types, NoAnswer
<1>2. AckedWasTaken /\ calls = {}
  BY DEF Init, AckedWasTaken
<1>3. ASSUME NEW f \in Forwarders PROVE InBatch(f) /\ Passed(f)
  <2>1. pc[f] = "down" /\ batch[f] = <<>> /\ at[f] = 0 /\ answer[f] = [some |-> FALSE, items |-> <<>>]
    BY DEF Init, NoAnswer
  <2>2. Batch(<<>>)
    BY DEF Batch, ForwarderAssumption
  <2> QED
    BY <2>1, <2>2 DEF InBatch, Passed, ForwarderAssumption
<1> QED
  BY <1>1, <1>2, <1>3 DEF Agreed

LEMMA PostAgreed ==
  ASSUME Agreed, NEW d \in Ids, Post(d) \/ Accept(d) \/ Lapse(d)
  PROVE  Agreed'
<1>1. PICK to \in {"open", "ready"} :
        /\ store[d] \in {"none", "open", "leased"}
        /\ store[d] # "none" => to = "ready"
        /\ \A e \in Ids : store'[e] = IF e = d THEN to ELSE store[e]
        /\ store' \in [Ids -> {"none", "open", "ready", "leased", "gone"}]
  <2> USE DEF Agreed, Types
  <2>1. CASE Post(d)
    BY <2>1 DEF Post
  <2>2. CASE Accept(d)
    BY <2>2 DEF Accept
  <2>3. CASE Lapse(d)
    BY <2>3 DEF Lapse, Put
  <2> QED
    BY <2>1, <2>2, <2>3
<1>2. /\ UNCHANGED <<took, pc, batch, at, calls, answer, fails>>
      /\ faults' \in Nat
  BY DEF Post, Accept, Lapse, work, net, Agreed, Types
<1>3. Types' /\ Onward /\ AckedWasTaken'
  BY <1>1, <1>2 DEF Agreed, Types, Onward, AckedWasTaken
<1>4. \A g \in Forwarders : Still(g)
  BY <1>2 DEF Still
<1> DEFINE F == {}
<1>5. /\ F \in SUBSET Forwarders /\ \A g \in Forwarders \ F : Still(g)
      /\ \A f \in F : InBatch(f)' /\ Passed(f)'
      /\ \A c \in calls' : c \in calls /\ c.who \notin F
  BY <1>2, <1>4
<1> HIDE DEF F
<1> QED
  BY <1>3, <1>5, Moved

\* One forwarder waits for one call.
LEMMA OneCall ==
  ASSUME Agreed, NEW c \in calls, NEW e \in calls, c.who = e.who, c.who \in Forwarders
  PROVE  c = e
<1>1. c \in Calls /\ e \in Calls /\ Asked(c) /\ Asked(e)
  BY DEF Agreed, Types
<1>2. c.op = e.op /\ c.ids = e.ids
  BY <1>1 DEF Asked
<1> QED
  BY <1>1, <1>2 DEF Calls

\* The step of one forwarder that leaves the inbox alone.
LEMMA MovedAlone ==
  ASSUME Agreed, Types', NEW f \in Forwarders, UNCHANGED store,
         \A d \in Ids : took'[d] >= took[d],
         \A g \in Forwarders \ {f} : Still(g), InBatch(f)' /\ Passed(f)',
         \A c \in calls' : (c \in calls /\ c.who # f) \/ (Asked(c)' /\ AcksTaken(c)')
  PROVE  Agreed'
<1>1. Onward /\ AckedWasTaken'
  BY DEF Onward, AckedWasTaken, Agreed, Types
<1> DEFINE F == {f}
<1>2. /\ F \in SUBSET Forwarders /\ \A g \in Forwarders \ F : Still(g)
      /\ \A g \in F : InBatch(g)' /\ Passed(g)'
      /\ \A c \in calls' : (c \in calls /\ c.who \notin F) \/ (Asked(c)' /\ AcksTaken(c)')
  OBVIOUS
<1> HIDE DEF F
<1> QED
  BY <1>1, <1>2, Moved

LEMMA StartAgreed ==
  ASSUME Agreed, NEW f \in Forwarders, Start(f)
  PROVE  Agreed'
<1>1. /\ pc[f] = "down" /\ pc' = [pc EXCEPT ![f] = "claim"]
      /\ UNCHANGED <<store, took, batch, at, calls, answer, fails, faults>>
  BY DEF Start, Go, net
<1>2. Types' /\ \A d \in Ids : took'[d] >= took[d]
  BY <1>1 DEF Agreed, Types
<1>3. \A g \in Forwarders \ {f} : Still(g)
  BY <1>1 DEF Still, Agreed, Types
<1>4. \A c \in calls' : c \in calls /\ c.who # f
  BY <1>1 DEF Agreed, Asked
<1>5. InBatch(f)' /\ Passed(f)'
  <2>1. pc'[f] = "claim" /\ InBatch(f)
    BY <1>1 DEF Agreed, Types
  <2> QED
    BY <1>1, <2>1 DEF InBatch, Batch, Passed
<1> QED
  BY <1>1, <1>2, <1>3, <1>4, <1>5, MovedAlone

LEMMA SendAgreed ==
  ASSUME ForwarderAssumption, Agreed, NEW f \in Forwarders, Send(f)
  PROVE  Agreed'
<1>1. PICK c : /\ calls' = calls \cup {c} /\ c.who = f
               /\ \/ pc[f] = "claim" /\ c = [who |-> f, op |-> "claim", ids |-> {}]
                  \/ pc[f] \in {"ack", "failack"} /\ c = [who |-> f, op |-> "ack", ids |-> Handled(f)]
                  \/ pc[f] = "release" /\ c = [who |-> f, op |-> "release", ids |-> Rest(f)]
  BY DEF Send, Call
<1>2. /\ ~answer[f].some /\ \A e \in calls : e.who # f
      /\ UNCHANGED <<store, took, pc, batch, at, answer, fails, faults>>
  BY DEF Send, Waits, work
<1>3. Types /\ InBatch(f) /\ Passed(f)
  BY DEF Agreed
<1>4. c.ids \subseteq Ids /\ \A d \in c.ids : store[d] \notin {"none", "open"}
  <2>1. CASE pc[f] = "claim"
    BY <1>1, <2>1
  <2>2. CASE pc[f] \in {"ack", "failack", "release"}
    <3>1. /\ ToSet(batch[f]) = Handled(f) \cup Rest(f)
          /\ Handled(f) \cup Rest(f) \subseteq Ids
      BY <1>3, <2>2, PartsOfBatch
    <3>2. \A d \in ToSet(batch[f]) : store[d] \notin {"none", "open"}
      BY <1>3 DEF InBatch, Batch, ToSet
    <3>3. c.ids = Handled(f) \/ c.ids = Rest(f)
      BY <1>1, <2>2
    <3> QED
      BY <3>1, <3>2, <3>3
  <2> QED
    BY <1>1, <2>1, <2>2
<1>5. c \in Calls /\ Types'
  <2>1. c \in Calls
    BY <1>1, <1>4 DEF Calls
  <2> QED
    BY <1>1, <1>2, <1>3, <2>1 DEF Types
<1>6. Asked(c)' /\ AcksTaken(c)'
  <2>1. Handled(f)' = Handled(f) /\ Rest(f)' = Rest(f)
    BY <1>2 DEF Handled, Rest
  <2>2. Asked(c)'
    BY <1>1, <1>2, <1>4, <2>1 DEF Asked
  <2>3. AcksTaken(c)'
    BY <1>1, <1>2, <1>3 DEF AcksTaken, Passed
  <2> QED
    BY <2>2, <2>3
<1>7. InBatch(f)' /\ Passed(f)'
  BY <1>2, <1>3 DEF InBatch, Batch, Passed, Handled
<1>8. /\ \A e \in calls' : (e \in calls /\ e.who # f) \/ (Asked(e)' /\ AcksTaken(e)')
      /\ \A g \in Forwarders \ {f} : Still(g)
      /\ \A d \in Ids : took'[d] >= took[d]
  BY <1>1, <1>2, <1>3, <1>6 DEF Still, Types
<1> QED
  BY <1>2, <1>5, <1>7, <1>8, MovedAlone

\* A batch stays one while the inbox stands still.
LEMMA BatchStays ==
  ASSUME UNCHANGED store, NEW s, Batch(s)
  PROVE  Batch(s)'
BY DEF Batch

\* A forwarder whose work is over holds nothing.
LEMMA Ended ==
  ASSUME ForwarderAssumption, NEW f \in Forwarders,
         batch'[f] = <<>>, at'[f] <= Limit + 1, answer'[f] = NoAnswer,
         pc'[f] \in {"down", "claim"}
  PROVE  InBatch(f)' /\ Passed(f)'
<1>1. Batch(<<>>)'
  BY DEF Batch, ForwarderAssumption
<1>2. answer'[f].items = <<>> /\ ~answer'[f].some
  BY DEF NoAnswer
<1> QED
  BY <1>1, <1>2 DEF InBatch, Passed

LEMMA TakeAgreed ==
  ASSUME ForwarderAssumption, Agreed, NEW f \in Forwarders, Take(f)
  PROVE  Agreed'
<1>1. /\ answer[f].some /\ answer' = [answer EXCEPT ![f] = NoAnswer]
      /\ UNCHANGED <<store, took, calls, fails, faults>>
  BY DEF Take
<1>2. Types /\ InBatch(f) /\ Passed(f) /\ answer'[f] = NoAnswer
  BY <1>1 DEF Agreed, Types
<1>3. \A c \in calls' : c \in calls /\ c.who # f
  BY <1>1 DEF Agreed, Asked
<1>4. ASSUME NEW b \in Seq(Ids), NEW i \in Nat, NEW to \in {"down", "claim", "replay", "release"},
             batch' = [batch EXCEPT ![f] = b], at' = [at EXCEPT ![f] = i],
             pc' = [pc EXCEPT ![f] = to], InBatch(f)' /\ Passed(f)'
      PROVE  Agreed'
  <2>1. NoAnswer \in [some : BOOLEAN, items : Seq(Ids)]
    BY DEF NoAnswer
  <2>2. Types' /\ \A d \in Ids : took'[d] >= took[d]
    BY <1>1, <1>2, <1>4, <2>1 DEF Types
  <2>3. \A g \in Forwarders \ {f} : Still(g)
    BY <1>1, <1>2, <1>4 DEF Types, Still
  <2> QED
    BY <1>1, <1>3, <1>4, <2>2, <2>3, MovedAlone
<1>5. CASE pc[f] = "claim"
  <2>0. PICK b \in Seq(Ids) : b = answer[f].items
    BY <1>2 DEF Types
  <2> DEFINE to == IF b = <<>> THEN "claim" ELSE "replay"
  <2>1. /\ batch' = [batch EXCEPT ![f] = b] /\ at' = [at EXCEPT ![f] = 1]
        /\ pc' = [pc EXCEPT ![f] = to]
    BY <1>5, <2>0 DEF Take, Go
  <2>2. /\ batch'[f] = b /\ at'[f] = 1 /\ pc'[f] = to
        /\ Batch(b)
    BY <1>2, <2>0, <2>1 DEF Types, InBatch
  <2>3. Batch(b)' /\ Batch(<<>>)'
    <3>1. Batch(<<>>)
      BY DEF Batch, ForwarderAssumption
    <3> QED
      BY <1>1, <2>2, <3>1, BatchStays
  <2>4. CASE b = <<>>
    <3>1. InBatch(f)' /\ Passed(f)'
      BY <1>2, <2>2, <2>4, Ended DEF ForwarderAssumption
    <3> QED
      BY <1>4, <2>1, <2>2, <2>4, <3>1
  <2>5. CASE b # <<>>
    <3>1. 1 \in DOMAIN b
      BY <2>2, <2>5
    <3>2. InBatch(f)'
      BY <1>2, <2>2, <2>3, <2>5, <3>1 DEF InBatch, NoAnswer, ForwarderAssumption
    <3>3. Handled(f)' = {}
      <4>1. ToSet(SubSeq(b, 1, 0)) = {b[j] : j \in 1..0}
        BY <2>2, PartOfSequence
      <4> QED
        BY <2>2, <4>1 DEF Handled
    <3>4. Passed(f)'
      BY <3>3 DEF Passed
    <3> QED
      BY <1>4, <2>1, <2>2, <2>5, <3>2, <3>4
  <2> QED
    BY <2>4, <2>5
<1>6. CASE pc[f] = "ack"
  <2>1. /\ batch' = [batch EXCEPT ![f] = <<>>] /\ at' = [at EXCEPT ![f] = at[f]]
        /\ pc' = [pc EXCEPT ![f] = "claim"]
    BY <1>2, <1>6 DEF Take, Go, Types
  <2>2. /\ batch'[f] = <<>> /\ at'[f] = at[f] /\ at[f] \in Nat /\ at[f] <= Limit + 1
        /\ pc'[f] = "claim" /\ <<>> \in Seq(Ids)
    BY <1>2, <2>1 DEF Types, InBatch
  <2>3. InBatch(f)' /\ Passed(f)'
    BY <1>2, <2>2, Ended
  <2> QED
    BY <1>4, <2>1, <2>2, <2>3
<1>7. CASE pc[f] = "failack"
  <2>1. /\ batch' = [batch EXCEPT ![f] = batch[f]] /\ at' = [at EXCEPT ![f] = at[f]]
        /\ pc' = [pc EXCEPT ![f] = "release"]
    BY <1>2, <1>7 DEF Take, Go, Types
  <2>2. /\ batch'[f] = batch[f] /\ at'[f] = at[f] /\ at[f] \in Nat /\ batch[f] \in Seq(Ids)
        /\ pc'[f] = "release"
    BY <1>2, <2>1 DEF Types
  <2>3. Batch(batch[f])' /\ Batch(<<>>)'
    <3>1. PICK b : b = batch[f]
      OBVIOUS
    <3>2. Batch(b) /\ Batch(<<>>)
      BY <1>2, <3>1 DEF InBatch, Batch, ForwarderAssumption
    <3>3. Batch(b)' /\ Batch(<<>>)'
      BY <1>1, <3>2, BatchStays
    <3> QED
      BY <2>2, <3>1, <3>3
  <2>4. InBatch(f)'
    BY <1>2, <1>7, <2>2, <2>3 DEF InBatch, NoAnswer
  <2>5. Passed(f)'
    BY <1>1, <1>2, <1>7, <2>2 DEF Passed, Handled
  <2> QED
    BY <1>4, <2>1, <2>2, <2>4, <2>5
<1>8. CASE pc[f] = "release"
  <2>1. /\ batch' = [batch EXCEPT ![f] = <<>>] /\ at' = [at EXCEPT ![f] = 0]
        /\ pc' = [pc EXCEPT ![f] = "down"]
    BY <1>8 DEF Take, Exit, Go
  <2>2. batch'[f] = <<>> /\ at'[f] = 0 /\ pc'[f] = "down" /\ <<>> \in Seq(Ids)
    BY <1>2, <2>1 DEF Types
  <2>3. InBatch(f)' /\ Passed(f)'
    BY <1>2, <2>2, Ended DEF ForwarderAssumption
  <2> QED
    BY <1>4, <2>1, <2>2, <2>3
<1> QED
  BY <1>5, <1>6, <1>7, <1>8 DEF Take

\* The target took the delivery a forwarder is at.
LEMMA TookOne ==
  ASSUME Agreed, NEW f \in Forwarders, pc[f] = "replay"
  PROVE  /\ at[f] \in DOMAIN batch[f] /\ batch[f][at[f]] \in Ids
         /\ batch[f] \in Seq(Ids) /\ at[f] \in Nat \ {0} /\ at[f] <= Len(batch[f])
         /\ Handled(f) = {batch[f][i] : i \in 1..(at[f] - 1)}
         /\ Rest(f) = {batch[f][i] : i \in at[f]..Len(batch[f])}
         /\ ~answer[f].some /\ \A c \in calls : c.who # f
<1>1. Types /\ InBatch(f)
  BY DEF Agreed
<1>2. /\ at[f] \in DOMAIN batch[f] /\ batch[f] \in Seq(Ids) /\ ~answer[f].some
  BY <1>1 DEF InBatch, Types
<1>3. \A c \in calls : c.who # f
  BY DEF Agreed, Asked
<1> QED
  BY <1>1, <1>2, <1>3, PartsOfBatch

LEMMA ForwardedAgreed ==
  ASSUME ForwarderAssumption, Agreed, NEW f \in Forwarders, Forwarded(f)
  PROVE  Agreed'
<1> DEFINE to == IF at[f] = Len(batch[f]) THEN "ack" ELSE "replay"
<1>1. /\ pc[f] = "replay" /\ pc' = [pc EXCEPT ![f] = to]
      /\ took' = [took EXCEPT ![batch[f][at[f]]] = @ + 1]
      /\ at' = [at EXCEPT ![f] = @ + 1]
      /\ UNCHANGED <<store, batch, calls, answer, fails, faults>>
  BY DEF Forwarded, Go, net
<1>2. Types /\ InBatch(f) /\ Passed(f)
  BY DEF Agreed
<1>3. /\ at[f] \in DOMAIN batch[f] /\ batch[f][at[f]] \in Ids /\ batch[f] \in Seq(Ids)
      /\ at[f] \in Nat \ {0} /\ at[f] <= Len(batch[f]) /\ Len(batch[f]) <= Limit
      /\ ~answer[f].some /\ \A c \in calls : c.who # f
  BY <1>1, <1>2, TookOne DEF InBatch, Batch
<1>4. /\ pc'[f] = to /\ at'[f] = at[f] + 1 /\ took'[batch[f][at[f]]] = took[batch[f][at[f]]] + 1
      /\ \A d \in Ids : took'[d] >= took[d]
  BY <1>1, <1>2, <1>3 DEF Types
<1>5. Types'
  BY <1>1, <1>2, <1>3 DEF Types
<1>6. InBatch(f)'
  <2>1. PICK b \in Seq(Ids) : b = batch[f] /\ batch'[f] = b
    BY <1>1, <1>3
  <2>2. Batch(b)' /\ Batch(<<>>)'
    <3>1. Batch(b) /\ Batch(<<>>)
      BY <1>2, <2>1 DEF InBatch, Batch, ForwarderAssumption
    <3> QED
      BY <1>1, <3>1, BatchStays
  <2>3. answer'[f].items = <<>> /\ ~answer'[f].some
    BY <1>1, <1>2, <1>3 DEF InBatch
  <2>4. /\ to = "replay" => at[f] + 1 \in DOMAIN b
        /\ to = "ack" => at[f] + 1 = Len(b) + 1
        /\ at[f] + 1 <= Limit + 1
    BY <1>3, <2>1 DEF ForwarderAssumption
  <2> QED
    BY <1>4, <2>1, <2>2, <2>3, <2>4 DEF InBatch
<1>7. Passed(f)'
  <2>1. ToSet(SubSeq(batch[f], 1, at[f])) = {batch[f][i] : i \in 1..at[f]}
    <3>1. batch[f] \in Seq(Ids) /\ at[f] \in Nat /\ at[f] <= Len(batch[f]) /\ 1 \in Nat \ {0}
      BY <1>3
    <3> QED
      BY <3>1, PartOfSequence, Zenon
  <2>2. Handled(f)' = {batch[f][i] : i \in 1..at[f]}
    BY <1>1, <1>3, <1>4, <2>1 DEF Handled
  <2>3. Handled(f) = {batch[f][i] : i \in 1..(at[f] - 1)}
    BY <1>1, TookOne
  <2>4. \A i \in 1..at[f] : i \in 1..(at[f] - 1) \/ i = at[f]
    BY <1>3
  <2>5. \A i \in 1..at[f] : batch[f][i] \in Ids /\ took'[batch[f][i]] > 0
    <3> SUFFICES ASSUME NEW i \in 1..at[f]
                 PROVE  batch[f][i] \in Ids /\ took'[batch[f][i]] > 0
      OBVIOUS
    <3>1. batch[f][i] \in Ids
      BY <1>3
    <3>2. CASE i = at[f]
      BY <1>3, <1>4, <3>2 DEF Agreed, Types
    <3>3. CASE i \in 1..(at[f] - 1)
      <4>1. took[batch[f][i]] > 0
        BY <1>1, <1>2, <2>3, <3>3 DEF Passed
      <4> QED
        BY <1>4, <1>5, <3>1, <4>1 DEF Agreed, Types
    <3> QED
      BY <2>4, <3>1, <3>2, <3>3
  <2>6. ~answer'[f].some
    BY <1>1, <1>3
  <2> QED
    BY <2>2, <2>5, <2>6 DEF Passed
<1>8. /\ \A g \in Forwarders \ {f} : Still(g)
      /\ \A c \in calls' : c \in calls /\ c.who # f
  BY <1>1, <1>2, <1>3 DEF Still, Types
<1> QED
  BY <1>1, <1>4, <1>5, <1>6, <1>7, <1>8, MovedAlone

LEMMA RefusedAgreed ==
  ASSUME ForwarderAssumption, Agreed, NEW f \in Forwarders, Refused(f)
  PROVE  Agreed'
<1> DEFINE to == IF at[f] = 1 THEN "release" ELSE "failack"
<1>1. /\ pc[f] = "replay" /\ pc' = [pc EXCEPT ![f] = to]
      /\ UNCHANGED <<store, batch, at, calls, answer>>
  BY DEF Refused, Failure, Go, net
<1>2. Types /\ InBatch(f) /\ Passed(f)
  BY DEF Agreed
<1>3. /\ batch[f][at[f]] \in Ids /\ ~answer[f].some /\ \A c \in calls : c.who # f
  BY <1>1, TookOne
<1>4. /\ took' \in [Ids -> Nat] /\ fails' \in Nat /\ faults' \in Nat
      /\ \A d \in Ids : took'[d] >= took[d]
  <2>1. CASE fails' = fails + 1 /\ UNCHANGED <<took, faults>>
    BY <1>2, <2>1 DEF Types
  <2>2. CASE /\ faults' = faults + 1 /\ UNCHANGED fails
             /\ took' = [took EXCEPT ![batch[f][at[f]]] = @ + 1]
    BY <1>2, <1>3, <2>2 DEF Types
  <2> QED
    BY <2>1, <2>2 DEF Refused
<1>5. Types' /\ pc'[f] = to
  BY <1>1, <1>2, <1>4 DEF Types
<1>6. InBatch(f)'
  <2>1. PICK b : b = batch[f] /\ batch'[f] = b /\ Batch(b)
    BY <1>1, <1>2 DEF InBatch
  <2>2. Batch(b)' /\ Batch(<<>>)'
    <3>1. Batch(<<>>)
      BY DEF Batch, ForwarderAssumption
    <3> QED
      BY <1>1, <2>1, <3>1, BatchStays
  <2>3. answer'[f].items = <<>> /\ ~answer'[f].some
    BY <1>1, <1>2, <1>3 DEF InBatch
  <2> QED
    BY <1>1, <1>2, <1>5, <2>1, <2>2, <2>3 DEF InBatch
<1>7. Passed(f)'
  <2>1. Handled(f)' = Handled(f) /\ Handled(f) \subseteq Ids
    BY <1>1, <1>2, PartsOfBatch DEF Handled
  <2>2. \A d \in Handled(f) : took[d] > 0
    BY <1>1, <1>2 DEF Passed
  <2>3. \A d \in Handled(f) : took'[d] > 0
    BY <1>2, <1>4, <2>1, <2>2 DEF Types
  <2> QED
    BY <1>1, <1>3, <2>1, <2>3 DEF Passed
<1>8. /\ \A g \in Forwarders \ {f} : Still(g)
      /\ \A c \in calls' : c \in calls /\ c.who # f
  BY <1>1, <1>2, <1>3 DEF Still, Types
<1> QED
  BY <1>1, <1>4, <1>5, <1>6, <1>7, <1>8, MovedAlone

\* Calls that nobody waits for any more are carried out as they were made.
LEMMA OrphanedCalls ==
  ASSUME ForwarderAssumption, Agreed, NEW f \in Forwarders, Orphan(f), UNCHANGED <<store, took>>
  PROVE  /\ calls' \subseteq Calls /\ answer'[f] = NoAnswer
         /\ answer' \in [Forwarders -> [some : BOOLEAN, items : Seq(Ids)]]
         /\ \A c \in calls' : \/ c \in calls /\ c.who # f
                              \/ /\ Asked(c)' /\ AcksTaken(c)' /\ c.who = "nobody"
                                 /\ \E e \in calls : e.who = f /\ c.op = e.op /\ c.ids = e.ids
         /\ \A g \in Forwarders \ {f} : answer'[g] = answer[g]
<1>1. /\ calls' = {IF c.who = f THEN [c EXCEPT !.who = "nobody"] ELSE c : c \in calls}
      /\ answer' = [answer EXCEPT ![f] = NoAnswer]
  BY DEF Orphan
<1>2. Types /\ NoAnswer \in [some : BOOLEAN, items : Seq(Ids)]
  BY DEF Agreed, NoAnswer
<1>3. ASSUME NEW e \in calls, e.who = f, NEW c, c = [e EXCEPT !.who = "nobody"]
      PROVE  /\ c \in Calls /\ c.who = "nobody" /\ c.op = e.op /\ c.ids = e.ids
             /\ Asked(c)' /\ AcksTaken(c)'
  <2>1. e \in Calls /\ Asked(e) /\ AcksTaken(e)
    BY <1>2 DEF Types, Agreed
  <2>2. c \in Calls /\ c.who = "nobody" /\ c.op = e.op /\ c.ids = e.ids
    BY <1>3, <2>1 DEF Calls
  <2> QED
    BY <2>1, <2>2 DEF Asked, AcksTaken, ForwarderAssumption
<1>4. ASSUME NEW c \in calls'
      PROVE  /\ c \in Calls
             /\ \/ c \in calls /\ c.who # f
                \/ /\ Asked(c)' /\ AcksTaken(c)' /\ c.who = "nobody"
                   /\ \E e \in calls : e.who = f /\ c.op = e.op /\ c.ids = e.ids
  <2>1. PICK e \in calls : c = IF e.who = f THEN [e EXCEPT !.who = "nobody"] ELSE e
    BY <1>1
  <2>2. CASE e.who = f
    BY <1>3, <2>1, <2>2
  <2>3. CASE e.who # f
    BY <1>2, <2>1, <2>3 DEF Types
  <2> QED
    BY <2>2, <2>3
<1> QED
  BY <1>1, <1>2, <1>4 DEF Types

LEMMA BreakAgreed ==
  ASSUME ForwarderAssumption, Agreed, NEW f \in Forwarders, Break(f) \/ Crash(f)
  PROVE  Agreed'
<1>1. Orphan(f) /\ UNCHANGED <<store, took, fails>> /\ faults' = faults + 1
  BY DEF Break, Crash
<1>2. Types /\ InBatch(f) /\ Passed(f)
  BY DEF Agreed
<1>3. ASSUME NEW b \in Seq(Ids), NEW i \in Nat, NEW to \in {"down", "release"},
             batch' = [batch EXCEPT ![f] = b], at' = [at EXCEPT ![f] = i],
             pc' = [pc EXCEPT ![f] = to], InBatch(f)' /\ Passed(f)'
      PROVE  Agreed'
  <2>1. Types' /\ \A d \in Ids : took'[d] >= took[d]
    BY <1>1, <1>2, <1>3, OrphanedCalls DEF Types
  <2>2. \A g \in Forwarders \ {f} : Still(g)
    BY <1>1, <1>2, <1>3, OrphanedCalls DEF Types, Still
  <2>3. \A c \in calls' : (c \in calls /\ c.who # f) \/ (Asked(c)' /\ AcksTaken(c)')
    BY <1>1, OrphanedCalls
  <2> QED
    BY <1>1, <1>3, <2>1, <2>2, <2>3, MovedAlone
<1>4. CASE Exit(f)
  <2>1. /\ batch' = [batch EXCEPT ![f] = <<>>] /\ at' = [at EXCEPT ![f] = 0]
        /\ pc' = [pc EXCEPT ![f] = "down"]
    BY <1>4 DEF Exit, Go
  <2>2. batch'[f] = <<>> /\ at'[f] = 0 /\ pc'[f] = "down" /\ <<>> \in Seq(Ids)
    BY <1>2, <2>1 DEF Types
  <2>3. InBatch(f)' /\ Passed(f)'
    BY <1>1, <2>2, OrphanedCalls, Ended DEF ForwarderAssumption
  <2> QED
    BY <1>3, <2>1, <2>2, <2>3
<1>5. CASE pc[f] = "failack" /\ pc' = [pc EXCEPT ![f] = "release"] /\ UNCHANGED <<batch, at>>
  <2>1. /\ batch' = [batch EXCEPT ![f] = batch[f]] /\ at' = [at EXCEPT ![f] = at[f]]
        /\ pc'[f] = "release" /\ batch[f] \in Seq(Ids) /\ at[f] \in Nat
        /\ answer'[f] = NoAnswer
    BY <1>1, <1>2, <1>5, OrphanedCalls DEF Types
  <2>2. PICK b : b = batch[f] /\ batch'[f] = b /\ Batch(b)
    BY <1>2, <1>5 DEF InBatch
  <2>3. Batch(b)' /\ Batch(<<>>)'
    <3>1. Batch(<<>>)
      BY DEF Batch, ForwarderAssumption
    <3> QED
      BY <1>1, <2>2, <3>1, BatchStays
  <2>4. InBatch(f)'
    BY <1>2, <1>5, <2>1, <2>2, <2>3 DEF InBatch, NoAnswer
  <2>5. Passed(f)'
    BY <1>1, <1>2, <1>5, <2>1 DEF Passed, Handled, NoAnswer
  <2> QED
    BY <1>3, <1>5, <2>1, <2>4, <2>5
<1> QED
  BY <1>4, <1>5 DEF Break, Crash, Go

LEMMA VanishAgreed ==
  ASSUME Agreed, NEW c \in calls, Vanish(c)
  PROVE  Agreed'
<1>1. calls' = calls \ {c} /\ UNCHANGED <<store, took, pc, batch, at, answer, fails, faults>>
  BY DEF Vanish, work
<1>2. Types' /\ Onward /\ AckedWasTaken'
  BY <1>1 DEF Agreed, Types, Onward, AckedWasTaken
<1> DEFINE F == {}
<1>3. /\ F \in SUBSET Forwarders /\ \A g \in Forwarders \ F : Still(g)
      /\ \A f \in F : InBatch(f)' /\ Passed(f)'
      /\ \A e \in calls' : e \in calls /\ e.who \notin F
  BY <1>1 DEF Still
<1> HIDE DEF F
<1> QED
  BY <1>2, <1>3, Moved

\* The answer to a call goes to the forwarder that waits for it, if any.
LEMMA Answered ==
  ASSUME Agreed, NEW c \in calls, calls' = calls \ {c},
         NEW items \in Seq(Ids), Batch(items)', Onward, AckedWasTaken',
         store' \in [Ids -> {"none", "open", "ready", "leased", "gone"}],
         answer' = [f \in Forwarders |-> IF f = c.who THEN [some |-> TRUE, items |-> items]
                                                       ELSE answer[f]],
         UNCHANGED <<took, pc, batch, at, fails, faults>>,
         c.op = "ack" => \A d \in c.ids : store'[d] = "gone"
  PROVE  Agreed'
<1>1. Types /\ [some |-> TRUE, items |-> items] \in [some : BOOLEAN, items : Seq(Ids)]
  BY DEF Agreed
<1>2. Types'
  <2>1. calls' \subseteq Calls
    BY <1>1 DEF Types
  <2>2. answer' \in [Forwarders -> [some : BOOLEAN, items : Seq(Ids)]]
    BY <1>1 DEF Types
  <2> QED
    BY <1>1, <2>1, <2>2 DEF Types
<1> DEFINE F == Forwarders \cap {c.who}
<1>3. F \in SUBSET Forwarders /\ \A g \in Forwarders \ F : Still(g)
  BY DEF Still
<1>4. ASSUME NEW f \in F PROVE InBatch(f)' /\ Passed(f)'
  <2>1. /\ f \in Forwarders /\ f = c.who /\ InBatch(f) /\ Passed(f) /\ Asked(c)
        /\ answer'[f] = [some |-> TRUE, items |-> items]
    BY <1>4 DEF Agreed
  <2>2. pc[f] \notin {"down", "replay"} /\ answer'[f].some /\ answer'[f].items = items
    BY <2>1 DEF Asked
  <2>3. Batch(batch[f])'
    BY <1>1, <2>1 DEF InBatch, Batch, Onward, Types
  <2>4. InBatch(f)'
    BY <2>1, <2>2, <2>3 DEF InBatch
  <2>5. Handled(f)' = Handled(f)
    BY DEF Handled
  <2>6. pc[f] \in {"ack", "failack"} => \A d \in Handled(f) : store'[d] = "gone"
    BY <2>1 DEF Asked
  <2> QED
    BY <2>1, <2>4, <2>5, <2>6 DEF Passed
<1>5. \A e \in calls' : e \in calls /\ e.who \notin F
  BY OneCall
<1> HIDE DEF F
<1> QED
  BY <1>2, <1>3, <1>4, <1>5, Moved

LEMMA ServeAgreed ==
  ASSUME ForwarderAssumption, Agreed, NEW c \in calls, Serve(c)
  PROVE  Agreed'
<1>1. calls' = calls \ {c} /\ UNCHANGED <<took, pc, batch, at, fails, faults>>
  BY DEF Serve, work
<1>2. Types /\ AckedWasTaken /\ Asked(c) /\ AcksTaken(c) /\ c \in Calls
  BY DEF Agreed, Types
<1>3. CASE ServeClaim(c)
  <2>1. PICK items \in SetToSeqs(Oldest) :
          answer' = [f \in Forwarders |-> IF f = c.who THEN [some |-> TRUE, items |-> items]
                                                        ELSE answer[f]]
    BY <1>3 DEF ServeClaim
  <2>2. Oldest \subseteq Ids /\ IsFiniteSet(Oldest) /\ Cardinality(Oldest) <= Limit
        /\ Cardinality(Oldest) \in Nat
    BY OldestFit, FS_CardinalityType
  <2>3. /\ items \in [1..Cardinality(Oldest) -> Oldest]
        /\ \A i, j \in 1..Cardinality(Oldest) : i # j => items[i] # items[j]
    BY <2>1 DEF SetToSeqs
  <2>4. /\ items \in Seq(Ids) /\ Len(items) = Cardinality(Oldest)
        /\ DOMAIN items = 1..Cardinality(Oldest)
    BY <2>2, <2>3
  <2>5. \A d \in Ids : store'[d] = IF d \in Oldest THEN "leased" ELSE store[d]
    BY <1>3 DEF ServeClaim, Put
  <2>6. store' \in [Ids -> {"none", "open", "ready", "leased", "gone"}]
    BY <1>2, <1>3 DEF ServeClaim, Put, Types
  <2>7. \A d \in Oldest : store[d] = "ready"
    BY DEF Oldest, Ready
  <2>8. Onward /\ AckedWasTaken'
    BY <1>1, <1>2, <2>5, <2>7 DEF Onward, AckedWasTaken, Types
  <2>9. Batch(items)'
    BY <2>2, <2>3, <2>4, <2>5 DEF Batch
  <2> QED
    BY <1>1, <1>3, <2>1, <2>4, <2>6, <2>8, <2>9, Answered DEF ServeClaim
<1>4. CASE ServeIds(c)
  <2> DEFINE to == IF c.op = "ack" THEN "gone" ELSE "ready"
  <2>1. /\ answer' = [f \in Forwarders |-> IF f = c.who THEN [some |-> TRUE, items |-> <<>>]
                                                        ELSE answer[f]]
        /\ \A d \in Ids : store'[d] = IF d \in c.ids /\ store[d] # "gone" THEN to ELSE store[d]
        /\ store' \in [Ids -> {"none", "open", "ready", "leased", "gone"}]
    BY <1>2, <1>4 DEF ServeIds, Put, Stored, Types
  <2>2. c.ids \subseteq Ids /\ \A d \in c.ids : store[d] \notin {"none", "open"}
    BY <1>2 DEF Calls, Asked
  <2>3. Onward
    BY <1>1, <1>2, <2>1, <2>2 DEF Onward, Types
  <2>4. AckedWasTaken'
    BY <1>1, <1>2, <2>1 DEF AckedWasTaken, AcksTaken
  <2>5. c.op = "ack" => \A d \in c.ids : store'[d] = "gone"
    BY <2>1, <2>2
  <2>6. Batch(<<>>)' /\ <<>> \in Seq(Ids)
    BY DEF Batch, ForwarderAssumption
  <2> QED
    BY <1>1, <2>1, <2>3, <2>4, <2>5, <2>6, Answered
<1> QED
  BY <1>3, <1>4 DEF Serve

LEMMA NextAgreed ==
  ASSUME ForwarderAssumption, Agreed, [Next]_vars
  PROVE  Agreed'
<1>1. CASE UNCHANGED vars
  BY <1>1 DEF vars, work, net, Agreed, Types, Calls, AckedWasTaken, InBatch, Batch, Passed,
     Asked, AcksTaken, Handled, Rest
<1>2. CASE \E d \in Ids : Post(d) \/ Accept(d) \/ Lapse(d)
  BY <1>2, PostAgreed
<1>3. ASSUME NEW f \in Forwarders,
             \/ Start(f) \/ Send(f) \/ Take(f) \/ Forwarded(f)
             \/ Refused(f) \/ Break(f) \/ Crash(f)
      PROVE  Agreed'
  BY <1>3, StartAgreed, SendAgreed, TakeAgreed, ForwardedAgreed, RefusedAgreed, BreakAgreed
<1>4. CASE \E c \in calls : Serve(c) \/ Vanish(c)
  BY <1>4, ServeAgreed, VanishAgreed
<1> QED
  BY <1>1, <1>2, <1>3, <1>4 DEF Next

-----------------------------------------------------------------------------
(* The ways a delivery may come to the target *)

LEMMA WaysThere ==
  ASSUME NEW d
  PROVE  /\ Loose(d) => <<"inbox", d>> \in Ways(d)
         /\ \A f \in Forwarders : Owes(f, d) => <<"forwarder", f>> \in Ways(d)
         /\ \A c \in calls : Returns(c, d) => <<"call", c>> \in Ways(d)
BY DEF Ways

LEMMA WaysAfter ==
  ASSUME NEW d, NEW S,
         Loose(d)' => <<"inbox", d>> \in S,
         \A f \in Forwarders : Owes(f, d)' => <<"forwarder", f>> \in S,
         \A c \in calls' : Returns(c, d) => <<"call", c>> \in S
  PROVE  Ways(d)' \subseteq S
<1>1. Ways(d)' = {<<"inbox", d>> : x \in {y \in {d} : Loose(y)'}}
                 \cup {<<"forwarder", f>> : f \in {g \in Forwarders : Owes(g, d)'}}
                 \cup {<<"call", c>> : c \in {e \in calls' : Returns(e, d)}}
  BY DEF Ways, Returns
<1> SUFFICES ASSUME NEW z \in Ways(d)' PROVE z \in S
  OBVIOUS
<1> QED
  BY <1>1

\* A step may move a way, add one for a fault, or use one up.
LEMMA FewAgain ==
  ASSUME Types, Types', NEW d \in Ids, Few(d), faults' >= faults, NEW a, NEW b, NEW e,
         \/ Ways(d)' \subseteq Ways(d) /\ took'[d] = took[d]
         \/ a \in Ways(d) /\ Ways(d)' \subseteq (Ways(d) \ {a}) \cup {b} /\ took'[d] = took[d]
         \/ a \in Ways(d) /\ Ways(d)' \subseteq Ways(d) \ {a} /\ took'[d] = took[d] + 1
         \/ Ways(d)' \subseteq Ways(d) \cup {b} /\ took'[d] = took[d] /\ faults' = faults + 1
         \/ Ways(d)' \subseteq Ways(d) /\ took'[d] = took[d] + 1 /\ faults' = faults + 1
         \/ /\ a \in Ways(d) /\ Ways(d)' \subseteq ((Ways(d) \ {a}) \cup {b}) \cup {e}
            /\ took'[d] = took[d] /\ faults' = faults + 1
  PROVE  Few(d)'
<1>1. PICK S, T : S = Ways(d) /\ T = Ways(d)'
  OBVIOUS
<1>2. IsFiniteSet(S) /\ Cardinality(S) \in Nat /\ (IsFiniteSet(T) => Cardinality(T) \in Nat)
  BY <1>1, FS_CardinalityType DEF Few
<1>3. /\ took[d] \in Nat /\ took'[d] \in Nat /\ faults \in Nat /\ faults' \in Nat
      /\ took[d] + Cardinality(S) <= 1 + faults
  BY <1>1 DEF Types, Few
<1>4. IsFiniteSet(T) /\ took'[d] + Cardinality(T) <= 1 + faults'
  <2>1. CASE T \subseteq S /\ took'[d] = took[d]
    <3>1. IsFiniteSet(T) /\ Cardinality(T) <= Cardinality(S)
      BY <1>2, <2>1, CountSubset
    <3> QED
      BY <1>2, <1>3, <2>1, <3>1
  <2>2. CASE a \in S /\ T \subseteq (S \ {a}) \cup {b} /\ took'[d] = took[d]
    <3>1. IsFiniteSet(T) /\ Cardinality(T) <= Cardinality(S)
      BY <1>2, <2>2, CountMoved
    <3> QED
      BY <1>2, <1>3, <2>2, <3>1
  <2>3. CASE a \in S /\ T \subseteq S \ {a} /\ took'[d] = took[d] + 1
    <3>1. IsFiniteSet(T) /\ Cardinality(T) + 1 <= Cardinality(S)
      BY <1>2, <2>3, CountUsed
    <3> QED
      BY <1>2, <1>3, <2>3, <3>1
  <2>4. CASE T \subseteq S \cup {b} /\ took'[d] = took[d] /\ faults' = faults + 1
    <3>1. IsFiniteSet(T) /\ Cardinality(T) <= Cardinality(S) + 1
      BY <1>2, <2>4, CountAdded
    <3> QED
      BY <1>2, <1>3, <2>4, <3>1
  <2>5. CASE T \subseteq S /\ took'[d] = took[d] + 1 /\ faults' = faults + 1
    <3>1. IsFiniteSet(T) /\ Cardinality(T) <= Cardinality(S)
      BY <1>2, <2>5, CountSubset
    <3> QED
      BY <1>2, <1>3, <2>5, <3>1
  <2>6. CASE /\ a \in S /\ T \subseteq ((S \ {a}) \cup {b}) \cup {e}
             /\ took'[d] = took[d] /\ faults' = faults + 1
    <3>1. IsFiniteSet(T) /\ Cardinality(T) <= Cardinality(S) + 1
      BY <1>2, <2>6, CountMovedAndAdded
    <3> QED
      BY <1>2, <1>3, <2>6, <3>1
  <2> QED
    BY <1>1, <2>1, <2>2, <2>3, <2>4, <2>5, <2>6
<1> QED
  BY <1>1, <1>4 DEF Few

\* A forwarder that stands still owes and holds what it did.
LEMMA StillOwes ==
  ASSUME NEW g, NEW d, Still(g)
  PROVE  Owes(g, d)' = Owes(g, d) /\ Holds(g, d)' = Holds(g, d)
<1>1. Handled(g)' = Handled(g) /\ Rest(g)' = Rest(g)
  BY DEF Still, Handled, Rest
<1>2. Owes(g, d)' = Owes(g, d)
  BY <1>1 DEF Still, Owes
<1> QED
  BY <1>1, <1>2 DEF Still, Holds

LEMMA OthersOwe ==
  ASSUME NEW f \in Forwarders, NEW d, \A g \in Forwarders \ {f} : Still(g),
         Owes(f, d)' => Owes(f, d), Holds(f, d) => Holds(f, d)'
  PROVE  \A g \in Forwarders : /\ Owes(g, d)' => Owes(g, d)
                               /\ Holds(g, d) => Holds(g, d)'
<1>1. \A g \in Forwarders \ {f} : /\ Owes(g, d)' = Owes(g, d)
                                  /\ Holds(g, d)' = Holds(g, d)
  BY StillOwes
<1> QED
  BY <1>1

\* No way is new where nobody owes more, no lease is left behind and no
\* release is.
LEMMA NoNewWay ==
  ASSUME NEW d,
         \A f \in Forwarders : Owes(f, d)' => Owes(f, d),
         Loose(d)' => Loose(d),
         \A c \in calls' : Returns(c, d) => c \in calls
  PROVE  Ways(d)' \subseteq Ways(d)
BY WaysThere, WaysAfter

\* The inbox is the one way that may be new.
LEMMA InboxIsNew ==
  ASSUME NEW d,
         \A f \in Forwarders : Owes(f, d)' => Owes(f, d),
         \A c \in calls' : Returns(c, d) => c \in calls
  PROVE  Ways(d)' \subseteq Ways(d) \cup {<<"inbox", d>>}
<1> DEFINE S == Ways(d) \cup {<<"inbox", d>>}
<1>1. PICK T : T = S
  OBVIOUS
<1>2. /\ <<"inbox", d>> \in T
      /\ \A f \in Forwarders : Owes(f, d)' => <<"forwarder", f>> \in T
      /\ \A c \in calls' : Returns(c, d) => <<"call", c>> \in T
  BY <1>1, WaysThere
<1>3. Ways(d)' \subseteq T
  BY <1>2, WaysAfter
<1> QED
  BY <1>1, <1>3

\* A lease with a holder is not loose.
LEMMA LooseBefore ==
  ASSUME NEW d, store'[d] = store[d], \A f \in Forwarders : Holds(f, d) => Holds(f, d)' \/ store[d] = "gone"
  PROVE  Loose(d)' => Loose(d)
BY DEF Loose

LEMMA PostFew ==
  ASSUME Agreed, Types', FewWays, NEW d \in Ids, Post(d) \/ Accept(d) \/ Lapse(d)
  PROVE  FewWays'
<1>1. /\ UNCHANGED <<took, pc, batch, at, calls, answer>>
      /\ \A e \in Ids : e # d => store'[e] = store[e]
      /\ Types /\ faults' >= faults
  BY DEF Post, Accept, Lapse, Put, work, net, Agreed, Types
<1>2. \A g \in Forwarders : \A e : Owes(g, e)' = Owes(g, e) /\ Holds(g, e)' = Holds(g, e)
  BY <1>1, StillOwes DEF Still
<1>3. ASSUME NEW e \in Ids, e # d PROVE Few(e)'
  <2>1. Loose(e)' => Loose(e)
    BY <1>1, <1>2, <1>3, LooseBefore
  <2>2. Ways(e)' \subseteq Ways(e) /\ Few(e)
    BY <1>1, <1>2, <2>1, NoNewWay DEF FewWays
  <2> QED
    BY <1>1, <2>2, FewAgain
<1>4. Few(d)'
  <2>0. Few(d)
    BY DEF FewWays
  <2>1. CASE Loose(d)
    <3>1. Ways(d)' \subseteq Ways(d)
      BY <1>1, <1>2, <2>1, NoNewWay
    <3> QED
      BY <1>1, <2>0, <3>1, FewAgain
  <2>2. CASE ~Loose(d)
    <3>1. Lapse(d) /\ store[d] = "leased"
      BY <1>1, <2>2 DEF Loose, Post, Accept, Lapse
    <3>2. PICK g \in Forwarders : Holds(g, d)
      BY <2>2, <3>1 DEF Loose
    <3>3. Held(d)
      <4>1. InBatch(g) /\ (pc[g] \in {"replay", "ack", "failack", "release"} =>
               ToSet(batch[g]) = Handled(g) \cup Rest(g))
        BY <1>1, PartsOfBatch DEF Agreed
      <4> QED
        BY <3>2, <4>1 DEF Holds, Owes, Held
    <3>4. faults' = faults + 1
      BY <3>1, <3>3 DEF Lapse
    <3>5. Ways(d)' \subseteq Ways(d) \cup {<<"inbox", d>>}
      BY <1>1, <1>2, InboxIsNew
    <3> QED
      BY <1>1, <2>0, <3>4, <3>5, FewAgain
  <2> QED
    BY <2>1, <2>2
<1> QED
  BY <1>3, <1>4 DEF FewWays

\* The steps of a forwarder that neither fail nor replay move no delivery.
LEMMA QuietFew ==
  ASSUME Agreed, Types', FewWays, NEW f \in Forwarders, UNCHANGED <<store, took, faults>>,
         \A g \in Forwarders \ {f} : Still(g),
         \A c \in calls' : c \in calls \/ c.who \in Forwarders, "nobody" \notin Forwarders,
         \A d \in Ids : Owes(f, d)' => Owes(f, d),
         \A d \in Ids : Holds(f, d) => Holds(f, d)' \/ store[d] = "gone"
  PROVE  FewWays'
<1> SUFFICES ASSUME NEW d \in Ids PROVE Few(d)'
  BY DEF FewWays
<1>1. \A g \in Forwarders : /\ Owes(g, d)' => Owes(g, d)
                            /\ Holds(g, d) => Holds(g, d)' \/ store[d] = "gone"
  BY StillOwes
<1>2. Loose(d)' => Loose(d)
  BY <1>1, LooseBefore
<1>3. \A c \in calls' : Returns(c, d) => c \in calls
  BY DEF Returns
<1>4. Ways(d)' \subseteq Ways(d)
  BY <1>1, <1>2, <1>3, NoNewWay
<1>5. Types /\ Few(d) /\ faults' >= faults /\ took'[d] = took[d]
  BY DEF Agreed, Types, FewWays
<1> QED
  BY <1>4, <1>5, FewAgain

LEMMA StartFew ==
  ASSUME ForwarderAssumption, Agreed, Types', FewWays, NEW f \in Forwarders, Start(f) \/ Send(f)
  PROVE  FewWays'
<1>1. /\ UNCHANGED <<store, took, faults, batch, at, answer>> /\ Types /\ InBatch(f)
      /\ \A c \in calls' : c \in calls \/ c.who = f
  BY DEF Start, Send, Call, net, work, Agreed
<1>2. CASE Start(f)
  <2>1. pc[f] = "down" /\ pc' = [pc EXCEPT ![f] = "claim"] /\ pc'[f] = "claim"
    BY <1>1, <1>2 DEF Start, Go, Types
  <2>2. \A g \in Forwarders \ {f} : Still(g)
    BY <1>1, <2>1 DEF Still, Types
  <2>3. answer'[f].items = <<>>
    BY <1>1, <2>1 DEF InBatch
  <2>4. \A d : ~Owes(f, d)' /\ ~Holds(f, d)
    BY <2>1, <2>3 DEF Owes, Holds, ToSet
  <2> QED
    BY <1>1, <2>2, <2>4, QuietFew DEF ForwarderAssumption
<1>3. CASE Send(f)
  <2>1. \A g \in Forwarders : Still(g)
    BY <1>1, <1>3 DEF Send, work, Still
  <2>2. \A d : Owes(f, d)' = Owes(f, d) /\ Holds(f, d)' = Holds(f, d)
    BY <2>1, StillOwes
  <2> QED
    BY <1>1, <2>1, <2>2, QuietFew DEF ForwarderAssumption
<1> QED
  BY <1>2, <1>3

LEMMA TakeFew ==
  ASSUME ForwarderAssumption, Agreed, Types', FewWays, NEW f \in Forwarders, Take(f)
  PROVE  FewWays'
<1>1. /\ answer[f].some /\ answer' = [answer EXCEPT ![f] = NoAnswer]
      /\ UNCHANGED <<store, took, calls, fails, faults>>
  BY DEF Take
<1>2. /\ Types /\ InBatch(f) /\ Passed(f) /\ answer'[f] = NoAnswer
      /\ answer'[f].items = <<>> /\ ~answer'[f].some
  BY <1>1 DEF Agreed, Types, NoAnswer
<1>3. \A g \in Forwarders \ {f} : Still(g)
  <2>1. \A g \in Forwarders \ {f} : batch'[g] = batch[g] /\ at'[g] = at[g] /\ pc'[g] = pc[g]
    <3>1. CASE pc[f] = "claim"
      BY <1>2, <3>1 DEF Take, Go, Types
    <3>2. CASE pc[f] = "ack"
      BY <1>2, <3>2 DEF Take, Go, Types
    <3>3. CASE pc[f] = "failack"
      BY <1>2, <3>3 DEF Take, Go, Types
    <3>4. CASE pc[f] = "release"
      BY <1>2, <3>4 DEF Take, Exit, Go, Types
    <3> QED
      BY <3>1, <3>2, <3>3, <3>4 DEF Take
  <2>2. \A g \in Forwarders \ {f} : answer'[g] = answer[g]
    BY <1>1, <1>2 DEF Types
  <2> QED
    BY <2>1, <2>2 DEF Still
<1>4. CASE pc[f] = "claim"
  <2>0. PICK b \in Seq(Ids) : b = answer[f].items
    BY <1>2 DEF Types
  <2>1. /\ batch'[f] = b /\ at'[f] = 1
        /\ pc'[f] = IF b = <<>> THEN "claim" ELSE "replay"
    BY <1>2, <1>4, <2>0 DEF Take, Go, Types
  <2>2. \A d : Owes(f, d) <=> d \in ToSet(b)
    BY <1>4, <2>0 DEF Owes
  <2>3. CASE b = <<>>
    <3>1. \A d : ~Owes(f, d)' /\ ~Holds(f, d)
      <4>1. ToSet(<<>>) = {} /\ pc'[f] = "claim"
        BY <2>1, <2>3 DEF ToSet
      <4>2. \A d : ~Owes(f, d)
        BY <2>2, <2>3, <4>1
      <4>3. \A d : ~Owes(f, d)'
        BY <1>2, <4>1 DEF Owes
      <4> QED
        BY <1>4, <4>2, <4>3 DEF Holds
    <3> QED
      BY <1>1, <1>2, <1>3, <3>1, QuietFew DEF ForwarderAssumption
  <2>4. CASE b # <<>>
    <3>1. Rest(f)' = ToSet(b)
      <4>1. ToSet(SubSeq(b, 1, Len(b))) = {b[i] : i \in 1..Len(b)}
        BY PartOfSequence
      <4>2. DOMAIN b = 1..Len(b)
        OBVIOUS
      <4> QED
        BY <2>1, <4>1, <4>2 DEF Rest, ToSet
    <3>2. \A d : (Owes(f, d)' <=> d \in ToSet(b)) /\ (Holds(f, d) => Owes(f, d)')
      BY <1>4, <2>1, <2>2, <2>4, <3>1 DEF Owes, Holds
    <3> QED
      BY <1>1, <1>2, <1>3, <2>2, <3>2, QuietFew DEF ForwarderAssumption, Holds
  <2> QED
    BY <2>3, <2>4
<1>5. CASE pc[f] \in {"ack", "failack"}
  <2>1. \A d : Owes(f, d)' => Owes(f, d)
    <3>1. CASE pc[f] = "ack"
      <4>1. pc'[f] = "claim"
        BY <1>2, <3>1 DEF Take, Go, Types
      <4> QED
        BY <1>2, <4>1 DEF Owes, ToSet
    <3>2. CASE pc[f] = "failack"
      <4>1. pc'[f] = "release" /\ Rest(f)' = Rest(f)
        BY <1>2, <3>2 DEF Take, Go, Types, Rest
      <4> QED
        BY <3>2, <4>1 DEF Owes
    <3> QED
      BY <1>5, <3>1, <3>2
  <2>2. \A d \in Handled(f) : store[d] = "gone"
    BY <1>1, <1>2, <1>5 DEF Passed
  <2>3. \A d : Owes(f, d) => Owes(f, d)'
    <3>1. CASE pc[f] = "ack"
      BY <3>1 DEF Owes
    <3>2. CASE pc[f] = "failack"
      <4>1. pc'[f] = "release" /\ Rest(f)' = Rest(f)
        BY <1>2, <3>2 DEF Take, Go, Types, Rest
      <4> QED
        BY <1>2, <3>2, <4>1 DEF Owes
    <3> QED
      BY <1>5, <3>1, <3>2
  <2>4. \A d : Holds(f, d) => Holds(f, d)' \/ store[d] = "gone"
    BY <2>2, <2>3 DEF Holds
  <2> QED
    BY <1>1, <1>2, <1>3, <2>1, <2>4, QuietFew DEF ForwarderAssumption
<1>6. CASE pc[f] = "release"
  <2>1. pc'[f] = "down"
    BY <1>2, <1>6 DEF Take, Exit, Go, Types
  <2>2. \A d : ~Owes(f, d)' /\ ~Holds(f, d)
    BY <1>1, <1>6, <2>1 DEF Owes, Holds
  <2> QED
    BY <1>1, <1>2, <1>3, <2>2, QuietFew DEF ForwarderAssumption
<1> QED
  BY <1>4, <1>5, <1>6 DEF Take

\* A replay the target takes uses up the way through its forwarder.
LEMMA ForwardedFew ==
  ASSUME Agreed, Agreed', FewWays, NEW f \in Forwarders, Forwarded(f)
  PROVE  FewWays'
<1> DEFINE to == IF at[f] = Len(batch[f]) THEN "ack" ELSE "replay"
<1>1. /\ pc[f] = "replay" /\ pc' = [pc EXCEPT ![f] = to]
      /\ took' = [took EXCEPT ![batch[f][at[f]]] = @ + 1]
      /\ at' = [at EXCEPT ![f] = @ + 1]
      /\ UNCHANGED <<store, batch, calls, answer, fails, faults>>
  BY DEF Forwarded, Go, net
<1>2. Types /\ Types' /\ InBatch(f) /\ InBatch(f)'
  BY DEF Agreed
<1>3. PICK b \in Seq(Ids), n \in Nat \ {0} :
        /\ b = batch[f] /\ n = at[f] /\ n <= Len(b) /\ b[n] \in Ids
        /\ Rest(f) = {b[i] : i \in n..Len(b)}
        /\ Handled(f) = {b[i] : i \in 1..(n - 1)}
        /\ \A i, j \in 1..Len(b) : b[i] = b[j] => i = j
  <2>1. /\ \A i, j \in DOMAIN batch[f] : batch[f][i] = batch[f][j] => i = j
        /\ DOMAIN batch[f] = 1..Len(batch[f])
    BY <1>2 DEF InBatch, Batch, Types
  <2> QED
    BY <1>1, <2>1, TookOne
<1>4. batch'[f] = b /\ at'[f] = n + 1 /\ pc'[f] = to
  BY <1>1, <1>2, <1>3 DEF Types
<1>5. /\ Rest(f)' = {b[i] : i \in (n + 1)..Len(b)}
      /\ Handled(f)' = {b[i] : i \in 1..n}
  <2>1. /\ ToSet(SubSeq(b, 1, n)) = {b[i] : i \in 1..n}
        /\ ToSet(SubSeq(b, n + 1, Len(b))) = {b[i] : i \in (n + 1)..Len(b)}
    <3>1. n \in Nat /\ 1 \in Nat \ {0} /\ n + 1 \in Nat \ {0} /\ Len(b) \in Nat /\ Len(b) <= Len(b)
      OBVIOUS
    <3> QED
      BY <1>3, <3>1, PartOfSequence
  <2> QED
    BY <1>3, <1>4, <2>1 DEF Rest, Handled
<1>6. /\ \A d \in Rest(f)' : d \in Rest(f) /\ d # b[n]
      /\ \A d \in Rest(f) : d \in Rest(f)' \/ d \in Handled(f)'
      /\ Handled(f) \subseteq Handled(f)' /\ b[n] \in Rest(f)
  <2>1. /\ \A i \in (n + 1)..Len(b) : i \in n..Len(b) /\ b[i] # b[n]
        /\ \A i \in n..Len(b) : i \in (n + 1)..Len(b) \/ i \in 1..n
        /\ \A i \in 1..(n - 1) : i \in 1..n
        /\ n \in n..Len(b)
    BY <1>3
  <2> QED
    BY <1>3, <1>5, <2>1
<1> SUFFICES ASSUME NEW d \in Ids PROVE Few(d)'
  BY DEF FewWays
<1>7. /\ Owes(f, d)' => Owes(f, d) /\ d # b[n]
      /\ Holds(f, d) => Holds(f, d)'
  <2>1. CASE to = "replay"
    BY <1>1, <1>4, <1>6, <2>1 DEF Owes, Holds
  <2>2. CASE to = "ack"
    <3>1. Rest(f)' = {}
      <4>1. n = Len(b)
        BY <1>3, <2>2
      <4> QED
        BY <1>3, <1>5, <4>1
    <3> QED
      BY <1>1, <1>4, <1>6, <2>2, <3>1 DEF Owes, Holds
  <2> QED
    BY <2>1, <2>2
<1>8. \A g \in Forwarders \ {f} : Still(g)
  BY <1>1, <1>2 DEF Still, Types
<1>9. /\ \A g \in Forwarders : /\ Owes(g, d)' => Owes(g, d)
                               /\ Holds(g, d) => Holds(g, d)'
      /\ Loose(d)' => Loose(d)
  <2>1. \A g \in Forwarders : /\ Owes(g, d)' => Owes(g, d)
                              /\ Holds(g, d) => Holds(g, d)'
    BY <1>7, <1>8, OthersOwe
  <2> QED
    BY <1>1, <2>1, LooseBefore
<1>10. Few(d) /\ faults' >= faults
  BY <1>1, <1>2 DEF FewWays, Types
<1>11. CASE d # b[n]
  <2>1. took'[d] = took[d]
    BY <1>1, <1>2, <1>3, <1>11 DEF Types
  <2>2. Ways(d)' \subseteq Ways(d)
    BY <1>1, <1>9, NoNewWay
  <2> QED
    BY <1>2, <1>10, <2>1, <2>2, FewAgain
<1>12. CASE d = b[n]
  <2>1. took'[d] = took[d] + 1
    BY <1>1, <1>2, <1>3, <1>12 DEF Types
  <2>2. Owes(f, d) /\ ~Owes(f, d)'
    BY <1>1, <1>6, <1>7, <1>12 DEF Owes
  <2>3. <<"forwarder", f>> \in Ways(d)
    BY <2>2, WaysThere
  <2>4. Ways(d)' \subseteq Ways(d) \ {<<"forwarder", f>>}
    <3>1. PICK S : S = Ways(d) \ {<<"forwarder", f>>}
      OBVIOUS
    <3>2. /\ Loose(d)' => <<"inbox", d>> \in S
          /\ \A g \in Forwarders : Owes(g, d)' => <<"forwarder", g>> \in S
          /\ \A c \in calls' : Returns(c, d) => <<"call", c>> \in S
      BY <1>1, <1>9, <2>2, <3>1, WaysThere
    <3> QED
      BY <3>1, <3>2, WaysAfter
  <2> QED
    BY <1>2, <1>10, <2>1, <2>3, <2>4, FewAgain
<1> QED
  BY <1>11, <1>12

LEMMA RefusedFew ==
  ASSUME Agreed, Agreed', FewWays, NEW f \in Forwarders, Refused(f)
  PROVE  FewWays'
<1> DEFINE to == IF at[f] = 1 THEN "release" ELSE "failack"
<1>1. /\ pc[f] = "replay" /\ pc' = [pc EXCEPT ![f] = to]
      /\ UNCHANGED <<store, batch, at, calls, answer>>
  BY DEF Refused, Failure, Go, net
<1>2. /\ Types /\ Types' /\ pc'[f] = to /\ at[f] \in Nat \ {0}
      /\ batch[f][at[f]] \in Ids /\ batch[f][at[f]] \in Rest(f)
      /\ Handled(f) = {batch[f][i] : i \in 1..(at[f] - 1)}
      /\ ~answer[f].some /\ Rest(f)' = Rest(f) /\ Handled(f)' = Handled(f)
  <2>1. at[f] \in at[f]..Len(batch[f])
    BY <1>1, TookOne
  <2>2. /\ Types /\ Types' /\ pc'[f] = to /\ at[f] \in Nat \ {0} /\ ~answer[f].some
        /\ batch[f][at[f]] \in Ids
        /\ Handled(f) = {batch[f][i] : i \in 1..(at[f] - 1)}
    BY <1>1, TookOne DEF Agreed, Types
  <2>3. batch[f][at[f]] \in Rest(f)
    BY <1>1, <2>1, TookOne
  <2>4. Rest(f)' = Rest(f) /\ Handled(f)' = Handled(f)
    BY <1>1 DEF Rest, Handled
  <2> QED
    BY <2>2, <2>3, <2>4
<1> SUFFICES ASSUME NEW d \in Ids PROVE Few(d)'
  BY DEF FewWays
<1>3. (Owes(f, d)' => Owes(f, d)) /\ (Holds(f, d) => Holds(f, d)')
  <2>1. CASE to = "failack"
    BY <1>1, <1>2, <2>1 DEF Owes, Holds
  <2>2. CASE to = "release"
    <3>1. Handled(f) = {}
      <4>1. at[f] = 1
        BY <2>2
      <4> QED
        BY <1>2, <4>1
    <3> QED
      BY <1>1, <1>2, <2>2, <3>1 DEF Owes, Holds
  <2> QED
    BY <2>1, <2>2
<1>4. \A g \in Forwarders \ {f} : Still(g)
  BY <1>1, <1>2 DEF Still, Types
<1>5. Ways(d)' \subseteq Ways(d)
  <2>1. \A g \in Forwarders : /\ Owes(g, d)' => Owes(g, d)
                              /\ Holds(g, d) => Holds(g, d)'
    BY <1>3, <1>4, OthersOwe
  <2>2. Loose(d)' => Loose(d)
    BY <1>1, <2>1, LooseBefore
  <2> QED
    BY <1>1, <2>1, <2>2, NoNewWay
<1>6. Few(d)
  BY DEF FewWays
<1>7. CASE UNCHANGED <<took, faults>>
  <2>1. Types /\ Types' /\ faults' >= faults /\ took'[d] = took[d]
    BY <1>2, <1>7 DEF Types
  <2> QED
    BY <1>5, <1>6, <2>1, FewAgain
<1>8. CASE faults' = faults + 1 /\ took' = [took EXCEPT ![batch[f][at[f]]] = @ + 1]
  <2>1. faults' >= faults
    BY <1>2, <1>8 DEF Types
  <2>2. CASE d = batch[f][at[f]]
    <3>1. took'[d] = took[d] + 1
      BY <1>2, <1>8, <2>2 DEF Types
    <3>2. Types /\ Types' /\ faults' = faults + 1
      BY <1>2, <1>8
    <3> QED
      BY <1>5, <1>6, <2>1, <3>1, <3>2, FewAgain
  <2>3. CASE d # batch[f][at[f]]
    <3>1. took'[d] = took[d]
      BY <1>2, <1>8, <2>3 DEF Types
    <3> QED
      BY <1>2, <1>5, <1>6, <2>1, <3>1, FewAgain
  <2> QED
    BY <2>2, <2>3
<1> QED
  BY <1>7, <1>8 DEF Refused

\* A fault may leave a lease behind, and turn what a forwarder was about to
\* give back into a release that nobody waits for.
LEMMA BreakFew ==
  ASSUME ForwarderAssumption, Agreed, Agreed', FewWays,
         NEW f \in Forwarders, Break(f) \/ Crash(f)
  PROVE  FewWays'
<1>1. Orphan(f) /\ UNCHANGED <<store, took>> /\ faults' = faults + 1
  BY DEF Break, Crash
<1>2. Types /\ Types' /\ answer'[f] = NoAnswer
  BY <1>1, OrphanedCalls DEF Agreed
<1>3. \A g \in Forwarders \ {f} : Still(g)
  <2>1. \A g \in Forwarders \ {f} : answer'[g] = answer[g]
    BY <1>1, OrphanedCalls
  <2>2. CASE Exit(f)
    BY <1>2, <2>1, <2>2 DEF Exit, Go, Types, Still
  <2>3. CASE Go(f, "release") /\ UNCHANGED <<batch, at>>
    BY <1>2, <2>1, <2>3 DEF Go, Types, Still
  <2> QED
    BY <2>2, <2>3 DEF Break, Crash
<1> SUFFICES ASSUME NEW d \in Ids PROVE Few(d)'
  BY DEF FewWays
<1>4. /\ Owes(f, d)' => Owes(f, d)
      /\ pc[f] = "release" => ~Owes(f, d)'
  <2>1. CASE Exit(f)
    <3>1. pc'[f] = "down"
      BY <1>2, <2>1 DEF Exit, Go, Types
    <3> QED
      BY <3>1 DEF Owes
  <2>2. CASE pc[f] = "failack" /\ Go(f, "release") /\ UNCHANGED <<batch, at>>
    <3>1. pc'[f] = "release" /\ Rest(f)' = Rest(f)
      BY <1>2, <2>2 DEF Go, Types, Rest
    <3> QED
      BY <2>2, <3>1 DEF Owes
  <2> QED
    BY <2>1, <2>2 DEF Break, Crash
<1>5. \A g \in Forwarders : Owes(g, d)' => Owes(g, d)
  <2>1. \A g \in Forwarders \ {f} : Owes(g, d)' = Owes(g, d)
    BY <1>3, StillOwes
  <2>2. Owes(f, d)' => Owes(f, d)
    BY <1>4
  <2> QED
    BY <2>1, <2>2
<1>6. Few(d) /\ faults' >= faults /\ took'[d] = took[d]
  BY <1>1, <1>2 DEF FewWays, Types
<1>7. CASE \A c \in calls' : Returns(c, d) => c \in calls
  <2>1. Ways(d)' \subseteq Ways(d) \cup {<<"inbox", d>>}
    BY <1>5, <1>7, InboxIsNew
  <2> QED
    BY <1>1, <1>2, <1>6, <2>1, FewAgain
<1>8. CASE \E c \in calls' : Returns(c, d) /\ c \notin calls
  <2>1. PICK c \in calls' : Returns(c, d) /\ c \notin calls
    BY <1>8
  <2>2. PICK e \in calls : e.who = f /\ c.op = e.op /\ c.ids = e.ids
    BY <1>1, <2>1, OrphanedCalls
  <2>3. pc[f] = "release" /\ ~answer[f].some /\ d \in Rest(f)
    BY <2>1, <2>2 DEF Agreed, Asked, Returns
  <2>4. Owes(f, d) /\ ~Owes(f, d)'
    BY <1>4, <2>3 DEF Owes
  <2>5. \A x \in calls' : Returns(x, d) => x \in calls \/ x = c
    <3> SUFFICES ASSUME NEW x \in calls', Returns(x, d), x \notin calls
                 PROVE  x = c
      OBVIOUS
    <3>1. PICK y \in calls : y.who = f /\ x.op = y.op /\ x.ids = y.ids
      BY <1>1, OrphanedCalls
    <3>2. y = e
      BY <2>2, <3>1, OneCall
    <3>3. x.who = c.who /\ x.op = c.op /\ x.ids = c.ids
      BY <2>1, <2>2, <3>1, <3>2 DEF Returns
    <3>4. x \in Calls /\ c \in Calls
      BY <1>2, <2>1 DEF Types
    <3> QED
      BY <3>3, <3>4 DEF Calls
  <2>6. Ways(d)' \subseteq ((Ways(d) \ {<<"forwarder", f>>}) \cup {<<"call", c>>}) \cup {<<"inbox", d>>}
    <3>1. PICK S : S = ((Ways(d) \ {<<"forwarder", f>>}) \cup {<<"call", c>>}) \cup {<<"inbox", d>>}
      OBVIOUS
    <3>2. <<"inbox", d>> \in S
      BY <3>1
    <3>3. \A g \in Forwarders : Owes(g, d)' => <<"forwarder", g>> \in S
      BY <1>5, <2>4, <3>1, WaysThere
    <3>4. \A x \in calls' : Returns(x, d) => <<"call", x>> \in S
      BY <2>5, <3>1, WaysThere
    <3> QED
      BY <3>1, <3>2, <3>3, <3>4, WaysAfter
  <2>7. <<"forwarder", f>> \in Ways(d)
    BY <2>4, WaysThere
  <2> QED
    BY <1>1, <1>2, <1>6, <2>6, <2>7, FewAgain
<1> QED
  BY <1>7, <1>8

LEMMA VanishFew ==
  ASSUME Agreed, Types', FewWays, NEW c \in calls, Vanish(c)
  PROVE  FewWays'
<1>1. /\ calls' = calls \ {c} /\ UNCHANGED <<store, took, pc, batch, at, answer, faults>>
      /\ Types /\ \A g \in Forwarders : Still(g)
  BY DEF Vanish, work, Agreed, Still
<1> SUFFICES ASSUME NEW d \in Ids PROVE Few(d)'
  BY DEF FewWays
<1>2. \A g \in Forwarders : Owes(g, d)' = Owes(g, d) /\ Holds(g, d)' = Holds(g, d)
  BY <1>1, StillOwes
<1>3. Loose(d)' => Loose(d)
  BY <1>1, <1>2, LooseBefore
<1>4. Ways(d)' \subseteq Ways(d)
  BY <1>1, <1>2, <1>3, NoNewWay
<1>5. Few(d) /\ faults' >= faults /\ took'[d] = took[d]
  BY <1>1 DEF FewWays, Types
<1> QED
  BY <1>1, <1>4, <1>5, FewAgain

\* A claim turns the way through the inbox into the one through a forwarder.
LEMMA ClaimFew ==
  ASSUME ForwarderAssumption, Agreed, Types', FewWays, NEW c \in calls,
         Serve(c), ServeClaim(c)
  PROVE  FewWays'
<1>1. calls' = calls \ {c} /\ UNCHANGED <<took, pc, batch, at, fails, faults>>
  BY DEF Serve, work
<1>2. Types /\ Asked(c) /\ c \in Calls /\ c.op = "claim"
  BY DEF Agreed, Types, ServeClaim
<1>3. PICK items \in SetToSeqs(Oldest) :
        answer' = [f \in Forwarders |-> IF f = c.who THEN [some |-> TRUE, items |-> items]
                                                      ELSE answer[f]]
  BY DEF ServeClaim
<1>4. ToSet(items) \subseteq Oldest /\ Oldest \subseteq Ids
  <2>1. items \in [1..Cardinality(Oldest) -> Oldest]
    BY <1>3 DEF SetToSeqs
  <2> QED
    BY <2>1 DEF ToSet, Oldest, Ready
<1>5. /\ \A d \in Ids : store'[d] = IF d \in Oldest THEN "leased" ELSE store[d]
      /\ \A d \in Oldest : store[d] = "ready"
  BY DEF ServeClaim, Put, Oldest, Ready
<1>6. \A g \in Forwarders \ {c.who} : Still(g)
  BY <1>1, <1>3 DEF Still
<1> SUFFICES ASSUME NEW d \in Ids PROVE Few(d)'
  BY DEF FewWays
<1>7. Few(d) /\ faults' >= faults /\ took'[d] = took[d]
  BY <1>1, <1>2 DEF FewWays, Types
<1>8. \A g \in Forwarders \ {c.who} : Owes(g, d)' = Owes(g, d) /\ Holds(g, d)' = Holds(g, d)
  BY <1>6, StillOwes
<1>9. c.who \in Forwarders => /\ pc[c.who] = "claim" /\ pc'[c.who] = "claim"
                              /\ answer'[c.who].items = items
                              /\ answer[c.who].items = <<>>
  BY <1>1, <1>2, <1>3 DEF Asked, Agreed, InBatch
<1>10. c.who \in Forwarders => /\ ~Owes(c.who, d) /\ ~Holds(c.who, d)
                               /\ Owes(c.who, d)' <=> d \in ToSet(items)
                               /\ Holds(c.who, d)' <=> d \in ToSet(items)
  <2> SUFFICES ASSUME c.who \in Forwarders
               PROVE  /\ ~Owes(c.who, d) /\ ~Holds(c.who, d)
                      /\ Owes(c.who, d)' <=> d \in ToSet(items)
                      /\ Holds(c.who, d)' <=> d \in ToSet(items)
    OBVIOUS
  <2>1. d \notin ToSet(<<>>)
    BY DEF ToSet
  <2>2. ~Owes(c.who, d) /\ ~Holds(c.who, d)
    BY <1>9, <2>1 DEF Owes, Holds
  <2>3. Owes(c.who, d)' <=> d \in ToSet(items)
    BY <1>9 DEF Owes
  <2>4. Holds(c.who, d)' <=> Owes(c.who, d)'
    BY <1>9 DEF Holds
  <2> QED
    BY <2>2, <2>3, <2>4
<1>11. Loose(d)' => Loose(d)
  BY <1>5, <1>8, <1>10 DEF Loose
<1>12. CASE c.who \in Forwarders /\ d \in ToSet(items)
  <2>1. Loose(d) /\ ~Loose(d)'
    BY <1>4, <1>5, <1>10, <1>12 DEF Loose
  <2>2. Ways(d)' \subseteq (Ways(d) \ {<<"inbox", d>>}) \cup {<<"forwarder", c.who>>}
    <3>1. PICK S : S = (Ways(d) \ {<<"inbox", d>>}) \cup {<<"forwarder", c.who>>}
      OBVIOUS
    <3>2. /\ \A g \in Forwarders : Owes(g, d)' => <<"forwarder", g>> \in S
          /\ \A e \in calls' : Returns(e, d) => <<"call", e>> \in S
      BY <1>1, <1>8, <3>1, WaysThere
    <3> QED
      BY <2>1, <3>1, <3>2, WaysAfter
  <2>3. <<"inbox", d>> \in Ways(d)
    BY <2>1, WaysThere
  <2> QED
    BY <1>2, <1>7, <2>2, <2>3, FewAgain
<1>13. CASE ~(c.who \in Forwarders /\ d \in ToSet(items))
  <2>1. \A g \in Forwarders : Owes(g, d)' => Owes(g, d)
    <3>1. c.who \in Forwarders => ~Owes(c.who, d)'
      BY <1>10, <1>13
    <3> QED
      BY <1>8, <3>1
  <2>2. Ways(d)' \subseteq Ways(d)
    BY <1>1, <1>11, <2>1, NoNewWay
  <2> QED
    BY <1>2, <1>7, <2>2, FewAgain
<1> QED
  BY <1>12, <1>13

\* A release gives back what its forwarder held, or what it held when the
\* connection broke.
LEMMA IdsFew ==
  ASSUME ForwarderAssumption, Agreed, Types', FewWays, NEW c \in calls,
         Serve(c), ServeIds(c)
  PROVE  FewWays'
<1> DEFINE to == IF c.op = "ack" THEN "gone" ELSE "ready"
<1>1. calls' = calls \ {c} /\ UNCHANGED <<took, pc, batch, at, fails, faults>>
  BY DEF Serve, work
<1>2. Types /\ Asked(c) /\ c \in Calls /\ c.op \in {"ack", "release"}
  BY DEF Agreed, Types, Calls, ServeIds
<1>3. /\ answer' = [f \in Forwarders |-> IF f = c.who THEN [some |-> TRUE, items |-> <<>>]
                                                      ELSE answer[f]]
      /\ \A d \in Ids : store'[d] = IF d \in c.ids /\ store[d] # "gone" THEN to ELSE store[d]
  BY <1>2 DEF ServeIds, Put, Stored, Types
<1>4. \A g \in Forwarders \ {c.who} : Still(g)
  BY <1>1, <1>3 DEF Still
<1> SUFFICES ASSUME NEW d \in Ids PROVE Few(d)'
  BY DEF FewWays
<1>5. Few(d) /\ faults' >= faults /\ took'[d] = took[d]
  BY <1>1, <1>2 DEF FewWays, Types
<1>6. \A g \in Forwarders \ {c.who} : Owes(g, d)' = Owes(g, d) /\ Holds(g, d)' = Holds(g, d)
  BY <1>4, StillOwes
<1>7. c.op = "ack" /\ c.who \in Forwarders =>
        Owes(c.who, d)' = Owes(c.who, d) /\ Holds(c.who, d)' = Holds(c.who, d)
  <2>1. c.op = "ack" /\ c.who \in Forwarders => pc[c.who] \in {"ack", "failack"}
    BY <1>2 DEF Asked
  <2>2. Handled(c.who)' = Handled(c.who) /\ Rest(c.who)' = Rest(c.who)
    BY <1>1 DEF Handled, Rest
  <2> QED
    BY <1>1, <2>1, <2>2 DEF Owes, Holds
<1>8. c.op = "release" /\ c.who \in Forwarders =>
        /\ ~Owes(c.who, d)' /\ ~Holds(c.who, d)'
        /\ Owes(c.who, d) <=> d \in c.ids
        /\ Holds(c.who, d) <=> d \in c.ids
  <2>1. c.op = "release" /\ c.who \in Forwarders =>
          /\ pc[c.who] = "release" /\ pc'[c.who] = "release" /\ c.ids = Rest(c.who)
          /\ ~answer[c.who].some /\ answer'[c.who].some
    BY <1>1, <1>2, <1>3 DEF Asked
  <2> QED
    BY <2>1 DEF Owes, Holds
<1>9. \A g \in Forwarders : Owes(g, d)' => Owes(g, d)
  BY <1>2, <1>6, <1>7, <1>8
<1>10. CASE d \notin c.ids \/ c.op = "ack" \/ store[d] = "gone"
  <2>1. store'[d] = store[d] \/ store'[d] = "gone"
    BY <1>3, <1>10
  <2>2. c.who \in Forwarders => (Holds(c.who, d) => Holds(c.who, d)' \/ store[d] = "gone")
    BY <1>2, <1>7, <1>8, <1>10
  <2>3. \A g \in Forwarders : Holds(g, d) => Holds(g, d)' \/ store[d] = "gone"
    BY <1>6, <2>2
  <2>4. Loose(d)' => Loose(d)
    <3>1. CASE store'[d] = store[d]
      BY <2>3, <3>1, LooseBefore
    <3>2. CASE store'[d] = "gone"
      BY <3>2 DEF Loose
    <3> QED
      BY <2>1, <3>1, <3>2
  <2>5. Ways(d)' \subseteq Ways(d)
    BY <1>1, <1>9, <2>4, NoNewWay
  <2> QED
    BY <1>2, <1>5, <2>5, FewAgain
<1>11. CASE d \in c.ids /\ c.op = "release" /\ c.who \in Forwarders
  <2>1. Owes(c.who, d) /\ ~Owes(c.who, d)'
    BY <1>8, <1>11
  <2>2. Ways(d)' \subseteq (Ways(d) \ {<<"forwarder", c.who>>}) \cup {<<"inbox", d>>}
    <3>1. PICK S : S = (Ways(d) \ {<<"forwarder", c.who>>}) \cup {<<"inbox", d>>}
      OBVIOUS
    <3>2. /\ <<"inbox", d>> \in S
          /\ \A g \in Forwarders : Owes(g, d)' => <<"forwarder", g>> \in S
          /\ \A e \in calls' : Returns(e, d) => <<"call", e>> \in S
      BY <1>1, <1>9, <2>1, <3>1, WaysThere
    <3> QED
      BY <3>1, <3>2, WaysAfter
  <2>3. <<"forwarder", c.who>> \in Ways(d)
    BY <1>11, <2>1, WaysThere
  <2> QED
    BY <1>2, <1>5, <2>2, <2>3, FewAgain
<1>12. CASE d \in c.ids /\ c.op = "release" /\ c.who \notin Forwarders
  <2>1. Returns(c, d)
    BY <1>2, <1>12 DEF Returns, Calls
  <2>2. Ways(d)' \subseteq (Ways(d) \ {<<"call", c>>}) \cup {<<"inbox", d>>}
    <3>1. PICK S : S = (Ways(d) \ {<<"call", c>>}) \cup {<<"inbox", d>>}
      OBVIOUS
    <3>2. /\ <<"inbox", d>> \in S
          /\ \A g \in Forwarders : Owes(g, d)' => <<"forwarder", g>> \in S
          /\ \A e \in calls' : Returns(e, d) => <<"call", e>> \in S
      BY <1>1, <1>9, <3>1, WaysThere
    <3> QED
      BY <3>1, <3>2, WaysAfter
  <2>3. <<"call", c>> \in Ways(d)
    BY <2>1, WaysThere
  <2> QED
    BY <1>2, <1>5, <2>2, <2>3, FewAgain
<1> QED
  BY <1>2, <1>10, <1>11, <1>12

LEMMA InitFew ==
  ASSUME Init
  PROVE  FewWays
<1> SUFFICES ASSUME NEW d \in Ids PROVE Few(d)
  BY DEF FewWays
<1>1. took[d] = 0 /\ faults = 0 /\ calls = {}
  BY DEF Init
<1>2. \A f \in Forwarders : ~Owes(f, d)
  BY DEF Init, Owes
<1>3. Ways(d) \subseteq {<<"inbox", d>>}
  BY <1>1, <1>2 DEF Ways
<1>4. IsFiniteSet({<<"inbox", d>>}) /\ Cardinality({<<"inbox", d>>}) = 1
  BY FS_Singleton
<1>5. IsFiniteSet(Ways(d)) /\ Cardinality(Ways(d)) <= 1
  BY <1>3, <1>4, CountSubset
<1>6. Cardinality(Ways(d)) \in Nat
  BY <1>5, FS_CardinalityType
<1> QED
  BY <1>1, <1>5, <1>6 DEF Few

LEMMA InitIInv ==
  ASSUME ForwarderAssumption, Init
  PROVE  IInv
BY InitAgreed, InitFew DEF IInv

LEMMA NextIInv ==
  ASSUME ForwarderAssumption, IInv, [Next]_vars
  PROVE  IInv'
<1>1. Agreed /\ FewWays /\ Agreed' /\ Types'
  BY NextAgreed DEF IInv, Agreed
<1>2. CASE UNCHANGED vars
  <2>1. UNCHANGED <<store, took, pc, batch, at, calls, answer, fails, faults>>
    BY <1>2 DEF vars, work, net
  <2>2. FewWays'
    BY <1>1, <2>1 DEF FewWays, Few, Ways, Loose, Owes, Holds, Rest, Handled, Returns
  <2> QED
    BY <1>1, <2>2 DEF IInv
<1>3. CASE \E d \in Ids : Post(d) \/ Accept(d) \/ Lapse(d)
  BY <1>1, <1>3, PostFew DEF IInv
<1>4. ASSUME NEW f \in Forwarders,
             \/ Start(f) \/ Send(f) \/ Take(f) \/ Forwarded(f)
             \/ Refused(f) \/ Break(f) \/ Crash(f)
      PROVE  IInv'
  BY <1>1, <1>4, StartFew, TakeFew, ForwardedFew, RefusedFew, BreakFew DEF IInv
<1>5. CASE \E c \in calls : Serve(c) \/ Vanish(c)
  BY <1>1, <1>5, ClaimFew, IdsFew, VanishFew DEF IInv, Serve
<1> QED
  BY <1>2, <1>3, <1>4, <1>5 DEF Next

\* The invariant behind the promises of the forwarders: what each of them, its
\* call and its answer agree on, and that the ways a delivery may come to the
\* target are paid for with faults (process_batch, claim_once, ack_messages,
\* release_messages).
THEOREM ForwarderInvariance ==
  ASSUME ForwarderAssumption
  PROVE  Spec => []IInv
BY InitIInv, NextIInv, PTL DEF Spec

-----------------------------------------------------------------------------
(* What the forwarders promise *)

LEMMA TypesHold ==
  ASSUME ForwarderAssumption, IInv
  PROVE  TypeOK
<1> USE DEF IInv, Agreed
<1>1. ASSUME NEW f \in Forwarders
      PROVE  /\ pc[f] \in {"down", "claim", "replay", "ack", "failack", "release"}
             /\ at[f] \in 0..(Limit + 1) /\ Len(batch[f]) <= Limit
             /\ pc[f] = "replay" => at[f] \in DOMAIN batch[f]
             /\ answer[f].some => \A c \in calls : c.who # f
  <2>1. /\ pc[f] \in {"down", "claim", "replay", "ack", "failack", "release"}
        /\ at[f] \in Nat /\ InBatch(f)
    BY DEF Types
  <2>2. \A c \in calls : c.who = f => ~answer[f].some
    BY DEF Asked
  <2> QED
    BY <2>1, <2>2 DEF InBatch, Batch, ForwarderAssumption
<1>2. ASSUME NEW f \in Forwarders
      PROVE  Cardinality({c \in calls : c.who = f}) <= 1
  <2>1. CASE {c \in calls : c.who = f} = {}
    BY <2>1, FS_EmptySet
  <2>2. CASE {c \in calls : c.who = f} # {}
    <3>1. PICK c \in calls : c.who = f
      BY <2>2
    <3>2. {e \in calls : e.who = f} = {c}
      BY <3>1, OneCall
    <3>3. Cardinality({c}) = 1
      BY FS_Singleton
    <3> QED
      BY <3>2, <3>3
  <2> QED
    BY <2>1, <2>2
<1> QED
  BY <1>1, <1>2 DEF TypeOK, Types

LEMMA FewMeansOnce ==
  ASSUME IInv
  PROVE  OncePerFault
<1> SUFFICES ASSUME NEW d \in Ids PROVE took[d] <= 1 + faults
  BY DEF OncePerFault
<1>1. IsFiniteSet(Ways(d)) /\ took[d] + Cardinality(Ways(d)) <= 1 + faults
  BY DEF IInv, FewWays, Few
<1>2. Cardinality(Ways(d)) \in Nat /\ took[d] \in Nat /\ faults \in Nat
  BY <1>1, FS_CardinalityType DEF IInv, Agreed, Types
<1> QED
  BY <1>1, <1>2

\* A delivery leaves the inbox only when the target took it, however calls of
\* several forwarders are delayed, lost or carried out late (process_batch,
\* ack_messages).
THEOREM AcksFollowAnswers ==
  ASSUME ForwarderAssumption
  PROVE  Spec => []AckedWasTaken
<1>1. IInv => AckedWasTaken
  BY DEF IInv, Agreed
<1> QED
  BY <1>1, ForwarderInvariance, PTL

\* The target sees a delivery at most once more than there were faults
\* (process_batch, claim_once, release_messages).
THEOREM FaultsPayForCopies ==
  ASSUME ForwarderAssumption
  PROVE  Spec => []OncePerFault
BY FewMeansOnce, ForwarderInvariance, PTL

-----------------------------------------------------------------------------
(* The store the clients are promised *)

\* The variables of the store, as functions of the inbox of this module.
Destinations(s) == [d \in Ids |-> IF s[d] = "none" THEN {} ELSE {"inbox"}]
Outcomes(s) == [d \in Ids |-> CASE s[d] = "none" -> "unsent"
                               [] s[d] = "open" -> "open"
                               [] OTHER -> "queued"]
Rows(s) == {d \in Ids : s[d] \in {"ready", "leased"}}
Leased(s) == {d \in Ids : s[d] = "leased"}
InInbox(S) == [k \in {"inbox"} |-> S]

\* InboxStore counts with its own copy of the standard operator.
LEMMA SameCardinality == \A S : Store!Cardinality(S) = Cardinality(S)
BY DEF Store!Cardinality, Cardinality

LEMMA StoreReads ==
  ASSUME Types, NEW d \in Ids
  PROVE  /\ Outcomes(store)[d] = IF store[d] = "none" THEN "unsent"
                                 ELSE IF store[d] = "open" THEN "open" ELSE "queued"
         /\ Destinations(store)[d] = IF store[d] = "none" THEN {} ELSE {"inbox"}
BY DEF Types, Outcomes, Destinations

LEMMA StorePosts ==
  ASSUME Types, NEW d \in Ids, Post(d)
  PROVE  Store!Post(d, {"inbox"})
<1>1. store[d] = "none" /\ store' = [store EXCEPT ![d] = "open"]
  BY DEF Post
<1>2. store' \in [Ids -> {"none", "open", "ready", "leased", "gone"}]
      /\ \A e \in Ids : store'[e] = IF e = d THEN "open" ELSE store[e]
  BY <1>1 DEF Types
<1>3. Outcomes(store)[d] = "unsent"
  BY <1>1, StoreReads
<1>4. Outcomes(store') = [Outcomes(store) EXCEPT ![d] = "open"]
  BY <1>2 DEF Outcomes
<1>5. Destinations(store') = [Destinations(store) EXCEPT ![d] = {"inbox"}]
  BY <1>2 DEF Destinations
<1>6. Rows(store') = Rows(store) /\ Leased(store') = Leased(store)
  BY <1>1, <1>2 DEF Rows, Leased
<1>7. InInbox(Rows(store')) = InInbox(Rows(store)) /\ InInbox(Leased(store')) = InInbox(Leased(store))
  BY <1>6
<1> QED
  BY <1>3, <1>4, <1>5, <1>7 DEF Store!Post, Outcomes, Destinations, Rows, Leased, InInbox

LEMMA StoreAccepts ==
  ASSUME ForwarderAssumption, Types, NEW d \in Ids, Accept(d)
  PROVE  Store!Accept(d)
<1>1. store[d] = "open" /\ store' = [store EXCEPT ![d] = "ready"]
  BY DEF Accept
<1>2. store' \in [Ids -> {"none", "open", "ready", "leased", "gone"}]
      /\ \A e \in Ids : store'[e] = IF e = d THEN "ready" ELSE store[e]
  BY <1>1 DEF Types
<1>3. Outcomes(store)[d] = "open" /\ Destinations(store)[d] = {"inbox"}
  BY <1>1, StoreReads
<1>4. Outcomes(store') = [Outcomes(store) EXCEPT ![d] = "queued"]
  BY <1>2 DEF Outcomes
<1>5. Destinations(store') = Destinations(store)
  BY <1>1, <1>2 DEF Destinations
<1>6. Rows(store') = Rows(store) \cup {d} /\ Leased(store') = Leased(store)
  BY <1>1, <1>2 DEF Rows, Leased
<1>7. Cardinality(Rows(store)) < Count
  <2>1. IsFiniteSet(Ids) /\ Cardinality(Ids) = Count
    BY FS_Interval DEF ForwarderAssumption, Ids
  <2>2. Rows(store) \in SUBSET Ids /\ Rows(store) # Ids
    BY <1>1 DEF Rows
  <2>3. /\ Cardinality(Rows(store)) <= Count /\ Cardinality(Rows(store)) # Count
        /\ IsFiniteSet(Rows(store))
    BY <2>1, <2>2, FS_Subset
  <2> QED
    BY <2>3, FS_CardinalityType DEF ForwarderAssumption
<1>8. /\ InInbox(Rows(store'))
          = [k \in {"inbox"} |-> IF k \in Destinations(store)[d] THEN InInbox(Rows(store))[k] \cup {d}
                                                               ELSE InInbox(Rows(store))[k]]
      /\ InInbox(Leased(store')) = InInbox(Leased(store))
      /\ \A k \in Destinations(store)[d] : Cardinality(InInbox(Rows(store))[k]) < Count
  BY <1>3, <1>6, <1>7 DEF InInbox
<1> QED
  BY <1>3, <1>4, <1>5, <1>8, SameCardinality
  DEF Store!Accept, Outcomes, Destinations, Rows, Leased, InInbox

\* Leases that begin or end, and deliveries that are acked.
LEMMA StoreLends ==
  ASSUME Types, NEW S \in SUBSET Ids,
         \A d \in S : store[d] \notin {"none", "open"}, NEW to \in {"ready", "leased", "gone"},
         to = "leased" => \A d \in S : store[d] = "ready",
         to = "ready" => \A d \in S : store[d] # "gone",
         Put(S, to)
  PROVE  Store!Reserve("inbox") \/ Store!Free("inbox") \/ Store!Settle("inbox")
<1>1. \A d \in Ids : store'[d] = IF d \in S THEN to ELSE store[d]
  BY DEF Put
<1>2. Outcomes(store') = Outcomes(store)
  BY <1>1 DEF Outcomes
<1>3. Destinations(store') = Destinations(store)
  BY <1>1 DEF Destinations
<1>4. CASE to = "leased"
  <2>1. /\ Rows(store') = Rows(store) /\ Leased(store') = Leased(store) \cup S
        /\ S \subseteq Rows(store) \ Leased(store)
    BY <1>1, <1>4 DEF Rows, Leased
  <2>2. /\ InInbox(Rows(store')) = InInbox(Rows(store))
        /\ InInbox(Leased(store')) = [InInbox(Leased(store)) EXCEPT !["inbox"] = @ \cup S]
        /\ S \in SUBSET (InInbox(Rows(store))["inbox"] \ InInbox(Leased(store))["inbox"])
    BY <2>1 DEF InInbox
  <2>3. Store!Reserve("inbox")
    BY <1>2, <1>3, <2>2 DEF Store!Reserve, Outcomes, Destinations, Rows, Leased, InInbox
  <2> QED
    BY <2>3
<1>5. CASE to = "ready"
  <2>1. /\ \A d \in S : store[d] \in {"ready", "leased"}
    BY <1>5 DEF Types
  <2> DEFINE T == S \cap Leased(store)
  <2>2. /\ Rows(store') = Rows(store) /\ Leased(store') = Leased(store) \ T
        /\ T \subseteq Leased(store)
    BY <1>1, <1>5, <2>1 DEF Rows, Leased
  <2>3. /\ InInbox(Rows(store')) = InInbox(Rows(store))
        /\ InInbox(Leased(store')) = [InInbox(Leased(store)) EXCEPT !["inbox"] = @ \ T]
        /\ T \in SUBSET InInbox(Leased(store))["inbox"]
    BY <2>2 DEF InInbox
  <2> HIDE DEF T
  <2>4. Store!Free("inbox")
    BY <1>2, <1>3, <2>3 DEF Store!Free, Outcomes, Destinations, Rows, Leased, InInbox
  <2> QED
    BY <2>4
<1>6. CASE to = "gone"
  <2> DEFINE T == S \cap Rows(store)
  <2>2. /\ Rows(store') = Rows(store) \ T /\ Leased(store') = Leased(store) \ T
        /\ T \subseteq Rows(store)
    BY <1>1, <1>6 DEF Rows, Leased
  <2>3. /\ InInbox(Rows(store')) = [InInbox(Rows(store)) EXCEPT !["inbox"] = @ \ T]
        /\ InInbox(Leased(store')) = [InInbox(Leased(store)) EXCEPT !["inbox"] = @ \ T]
        /\ T \in SUBSET InInbox(Rows(store))["inbox"]
    BY <2>2 DEF InInbox
  <2> HIDE DEF T
  <2>4. Store!Settle("inbox")
    BY <1>2, <1>3, <2>3 DEF Store!Settle, Outcomes, Destinations, Rows, Leased, InInbox
  <2> QED
    BY <2>4
<1> QED
  BY <1>4, <1>5, <1>6

LEMMA StoreSteps ==
  ASSUME ForwarderAssumption, IInv, [Next]_vars
  PROVE  [Store!Next]_(Store!vars)
<1>1. Types /\ \A c \in calls : Asked(c)
  BY DEF IInv, Agreed
<1>2. CASE UNCHANGED store
  BY <1>2 DEF Store!vars
<1>3. ASSUME Next, store' # store PROVE Store!Next
  <2>1. ASSUME NEW d \in Ids, Post(d) PROVE Store!Next
    <3>1. {"inbox"} \in (SUBSET {"inbox"}) \ {{}}
      OBVIOUS
    <3> QED
      BY <1>1, <2>1, <3>1, StorePosts DEF Store!Next
  <2>2. ASSUME NEW d \in Ids, Accept(d) PROVE Store!Next
    BY <1>1, <2>2, StoreAccepts DEF Store!Next
  <2>3. ASSUME NEW S \in SUBSET Ids,
               \A d \in S : store[d] \notin {"none", "open"}, NEW to \in {"ready", "leased", "gone"},
               to = "leased" => \A d \in S : store[d] = "ready",
               to = "ready" => \A d \in S : store[d] # "gone",
               Put(S, to)
        PROVE  Store!Next
    <3>1. Store!Reserve("inbox") \/ Store!Free("inbox") \/ Store!Settle("inbox")
      BY <1>1, <2>3, StoreLends
    <3> QED
      BY <3>1 DEF Store!Next
  <2>4. ASSUME NEW d \in Ids, Lapse(d) PROVE Store!Next
    BY <2>3, <2>4 DEF Lapse
  <2>5. ASSUME NEW c \in calls, Serve(c) PROVE Store!Next
    <3>1. c.ids \subseteq Ids /\ c.op \in {"claim", "ack", "release"} /\ Asked(c)
      BY <1>1 DEF Types, Calls
    <3>2. CASE ServeClaim(c)
      <4>1. /\ Put(Oldest, "leased") /\ Oldest \subseteq Ids
            /\ \A d \in Oldest : store[d] = "ready"
        BY <3>2 DEF ServeClaim, Oldest, Ready
      <4> QED
        BY <2>3, <4>1
    <3>3. CASE ServeIds(c)
      <4> DEFINE S == Stored(c.ids)
                 to == IF c.op = "ack" THEN "gone" ELSE "ready"
      <4>1. /\ Put(S, to) /\ S \subseteq Ids /\ to \in {"gone", "ready"}
            /\ \A d \in S : store[d] \notin {"none", "open", "gone"}
        BY <3>1, <3>3 DEF ServeIds, Stored, Asked
      <4> HIDE DEF S, to
      <4> QED
        BY <2>3, <4>1
    <3> QED
      BY <2>5, <3>2, <3>3 DEF Serve
  <2>6. ASSUME NEW f \in Forwarders,
               \/ Start(f) \/ Send(f) \/ Take(f) \/ Forwarded(f)
               \/ Refused(f) \/ Break(f) \/ Crash(f)
        PROVE  FALSE
    BY <1>3, <2>6 DEF Start, Send, Take, Forwarded, Refused, Break, Crash
  <2>7. ASSUME NEW c \in calls, Vanish(c) PROVE FALSE
    BY <1>3, <2>7 DEF Vanish
  <2> QED
    BY <1>3, <2>1, <2>2, <2>4, <2>5, <2>6, <2>7 DEF Next
<1> QED
  BY <1>2, <1>3 DEF vars

\* Forwarders and inbox together keep the promise of the inbox: their steps
\* are those of the bounded store, or none (claim_inbox, ack_inbox,
\* release_inbox).
THEOREM ForwardersAreStore ==
  ASSUME ForwarderAssumption
  PROVE  Spec => ImplementsStore
<1>1. Init => Store!Init
  <2> SUFFICES ASSUME Init PROVE Store!Init
    OBVIOUS
  <2>1. \A d \in Ids : store[d] = "none"
    BY DEF Init
  <2>2. /\ Destinations(store) = [m \in Ids |-> {}] /\ Outcomes(store) = [m \in Ids |-> "unsent"]
        /\ Rows(store) = {} /\ Leased(store) = {}
    BY <2>1 DEF Destinations, Outcomes, Rows, Leased
  <2>3. InInbox(Rows(store)) = [k \in {"inbox"} |-> {}] /\ InInbox(Leased(store)) = [k \in {"inbox"} |-> {}]
    BY <2>2 DEF InInbox
  <2> QED
    BY <2>2, <2>3 DEF Store!Init, Outcomes, Destinations, Rows, Leased, InInbox
<1>2. IInv /\ [Next]_vars => [Store!Next]_(Store!vars)
  BY StoreSteps
<1> QED
  BY <1>1, <1>2, ForwarderInvariance, PTL DEF Spec, ImplementsStore, Store!Spec

-----------------------------------------------------------------------------
(* Long polls *)

PollAssumptions ==
  Poll!PollersAssumption /\ Poll!CapacityAssumption /\ Poll!PollBoundsAssumption

\* The values TypeOK speaks of are functions.
PollTables ==
  /\ announce \in [Instances -> [Keys -> Nat \X Nat]]
  /\ wire \in [Instances -> Seq(Keys)]
  /\ queue \in [Pollers -> Seq(Keys)]

\* What is ready was stored or came back, and what is announced was stored.
PollsCounted ==
  /\ \A k \in Keys : ready[k] <= posts + losses
  /\ \A i \in Instances, k \in Keys : announce[i][k][1] + announce[i][k][2] <= posts

\* Listeners are lost by faults only.
PollsConnected == losses = 0 => listening = Instances

\* A sleeping poller of a ready inbox will be woken.
WillWake(p) ==
  \/ p \in lagged
  \/ Poll!Occurs(Wants[p], queue[p])
  \/ Poll!OnItsWay(Home[p], Wants[p])

PollIInv == Poll!TypeOK /\ PollTables /\ PollsCounted /\ PollsConnected /\ Poll!NoLostWakeup

-----------------------------------------------------------------------------
(* Sequences of keys *)

LEMMA OccursAppended ==
  ASSUME NEW q \in Seq(Keys), NEW k \in Keys
  PROVE  /\ Append(q, k) \in Seq(Keys) /\ Len(Append(q, k)) = Len(q) + 1
         /\ Poll!Occurs(k, Append(q, k))
         /\ \A j : Poll!Occurs(j, q) => Poll!Occurs(j, Append(q, k))
BY DEF Poll!Occurs

LEMMA OccursInTail ==
  ASSUME NEW q \in Seq(Keys), q # <<>>
  PROVE  /\ Tail(q) \in Seq(Keys) /\ Len(Tail(q)) = Len(q) - 1 /\ Head(q) \in Keys
         /\ \A j : Poll!Occurs(j, q) => j = Head(q) \/ Poll!Occurs(j, Tail(q))
<1>1. /\ Tail(q) \in Seq(Keys) /\ Len(Tail(q)) = Len(q) - 1 /\ Head(q) \in Keys
      /\ Len(q) \in Nat /\ DOMAIN q = 1..Len(q) /\ DOMAIN Tail(q) = 1..(Len(q) - 1)
  OBVIOUS
<1>2. ASSUME NEW n \in 1..Len(q), n # 1
      PROVE  n - 1 \in 1..(Len(q) - 1) /\ Tail(q)[n - 1] = q[n]
  BY <1>2
<1>3. q[1] = Head(q)
  OBVIOUS
<1> QED
  BY <1>1, <1>2, <1>3 DEF Poll!Occurs

\* A broadcast reaches who listens, and what else a receiver held it still
\* holds, or has lost with notice.
LEMMA BroadcastReaches ==
  ASSUME PollAssumptions, PollIInv, NEW i \in Instances, NEW k \in Keys, Poll!Broadcast(i, k)
  PROVE  /\ queue' \in [Pollers -> Seq(Keys)]
         /\ \A p \in Pollers : Len(queue'[p]) <= Capacity
         /\ lagged \subseteq lagged' /\ lagged' \subseteq Pollers
         /\ \A p \in Poll!Hears(i) : Poll!Occurs(k, queue'[p])
         /\ \A p \in Pollers, j \in Keys :
              Poll!Occurs(j, queue[p]) => p \in lagged' \/ Poll!Occurs(j, queue'[p])
<1>1. Capacity \in Nat \ {0}
  BY DEF PollAssumptions, Poll!CapacityAssumption
<1>2. /\ DOMAIN queue' = Pollers
      /\ \A p \in Pollers :
           /\ queue'[p] = IF p \notin Poll!Hears(i) THEN queue[p]
                          ELSE IF Len(queue[p]) < Capacity THEN Append(queue[p], k)
                          ELSE Append(Tail(queue[p]), k)
           /\ p \in Poll!Hears(i) /\ Len(queue[p]) = Capacity => p \in lagged'
      /\ queue' = [p \in Pollers |-> queue'[p]]
  BY DEF Poll!Broadcast
<1>3. lagged \subseteq lagged' /\ lagged' \subseteq Pollers
  BY DEF Poll!Broadcast, Poll!Hears, PollIInv, Poll!TypeOK
<1>4. \A p \in Pollers : queue[p] \in Seq(Keys) /\ Len(queue[p]) \in Nat /\ Len(queue[p]) <= Capacity
  BY DEF PollIInv, Poll!TypeOK
<1>5. ASSUME NEW p \in Pollers
      PROVE  /\ queue'[p] \in Seq(Keys) /\ Len(queue'[p]) <= Capacity
             /\ p \in Poll!Hears(i) => Poll!Occurs(k, queue'[p])
             /\ \A j \in Keys :
                  Poll!Occurs(j, queue[p]) => p \in lagged' \/ Poll!Occurs(j, queue'[p])
  <2>1. queue[p] \in Seq(Keys) /\ Len(queue[p]) \in Nat /\ Len(queue[p]) <= Capacity
    BY <1>4
  <2>2. CASE p \notin Poll!Hears(i)
    <3>1. queue'[p] = queue[p]
      BY <1>2, <2>2
    <3> QED
      BY <2>1, <2>2, <3>1
  <2>3. CASE p \in Poll!Hears(i) /\ Len(queue[p]) < Capacity
    <3>1. queue'[p] = Append(queue[p], k)
      BY <1>2, <2>3
    <3> QED
      BY <1>1, <2>1, <2>3, <3>1, OccursAppended
  <2>4. CASE p \in Poll!Hears(i) /\ Len(queue[p]) = Capacity
    <3>1. ~(Len(queue[p]) < Capacity) /\ Len(queue[p]) # 0
      BY <1>1, <2>4
    <3>2. queue'[p] = Append(Tail(queue[p]), k) /\ p \in lagged'
      BY <1>2, <2>4, <3>1
    <3>3. queue[p] # <<>>
      BY <3>1
    <3>4. Tail(queue[p]) \in Seq(Keys) /\ Len(Tail(queue[p])) = Capacity - 1
      BY <2>1, <2>4, <3>3, OccursInTail
    <3>5. /\ queue'[p] \in Seq(Keys) /\ Poll!Occurs(k, queue'[p])
          /\ Len(queue'[p]) = Len(Tail(queue[p])) + 1
      BY <3>2, <3>4, OccursAppended
    <3>6. Len(queue'[p]) <= Capacity
      BY <1>1, <3>4, <3>5
    <3> QED
      BY <3>2, <3>5, <3>6
  <2>5. Len(queue[p]) < Capacity \/ Len(queue[p]) = Capacity
    BY <1>1, <2>1
  <2> QED
    BY <2>2, <2>3, <2>4, <2>5
<1>6. queue' \in [Pollers -> Seq(Keys)]
  BY <1>2, <1>5
<1> QED
  BY <1>3, <1>5, <1>6 DEF Poll!Hears

-----------------------------------------------------------------------------

LEMMA InitPollIInv ==
  ASSUME PollAssumptions, Poll!Init
  PROVE  PollIInv
<1> USE DEF Poll!Init, PollAssumptions, Poll!CapacityAssumption, Poll!PollBoundsAssumption
<1>1. Poll!TypeOK
  BY DEF Poll!TypeOK, Poll!Subscribed
<1>2. PollTables /\ PollsCounted /\ PollsConnected /\ Poll!NoLostWakeup
  BY DEF PollTables, PollsCounted, PollsConnected, Poll!NoLostWakeup
<1> QED
  BY <1>1, <1>2 DEF PollIInv

\* Who slept and will still be woken, and who newly sleeps beside nothing,
\* keeps the promise.
LEMMA StillWakes ==
  ASSUME PollIInv, UNCHANGED losses,
         \A p \in Pollers : poll'[p] = "wait" /\ ready'[Wants[p]] > 0 /\ losses = 0 =>
           \/ poll[p] = "wait" /\ ready[Wants[p]] > 0 /\ (WillWake(p) => WillWake(p)')
           \/ WillWake(p)'
  PROVE  Poll!NoLostWakeup'
BY DEF PollIInv, Poll!NoLostWakeup, WillWake

-----------------------------------------------------------------------------
(* One lemma per action. *)

LEMMA StoreStep ==
  ASSUME PollAssumptions, PollIInv, NEW i \in Instances, NEW k \in Keys, Poll!Store(i, k)
  PROVE  PollIInv'
<1> DEFINE a == announce[i][k]
<1>1. /\ posts < MaxPosts /\ posts' = posts + 1 /\ losses' = losses
      /\ ready' = [ready EXCEPT ![k] = @ + 1]
      /\ announce' = [announce EXCEPT ![i][k][1] = @ + 1]
      /\ UNCHANGED <<listening, wire, poll, late, queue, lagged>>
  BY DEF Poll!Store, Poll!channel, Poll!client
<1>2. /\ ready \in [Keys -> Nat] /\ posts \in Nat /\ losses \in 0..MaxLosses
      /\ MaxPosts \in Nat /\ MaxLosses \in Nat /\ a \in Nat \X Nat
  BY DEF PollIInv, Poll!TypeOK, PollTables, PollAssumptions, Poll!PollBoundsAssumption
<1> DEFINE b == <<a[1] + 1, a[2]>>
<1>3. b \in Nat \X Nat /\ announce' = [announce EXCEPT ![i][k] = b]
  <2>1. [a EXCEPT ![1] = @ + 1] = b
    BY <1>2
  <2>2. b \in Nat \X Nat
    BY <1>2
  <2>3. announce' = [announce EXCEPT ![i][k] = [a EXCEPT ![1] = @ + 1]]
    BY <1>1
  <2> HIDE DEF b
  <2> QED
    BY <2>1, <2>2, <2>3
<1>4. /\ announce' \in [Instances -> [Keys -> Nat \X Nat]]
      /\ announce'[i][k] = b
      /\ \A j \in Instances, l \in Keys :
           j # i \/ l # k => announce'[j][l] = announce[j][l]
  <2>1. PollTables
    BY DEF PollIInv
  <2> HIDE DEF b
  <2> QED
    BY <1>3, <2>1 DEF PollTables
<1>5. PollsCounted'
  <2>1. \A l \in Keys : ready'[l] <= posts' + losses'
    BY <1>1, <1>2 DEF PollIInv, PollsCounted
  <2>2. ASSUME NEW j \in Instances, NEW l \in Keys
        PROVE  announce'[j][l][1] + announce'[j][l][2] <= posts'
    <3>1. /\ announce[j][l] \in Nat \X Nat
          /\ announce[j][l][1] + announce[j][l][2] <= posts
      BY DEF PollIInv, PollTables, PollsCounted
    <3>2. CASE j = i /\ l = k
      BY <1>1, <1>2, <1>4, <3>1, <3>2
    <3>3. CASE j # i \/ l # k
      BY <1>1, <1>2, <1>4, <3>1, <3>3
    <3> QED
      BY <3>2, <3>3
  <2> QED
    BY <2>1, <2>2 DEF PollsCounted
<1>6. Poll!TypeOK'
  <2>1. ready' \in [Keys -> 0..(MaxPosts + MaxLosses)]
    <3>1. ready' \in [Keys -> Nat]
      BY <1>1, <1>2
    <3> QED
      BY <1>1, <1>2, <1>5, <3>1 DEF PollsCounted
  <2>2. \A j \in Instances, l \in Keys :
          announce'[j][l] \in (0..MaxPosts) \X (0..MaxPosts)
    BY <1>1, <1>2, <1>4, <1>5 DEF PollsCounted
  <2>3. posts' \in 0..MaxPosts
    BY <1>1, <1>2
  <2> QED
    BY <1>1, <2>1, <2>2, <2>3 DEF PollIInv, Poll!TypeOK, Poll!Subscribed
<1>7. PollTables' /\ PollsConnected'
  BY <1>1, <1>4 DEF PollIInv, PollTables, PollsConnected
<1>8. Poll!NoLostWakeup'
  <2> SUFFICES ASSUME NEW p \in Pollers, poll'[p] = "wait", ready'[Wants[p]] > 0
               PROVE  \/ poll[p] = "wait" /\ ready[Wants[p]] > 0 /\ (WillWake(p) => WillWake(p)')
                      \/ WillWake(p)'
    BY <1>1, StillWakes
  <2>1. CASE Wants[p] = k
    BY <1>2, <1>4, <2>1 DEF WillWake, Poll!OnItsWay
  <2>2. CASE Wants[p] # k
    <3>1. Wants[p] \in Keys
      BY DEF PollAssumptions, Poll!PollersAssumption
    <3>2. ready[Wants[p]] = ready'[Wants[p]]
      BY <1>1, <1>2, <2>2, <3>1
    <3>3. \A j \in Instances : announce'[j][Wants[p]] = announce[j][Wants[p]]
      BY <1>4, <2>2, <3>1
    <3>4. Home[p] \in Instances
      BY DEF PollAssumptions, Poll!PollersAssumption
    <3> QED
      BY <1>1, <3>2, <3>3, <3>4 DEF WillWake, Poll!OnItsWay
  <2> QED
    BY <2>1, <2>2
<1> QED
  BY <1>5, <1>6, <1>7, <1>8 DEF PollIInv

\* The local notification is followed by the one through PostgreSQL.
LEMMA NotifyLocalStep ==
  ASSUME PollAssumptions, PollIInv, NEW i \in Instances, NEW k \in Keys, Poll!NotifyLocal(i, k)
  PROVE  PollIInv'
<1> DEFINE a == announce[i][k]
<1>1. /\ a[1] > 0 /\ Poll!Broadcast(i, k)
      /\ announce' = [announce EXCEPT ![i][k] = <<@[1] - 1, @[2] + 1>>]
      /\ UNCHANGED <<ready, posts, losses, listening, wire, poll, late>>
  BY DEF Poll!NotifyLocal, Poll!store, Poll!channel
<1>2. a \in Nat \X Nat /\ posts \in Nat /\ MaxPosts \in Nat /\ posts <= MaxPosts
  BY DEF PollIInv, Poll!TypeOK, PollTables, PollAssumptions, Poll!PollBoundsAssumption
<1>3. /\ announce' \in [Instances -> [Keys -> Nat \X Nat]]
      /\ announce'[i][k] = <<a[1] - 1, a[2] + 1>>
      /\ \A j \in Instances, l \in Keys :
           j # i \/ l # k => announce'[j][l] = announce[j][l]
  BY <1>1, <1>2 DEF PollIInv, PollTables
<1>4. PollsCounted'
  BY <1>1, <1>2, <1>3 DEF PollIInv, PollTables, PollsCounted
<1>5. Poll!TypeOK'
  <2>1. ASSUME NEW j \in Instances, NEW l \in Keys
        PROVE  announce'[j][l] \in (0..MaxPosts) \X (0..MaxPosts)
    <3>1. PICK x \in Nat, y \in Nat : announce'[j][l] = <<x, y>>
      BY <1>3
    <3>2. x + y <= posts
      BY <1>1, <1>4, <3>1 DEF PollsCounted
    <3> QED
      BY <1>2, <3>1, <3>2
  <2> QED
    BY <1>1, <2>1, BroadcastReaches DEF PollIInv, Poll!TypeOK, Poll!Subscribed
<1>6. PollTables' /\ PollsConnected'
  BY <1>1, <1>3, BroadcastReaches DEF PollIInv, PollTables, PollsConnected
<1>7. Poll!NoLostWakeup'
  <2> SUFFICES ASSUME NEW p \in Pollers, poll'[p] = "wait", ready'[Wants[p]] > 0
               PROVE  \/ poll[p] = "wait" /\ ready[Wants[p]] > 0 /\ (WillWake(p) => WillWake(p)')
                      \/ WillWake(p)'
    BY <1>1, StillWakes
  <2>1. Wants[p] \in Keys /\ Home[p] \in Instances
    BY DEF PollAssumptions, Poll!PollersAssumption
  <2>2. CASE Wants[p] = k
    BY <1>2, <1>3, <2>2 DEF WillWake, Poll!OnItsWay
  <2>3. CASE Wants[p] # k
    <3>1. \A j \in Instances : announce'[j][Wants[p]] = announce[j][Wants[p]]
      BY <1>3, <2>1, <2>3
    <3>2. Poll!OnItsWay(Home[p], Wants[p]) => Poll!OnItsWay(Home[p], Wants[p])'
      BY <1>1, <2>1, <3>1 DEF Poll!OnItsWay
    <3> QED
      BY <1>1, <2>1, <3>2, BroadcastReaches DEF WillWake
  <2> QED
    BY <2>2, <2>3
<1> QED
  BY <1>4, <1>5, <1>6, <1>7 DEF PollIInv

\* PostgreSQL sends to every listener that is connected.
LEMMA NotifyPostgresStep ==
  ASSUME PollAssumptions, PollIInv, NEW i \in Instances, NEW k \in Keys, Poll!NotifyPostgres(i, k)
  PROVE  PollIInv'
<1> DEFINE a == announce[i][k]
<1>1. /\ a[2] > 0
      /\ announce' = [announce EXCEPT ![i][k][2] = @ - 1]
      /\ wire' = [j \in Instances |-> IF j \in listening THEN Append(wire[j], k)
                                                         ELSE wire[j]]
      /\ UNCHANGED <<ready, posts, losses, listening, poll, late, queue, lagged>>
  BY DEF Poll!NotifyPostgres, Poll!store, Poll!client
<1>2. a \in Nat \X Nat /\ posts \in Nat /\ MaxPosts \in Nat /\ posts <= MaxPosts
  BY DEF PollIInv, Poll!TypeOK, PollTables, PollAssumptions, Poll!PollBoundsAssumption
<1>3. /\ announce' \in [Instances -> [Keys -> Nat \X Nat]]
      /\ announce'[i][k] = <<a[1], a[2] - 1>>
      /\ \A j \in Instances, l \in Keys :
           j # i \/ l # k => announce'[j][l] = announce[j][l]
  BY <1>1, <1>2 DEF PollIInv, PollTables
<1>4. PollsCounted'
  <2> SUFFICES ASSUME NEW j \in Instances, NEW l \in Keys
               PROVE  announce'[j][l][1] + announce'[j][l][2] <= posts
    BY <1>1 DEF PollIInv, PollsCounted
  <2>1. announce[j][l] \in Nat \X Nat /\ announce[j][l][1] + announce[j][l][2] <= posts
    BY DEF PollIInv, PollTables, PollsCounted
  <2>2. CASE j = i /\ l = k
    BY <1>2, <1>3, <2>1, <2>2
  <2>3. CASE j # i \/ l # k
    BY <1>3, <2>1, <2>3
  <2> QED
    BY <2>2, <2>3
<1>5. /\ wire' \in [Instances -> Seq(Keys)]
      /\ \A j \in Instances, l \in Keys : Poll!Occurs(l, wire[j]) => Poll!Occurs(l, wire'[j])
      /\ \A j \in listening : Poll!Occurs(k, wire'[j])
  BY <1>1, OccursAppended DEF PollIInv, Poll!TypeOK, PollTables
<1>6. Poll!TypeOK'
  <2>1. ASSUME NEW j \in Instances, NEW l \in Keys
        PROVE  announce'[j][l] \in (0..MaxPosts) \X (0..MaxPosts)
    <3>1. PICK x \in Nat, y \in Nat : announce'[j][l] = <<x, y>>
      BY <1>3
    <3>2. x + y <= posts
      BY <1>1, <1>4, <3>1 DEF PollsCounted
    <3> QED
      BY <1>2, <3>1, <3>2
  <2> QED
    BY <1>1, <1>5, <2>1 DEF PollIInv, Poll!TypeOK, Poll!Subscribed
<1>7. PollTables' /\ PollsConnected'
  BY <1>1, <1>3, <1>5 DEF PollIInv, PollTables, PollsConnected
<1>8. Poll!NoLostWakeup'
  <2> SUFFICES ASSUME NEW p \in Pollers, poll'[p] = "wait", ready'[Wants[p]] > 0, losses = 0
               PROVE  \/ poll[p] = "wait" /\ ready[Wants[p]] > 0 /\ (WillWake(p) => WillWake(p)')
                      \/ WillWake(p)'
    BY <1>1, StillWakes
  <2>1. Wants[p] \in Keys /\ Home[p] \in Instances
    BY DEF PollAssumptions, Poll!PollersAssumption
  <2>2. CASE Wants[p] = k
    BY <1>5, <2>1, <2>2 DEF WillWake, Poll!OnItsWay, PollIInv, PollsConnected
  <2>3. CASE Wants[p] # k
    <3>1. \A j \in Instances : announce'[j][Wants[p]] = announce[j][Wants[p]]
      BY <1>3, <2>1, <2>3
    <3>2. Poll!OnItsWay(Home[p], Wants[p]) => Poll!OnItsWay(Home[p], Wants[p])'
      BY <1>5, <2>1, <3>1 DEF Poll!OnItsWay
    <3> QED
      BY <1>1, <3>2 DEF WillWake
  <2> QED
    BY <2>2, <2>3
<1> QED
  BY <1>4, <1>6, <1>7, <1>8 DEF PollIInv

\* A listener repeats what it was sent to the receivers of its instance.
LEMMA ForwardStep ==
  ASSUME PollAssumptions, PollIInv, NEW i \in Instances, Poll!Forward(i)
  PROVE  PollIInv'
<1> DEFINE k == Head(wire[i])
<1>1. /\ wire[i] # <<>> /\ Poll!Broadcast(i, k)
      /\ wire' = [wire EXCEPT ![i] = Tail(@)]
      /\ UNCHANGED <<ready, posts, losses, announce, listening, poll, late>>
  BY DEF Poll!Forward, Poll!store
<1>2. wire[i] \in Seq(Keys)
  BY DEF PollIInv, PollTables
<1>3. /\ k \in Keys /\ Tail(wire[i]) \in Seq(Keys)
      /\ \A l : Poll!Occurs(l, wire[i]) => l = k \/ Poll!Occurs(l, Tail(wire[i]))
  BY <1>1, <1>2, OccursInTail
<1>4. /\ wire' \in [Instances -> Seq(Keys)] /\ wire'[i] = Tail(wire[i])
      /\ \A j \in Instances \ {i} : wire'[j] = wire[j]
  BY <1>1, <1>3 DEF PollIInv, PollTables
<1>5. Poll!TypeOK' /\ PollTables'
  BY <1>1, <1>3, <1>4, BroadcastReaches DEF PollIInv, Poll!TypeOK, PollTables, Poll!Subscribed
<1>6. PollsCounted' /\ PollsConnected'
  BY <1>1 DEF PollIInv, PollsCounted, PollsConnected
<1>7. Poll!NoLostWakeup'
  <2> SUFFICES ASSUME NEW p \in Pollers, poll[p] = "wait", WillWake(p)
               PROVE  WillWake(p)'
    BY <1>1, StillWakes
  <2>1. Wants[p] \in Keys /\ Home[p] \in Instances
    BY DEF PollAssumptions, Poll!PollersAssumption
  <2>2. \/ Poll!OnItsWay(Home[p], Wants[p])'
        \/ Home[p] = i /\ Wants[p] = k
        \/ ~Poll!OnItsWay(Home[p], Wants[p])
    BY <1>1, <1>3, <1>4, <2>1 DEF Poll!OnItsWay
  <2>3. CASE Home[p] = i /\ Wants[p] = k
    <3>1. p \in Poll!Hears(i)
      BY <2>3 DEF Poll!Hears, Poll!Subscribed
    <3> QED
      BY <1>1, <1>3, <2>3, <3>1, BroadcastReaches DEF WillWake
  <2> QED
    BY <1>1, <1>3, <2>1, <2>2, <2>3, BroadcastReaches DEF WillWake
<1> QED
  BY <1>5, <1>6, <1>7 DEF PollIInv

\* After a fault the promise is void.
LEMMA FaultStep ==
  ASSUME PollAssumptions, PollIInv,
         \/ \E i \in Instances, k \in Keys : Poll!DropAnnouncement(i, k)
         \/ \E k \in Keys : Poll!Lapse(k)
         \/ \E i \in Instances : Poll!LoseListener(i)
  PROVE  PollIInv'
<1>1. /\ losses < MaxLosses /\ losses' = losses + 1
      /\ UNCHANGED <<posts, poll, late, queue, lagged>>
  BY DEF Poll!DropAnnouncement, Poll!Lapse, Poll!LoseListener, Poll!client, Poll!channel
<1>2. losses \in Nat /\ posts \in 0..MaxPosts /\ MaxPosts \in Nat /\ MaxLosses \in Nat
  BY DEF PollIInv, Poll!TypeOK, PollAssumptions, Poll!PollBoundsAssumption
<1>3. losses' \in 0..MaxLosses /\ Poll!NoLostWakeup' /\ PollsConnected'
  BY <1>1, <1>2 DEF Poll!NoLostWakeup, PollsConnected
<1>4. ASSUME NEW i \in Instances, NEW k \in Keys, Poll!DropAnnouncement(i, k)
      PROVE  Poll!TypeOK' /\ PollTables' /\ PollsCounted'
  <2>1. PICK n \in {1, 2} :
          announce[i][k][n] > 0 /\ announce' = [announce EXCEPT ![i][k][n] = @ - 1]
    BY <1>4 DEF Poll!DropAnnouncement
  <2>2. UNCHANGED <<ready, listening, wire>>
    BY <1>4 DEF Poll!DropAnnouncement, Poll!channel
  <2>3. announce[i][k] \in Nat \X Nat
    BY DEF PollIInv, PollTables
  <2> DEFINE b == [announce[i][k] EXCEPT ![n] = @ - 1]
  <2>4. b \in Nat \X Nat /\ b[1] + b[2] <= announce[i][k][1] + announce[i][k][2]
    <3>1. CASE n = 1
      BY <2>1, <2>3, <3>1
    <3>2. CASE n = 2
      BY <2>1, <2>3, <3>2
    <3> QED
      BY <2>1, <3>1, <3>2
  <2>5. /\ announce' \in [Instances -> [Keys -> Nat \X Nat]]
        /\ announce'[i][k] = b
        /\ \A j \in Instances, l \in Keys :
             j # i \/ l # k => announce'[j][l] = announce[j][l]
    <3>1. announce' = [announce EXCEPT ![i][k] = b]
      BY <2>1
    <3>2. PollTables
      BY DEF PollIInv
    <3> HIDE DEF b
    <3>3. b \in Nat \X Nat
      BY <2>4
    <3> QED
      BY <3>1, <3>2, <3>3 DEF PollTables
  <2>6. PollsCounted'
    <3>1. announce'[i][k][1] + announce'[i][k][2] <= announce[i][k][1] + announce[i][k][2]
      BY <2>4, <2>5
    <3>2. ASSUME NEW j \in Instances, NEW l \in Keys
          PROVE  announce'[j][l][1] + announce'[j][l][2] <= posts'
      <4>1. /\ announce[j][l] \in Nat \X Nat /\ announce'[j][l] \in Nat \X Nat
            /\ announce[j][l][1] + announce[j][l][2] <= posts
        BY <2>5 DEF PollIInv, PollTables, PollsCounted
      <4>2. CASE j = i /\ l = k
        BY <1>1, <1>2, <3>1, <4>1, <4>2
      <4>3. CASE j # i \/ l # k
        BY <1>1, <2>5, <4>1, <4>3
      <4> QED
        BY <4>2, <4>3
    <3>3. \A l \in Keys : ready'[l] <= posts' + losses'
      BY <1>1, <1>2, <2>2 DEF PollIInv, Poll!TypeOK, PollsCounted
    <3> QED
      BY <3>2, <3>3 DEF PollsCounted
  <2>7. \A j \in Instances, l \in Keys :
          announce'[j][l] \in (0..MaxPosts) \X (0..MaxPosts)
    BY <1>1, <1>2, <2>5, <2>6 DEF PollsCounted
  <2> QED
    BY <1>1, <1>3, <2>2, <2>5, <2>6, <2>7 DEF PollIInv, Poll!TypeOK, PollTables, Poll!Subscribed
<1>5. ASSUME NEW k \in Keys, Poll!Lapse(k)
      PROVE  Poll!TypeOK' /\ PollTables' /\ PollsCounted'
  <2>1. /\ ready' = [ready EXCEPT ![k] = @ + 1] /\ UNCHANGED <<announce, listening, wire>>
    BY <1>5 DEF Poll!Lapse, Poll!channel
  <2>2. PollsCounted'
    BY <1>1, <1>2, <2>1 DEF PollIInv, Poll!TypeOK, PollsCounted
  <2>3. ready' \in [Keys -> 0..(MaxPosts + MaxLosses)]
    BY <1>1, <1>2, <1>3, <2>1, <2>2 DEF PollIInv, Poll!TypeOK, PollsCounted
  <2> QED
    BY <1>1, <1>3, <2>1, <2>2, <2>3 DEF PollIInv, Poll!TypeOK, PollTables, Poll!Subscribed
<1>6. ASSUME NEW i \in Instances, Poll!LoseListener(i)
      PROVE  Poll!TypeOK' /\ PollTables' /\ PollsCounted'
  <2>1. /\ listening' = listening \ {i} /\ wire' = [wire EXCEPT ![i] = <<>>]
        /\ UNCHANGED <<ready, announce>>
    BY <1>6 DEF Poll!LoseListener
  <2>2. wire' \in [Instances -> Seq(Keys)]
    BY <2>1 DEF PollIInv, PollTables
  <2>3. PollsCounted'
    BY <1>1, <1>2, <2>1 DEF PollIInv, Poll!TypeOK, PollsCounted
  <2> QED
    BY <1>1, <1>3, <2>1, <2>2, <2>3 DEF PollIInv, Poll!TypeOK, PollTables, Poll!Subscribed
<1> QED
  BY <1>3, <1>4, <1>5, <1>6 DEF PollIInv

LEMMA ReconnectStep ==
  ASSUME PollAssumptions, PollIInv, NEW i \in Instances, Poll!Reconnect(i)
  PROVE  PollIInv'
<1>1. /\ listening' = listening \cup {i}
      /\ UNCHANGED <<ready, posts, losses, announce, wire, poll, late, queue, lagged>>
  BY DEF Poll!Reconnect, Poll!store, Poll!client
<1>2. Poll!TypeOK' /\ PollTables' /\ PollsCounted' /\ PollsConnected'
  BY <1>1 DEF PollIInv, Poll!TypeOK, PollTables, PollsCounted, PollsConnected, Poll!Subscribed
<1>3. Poll!NoLostWakeup'
  BY <1>1 DEF PollIInv, Poll!NoLostWakeup, Poll!OnItsWay
<1> QED
  BY <1>2, <1>3 DEF PollIInv

\* A step of a poller leaves the signals of others alone; if it sleeps it has
\* seen an empty inbox, or it slept before and has not lost a signal.
LEMMA PollerMoves ==
  ASSUME PollAssumptions, PollIInv, NEW p \in Pollers,
         UNCHANGED <<posts, losses, announce, listening, wire>>,
         ready' \in [Keys -> Nat], \A k \in Keys : ready'[k] <= ready[k],
         NEW go \in {"first", "empty", "look", "wait", "last"},
         poll' = [poll EXCEPT ![p] = go],
         NEW q \in Seq(Keys), queue' = [queue EXCEPT ![p] = q], Len(q) <= Len(queue[p]),
         lagged' \subseteq lagged, lagged \subseteq lagged' \cup {p},
         late' \subseteq late, p \in late' => Poll!Subscribed(p)',
         go = "wait" => \/ ready[Wants[p]] = 0
                        \/ poll[p] = "wait" /\ (WillWake(p) => WillWake(p)')
  PROVE  PollIInv'
<1>1. /\ \A x \in Pollers \ {p} : /\ poll'[x] = poll[x] /\ queue'[x] = queue[x]
                                  /\ x \in lagged' <=> x \in lagged
      /\ poll'[p] = go /\ queue'[p] = q
  BY DEF PollIInv, Poll!TypeOK, PollTables
<1>2. PollTables' /\ PollsConnected'
  BY DEF PollIInv, PollTables, PollsConnected
<1>3. ready \in [Keys -> Nat] /\ posts \in Nat /\ losses \in Nat
      /\ MaxPosts \in Nat /\ MaxLosses \in Nat
  BY DEF PollIInv, Poll!TypeOK, PollAssumptions, Poll!PollBoundsAssumption
<1>4. PollsCounted'
  BY <1>3 DEF PollIInv, PollsCounted
<1>5. Poll!TypeOK'
  <2>1. ready' \in [Keys -> 0..(MaxPosts + MaxLosses)]
    BY <1>3 DEF PollIInv, Poll!TypeOK
  <2>2. late' \subseteq {x \in Pollers : Poll!Subscribed(x)'}
    BY <1>1 DEF PollIInv, Poll!TypeOK, Poll!Subscribed
  <2>3. \A x \in Pollers : queue'[x] \in Seq(Keys) /\ Len(queue'[x]) <= Capacity
    <3>1. Len(q) <= Capacity
      <4>1. Len(q) \in Nat /\ Len(queue[p]) \in Nat /\ Len(queue[p]) <= Capacity
        BY DEF PollIInv, Poll!TypeOK, PollTables
      <4> QED
        BY <4>1 DEF PollAssumptions, Poll!CapacityAssumption
    <3> QED
      BY <1>1, <3>1 DEF PollIInv, Poll!TypeOK
  <2> QED
    BY <2>1, <2>2, <2>3 DEF PollIInv, Poll!TypeOK, Poll!Subscribed
<1>6. Poll!NoLostWakeup'
  <2> SUFFICES ASSUME NEW x \in Pollers, poll'[x] = "wait", ready'[Wants[x]] > 0
               PROVE  poll[x] = "wait" /\ ready[Wants[x]] > 0 /\ (WillWake(x) => WillWake(x)')
    BY StillWakes
  <2>1. ready[Wants[x]] > 0
    <3>1. Wants[x] \in Keys
      BY DEF PollAssumptions, Poll!PollersAssumption
    <3>2. ready'[Wants[x]] \in Nat /\ ready[Wants[x]] \in Nat
      BY <1>3, <3>1
    <3> QED
      BY <3>1, <3>2
  <2>2. CASE x = p
    BY <1>1, <2>1, <2>2
  <2>3. CASE x # p
    BY <1>1, <2>1, <2>3 DEF WillWake, Poll!OnItsWay
  <2> QED
    BY <2>2, <2>3
<1> QED
  BY <1>2, <1>4, <1>5, <1>6 DEF PollIInv

LEMMA PollerStepKeeps ==
  ASSUME PollAssumptions, PollIInv, NEW p \in Pollers, Poll!PollerStep(p)
  PROVE  PollIInv'
<1>1. /\ UNCHANGED <<posts, losses, announce, listening, wire>>
      /\ poll \in [Pollers -> {"first", "empty", "look", "wait", "last"}]
      /\ ready \in [Keys -> Nat] /\ queue \in [Pollers -> Seq(Keys)]
      /\ late \subseteq {x \in Pollers : Poll!Subscribed(x)} /\ Wants[p] \in Keys
  <2>1. UNCHANGED <<posts, losses, announce, listening, wire>>
    BY
    DEF Poll!PollerStep, Poll!Find, Poll!FirstMiss, Poll!Subscribe, Poll!Miss, Poll!Receive,
        Poll!ReceiveLagged, Poll!TimeOut,
       Poll!LastMiss, Poll!store, Poll!channel
  <2>2. /\ poll \in [Pollers -> {"first", "empty", "look", "wait", "last"}]
        /\ late \subseteq {x \in Pollers : Poll!Subscribed(x)}
    BY DEF PollIInv, Poll!TypeOK
  <2>3. ready \in [Keys -> Nat] /\ queue \in [Pollers -> Seq(Keys)]
    BY DEF PollIInv, Poll!TypeOK, PollTables
  <2>4. Wants[p] \in Keys
    BY DEF PollAssumptions, Poll!PollersAssumption
  <2> QED
    BY <2>1, <2>2, <2>3, <2>4
<1>2. <<>> \in Seq(Keys) /\ Len(<<>>) = 0 /\ Len(queue[p]) \in Nat
  BY <1>1
\* Requests that are answered.
<1>3. ASSUME Poll!Answer(p), ready' = ready \/ (ready[Wants[p]] > 0 /\ Poll!Take(p))
      PROVE  PollIInv'
  <2>1. ready' \in [Keys -> Nat] /\ \A k \in Keys : ready'[k] <= ready[k]
    <3>1. CASE ready' = ready
      BY <1>1, <3>1
    <3>2. CASE ready[Wants[p]] > 0 /\ Poll!Take(p)
      BY <1>1, <3>2 DEF Poll!Take
    <3> QED
      BY <1>3, <3>1, <3>2
  <2>2. /\ poll' = [poll EXCEPT ![p] = "first"]
        /\ queue' = [queue EXCEPT ![p] = <<>>]
        /\ lagged' \subseteq lagged /\ lagged \subseteq lagged' \cup {p}
        /\ late' \subseteq late /\ p \notin late'
    BY <1>3 DEF Poll!Answer
  <2>3. Len(<<>>) <= Len(queue[p])
    BY <1>2
  <2> QED
    BY <1>1, <1>2, <2>1, <2>2, <2>3, PollerMoves
\* Requests that go on with what they have heard.
<1>4. ASSUME NEW go \in {"empty", "look", "wait", "last"},
             poll' = [poll EXCEPT ![p] = go], UNCHANGED <<ready, late, queue>>,
             lagged' \subseteq lagged, lagged \subseteq lagged' \cup {p},
             p \in late => go # "empty", go = "wait" => ready[Wants[p]] = 0
      PROVE  PollIInv'
  <2>1. queue' = [queue EXCEPT ![p] = queue[p]] /\ queue[p] \in Seq(Keys)
        /\ Len(queue[p]) <= Len(queue[p])
    BY <1>1, <1>2, <1>4
  <2>2. p \in late' => Poll!Subscribed(p)'
    BY <1>1, <1>4 DEF Poll!Subscribed
  <2>3. \A k \in Keys : ready[k] <= ready[k]
    BY <1>1
  <2> QED
    BY <1>1, <1>4, <2>1, <2>2, <2>3, PollerMoves
<1>5. CASE Poll!Find(p)
  BY <1>3, <1>5 DEF Poll!Find
<1>6. CASE Poll!FirstMiss(p)
  <2>1. p \notin late
    BY <1>1, <1>6 DEF Poll!FirstMiss, Poll!Subscribed
  <2> QED
    BY <1>4, <1>6, <2>1 DEF Poll!FirstMiss, Poll!store
<1>7. CASE Poll!Subscribe(p)
  BY <1>4, <1>7 DEF Poll!Subscribe, Poll!store
<1>8. CASE Poll!Miss(p)
  <2>1. CASE p \in late
    BY <1>3, <1>8, <2>1 DEF Poll!Miss, Poll!store
  <2>2. CASE p \notin late
    BY <1>4, <1>8, <2>2 DEF Poll!Miss, Poll!store
  <2> QED
    BY <2>1, <2>2
<1>9. CASE Poll!Receive(p)
  <2> DEFINE go == IF Head(queue[p]) = Wants[p] THEN "look" ELSE "wait"
  <2>1. /\ poll[p] = "wait" /\ queue[p] # <<>>
        /\ queue' = [queue EXCEPT ![p] = Tail(queue[p])]
        /\ poll' = [poll EXCEPT ![p] = go] /\ UNCHANGED <<ready, late, lagged>>
    BY <1>9 DEF Poll!Receive, Poll!store
  <2>2. /\ Tail(queue[p]) \in Seq(Keys) /\ Len(Tail(queue[p])) <= Len(queue[p])
        /\ \A j : Poll!Occurs(j, queue[p]) => j = Head(queue[p]) \/ Poll!Occurs(j, Tail(queue[p]))
    BY <1>1, <1>2, <2>1, OccursInTail
  <2>3. queue'[p] = Tail(queue[p])
    BY <1>1, <2>1
  <2>4. go = "wait" => (WillWake(p) => WillWake(p)')
    BY <1>1, <2>1, <2>2, <2>3 DEF WillWake, Poll!OnItsWay
  <2>5. p \in late' => Poll!Subscribed(p)'
    BY <1>1, <2>1 DEF Poll!Subscribed
  <2>6. \A k \in Keys : ready[k] <= ready[k]
    BY <1>1
  <2>7. go \in {"first", "empty", "look", "wait", "last"}
    OBVIOUS
  <2> HIDE DEF go
  <2> QED
    BY <1>1, <2>1, <2>2, <2>4, <2>5, <2>6, <2>7, PollerMoves
<1>10. CASE Poll!ReceiveLagged(p)
  BY <1>4, <1>10 DEF Poll!ReceiveLagged, Poll!store
<1>11. CASE Poll!TimeOut(p)
  BY <1>4, <1>11 DEF Poll!TimeOut, Poll!store
<1>12. CASE Poll!LastMiss(p)
  BY <1>3, <1>12 DEF Poll!LastMiss, Poll!store
<1> QED
  BY <1>5, <1>6, <1>7, <1>8, <1>9, <1>10, <1>11, <1>12 DEF Poll!PollerStep

LEMMA DeadlineStep ==
  ASSUME PollAssumptions, PollIInv, NEW p \in Pollers, Poll!Deadline(p)
  PROVE  PollIInv'
<1>1. /\ Poll!Subscribed(p) /\ late' = late \cup {p}
      /\ UNCHANGED <<ready, posts, losses, announce, listening, wire, poll, queue, lagged>>
  BY DEF Poll!Deadline, Poll!store, Poll!channel
<1>2. Poll!TypeOK' /\ PollTables' /\ PollsCounted' /\ PollsConnected'
  BY <1>1 DEF PollIInv, Poll!TypeOK, PollTables, PollsCounted, PollsConnected, Poll!Subscribed
<1>3. Poll!NoLostWakeup'
  BY <1>1 DEF PollIInv, Poll!NoLostWakeup, Poll!OnItsWay
<1> QED
  BY <1>2, <1>3 DEF PollIInv

LEMMA NextPollIInv ==
  ASSUME PollAssumptions, PollIInv, [Poll!Next]_(Poll!vars)
  PROVE  PollIInv'
<1>1. ASSUME NEW i \in Instances, NEW k \in Keys,
             Poll!Store(i, k) \/ Poll!NotifyLocal(i, k) \/ Poll!NotifyPostgres(i, k)
             \/ Poll!DropAnnouncement(i, k)
      PROVE  PollIInv'
  BY <1>1, StoreStep, NotifyLocalStep, NotifyPostgresStep, FaultStep
<1>2. ASSUME NEW k \in Keys, Poll!Lapse(k)
      PROVE  PollIInv'
  BY <1>2, FaultStep
<1>3. ASSUME NEW i \in Instances, Poll!Forward(i) \/ Poll!LoseListener(i) \/ Poll!Reconnect(i)
      PROVE  PollIInv'
  BY <1>3, ForwardStep, FaultStep, ReconnectStep
<1>4. ASSUME NEW p \in Pollers, Poll!PollerStep(p) \/ Poll!Deadline(p)
      PROVE  PollIInv'
  BY <1>4, PollerStepKeeps, DeadlineStep
<1>5. CASE UNCHANGED Poll!vars
  BY <1>5
  DEF Poll!vars, PollIInv, Poll!TypeOK, PollTables, PollsCounted, PollsConnected,
      Poll!NoLostWakeup, Poll!OnItsWay, Poll!Subscribed
<1> QED
  BY <1>1, <1>2, <1>3, <1>4, <1>5 DEF Poll!Next

\* The invariant the other theorems follow from: counters, receivers and
\* requests have their types, nothing is announced that was not stored, only
\* faults cost a listener, and every sleeper will be woken.
THEOREM PollInvariance ==
  ASSUME PollAssumptions
  PROVE  Poll!Spec => []PollIInv
<1>1. Poll!Init => PollIInv
  BY InitPollIInv
<1>2. PollIInv /\ [Poll!Next]_(Poll!vars) => PollIInv'
  BY NextPollIInv
<1> QED
  BY <1>1, <1>2, PTL DEF Poll!Spec

\* Counters, receivers and requests keep their types and bounds.
THEOREM PollTypeCorrect ==
  ASSUME PollAssumptions
  PROVE  Poll!Spec => []Poll!TypeOK
<1>1. PollIInv => Poll!TypeOK
  BY DEF PollIInv
<1> QED
  BY <1>1, PollInvariance, PTL

\* Until something fails, no poll sleeps beside a ready delivery without a
\* notification for it, for any number of instances and whatever the capacity
\* of the channels is (notify_inbox, long_poll_claim).
THEOREM NoPollIsForgotten ==
  ASSUME PollAssumptions
  PROVE  Poll!Spec => []Poll!NoLostWakeup
<1>1. PollIInv => Poll!NoLostWakeup
  BY DEF PollIInv
<1> QED
  BY <1>1, PollInvariance, PTL

LEMMA StepsAnswerFresh ==
  ASSUME PollAssumptions, PollIInv, [Poll!Next]_(Poll!vars)
  PROVE  Poll!EmptyAnswerIsFresh
<1> SUFFICES ASSUME NEW p \in Pollers, Poll!Subscribed(p), poll'[p] = "first", ready' = ready
             PROVE  ready[Wants[p]] = 0
  BY DEF Poll!EmptyAnswerIsFresh
<1>1. poll \in [Pollers -> {"first", "empty", "look", "wait", "last"}] /\ poll[p] # "first"
  BY DEF PollIInv, Poll!TypeOK, Poll!Subscribed
<1>2. PICK x \in Pollers : Poll!PollerStep(x)
  BY <1>1
  DEF Poll!vars, Poll!Next, Poll!Store, Poll!NotifyLocal, Poll!NotifyPostgres,
      Poll!DropAnnouncement, Poll!Lapse,
     Poll!Forward, Poll!LoseListener, Poll!Reconnect, Poll!Deadline, Poll!client
<1>3. x = p
  BY <1>1, <1>2
  DEF Poll!PollerStep, Poll!Find, Poll!FirstMiss, Poll!Subscribe, Poll!Miss, Poll!Receive,
      Poll!ReceiveLagged,
     Poll!TimeOut, Poll!LastMiss, Poll!Answer
<1>4. ~Poll!Find(p)
  <2>1. Wants[p] \in Keys /\ ready \in [Keys -> Nat]
    BY DEF PollIInv, Poll!TypeOK, PollAssumptions, Poll!PollersAssumption
  <2>2. [ready EXCEPT ![Wants[p]] = @ - 1][Wants[p]] = ready[Wants[p]] - 1
    BY <2>1
  <2> QED
    BY <2>1, <2>2 DEF Poll!Find, Poll!Take
<1>5. Poll!Miss(p) \/ Poll!LastMiss(p)
  BY <1>1, <1>2, <1>3, <1>4
  DEF Poll!PollerStep, Poll!FirstMiss, Poll!Subscribe, Poll!Receive, Poll!ReceiveLagged,
     Poll!TimeOut
<1> QED
  BY <1>5 DEF Poll!Miss, Poll!LastMiss

\* A subscribed poll that is answered empty has just looked in vain
\* (long_poll_claim).
THEOREM EmptyAnswersAreFresh ==
  ASSUME PollAssumptions
  PROVE  Poll!Spec => [][Poll!EmptyAnswerIsFresh]_(Poll!vars)
<1>1. PollIInv /\ [Poll!Next]_(Poll!vars) => Poll!EmptyAnswerIsFresh
  BY StepsAnswerFresh
<1> QED
  BY <1>1, PollInvariance, PTL DEF Poll!Spec
=============================================================================
