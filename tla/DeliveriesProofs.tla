-------------------------- MODULE DeliveriesProofs --------------------------
(***************************************************************************)
(* The properties of MCDeliveries, proved of its behaviours.               *)
(***************************************************************************)
EXTENDS MCDeliveries, FiniteSetTheorems, SequenceTheorems, TLAPS

Facts == INSTANCE ConsumerProofs WITH
  Count <- ForwardCount, Limit <- ForwardLimit, MaxFails <- ForwardFails,
  MaxFaults <- ForwardFaults, pc <- forwarder, faults <- breaks,
  Instances <- {"i1", "i2"}, Keys <- {"k1", "k2"}, Pollers <- {"p1", "p2"},
  Home <- Homes, Wants <- WantsOwn, Capacity <- 1, MaxPosts <- 2, MaxLosses <- 1,
  losses <- faults
MailFacts == INSTANCE MailProofs WITH Aliases <- Names, req <- web

-----------------------------------------------------------------------------
(* Polls *)

\* The part runs the component the theorems are about.
LEMMA PollsRun ==
  /\ Poll!PollersAssumption /\ Poll!CapacityAssumption /\ Poll!PollBoundsAssumption
       => Facts!PollAssumptions
  /\ Poll!Init => Facts!Poll!Init
  /\ Poll!Next => Facts!Poll!Next
  /\ UNCHANGED pollVars => UNCHANGED Facts!Poll!vars
<1>1. /\ Poll!PollersAssumption /\ Poll!CapacityAssumption /\ Poll!PollBoundsAssumption
           => Facts!PollAssumptions
      /\ Poll!Init => Facts!Poll!Init
  BY DEF Facts!PollAssumptions,
    Poll!PollersAssumption, Poll!CapacityAssumption,
    Poll!PollBoundsAssumption, Poll!Init, Facts!Poll!PollersAssumption,
    Facts!Poll!CapacityAssumption, Facts!Poll!PollBoundsAssumption,
    Facts!Poll!Init
<1>2. Poll!Next => Facts!Poll!Next
  BY DEF
    Poll!Next, Poll!Store, Poll!channel, Poll!client, Poll!NotifyLocal,
    Poll!Broadcast, Poll!Hears, Poll!Subscribed, Poll!store,
    Poll!NotifyPostgres, Poll!DropAnnouncement, Poll!Lapse, Poll!Forward,
    Poll!LoseListener, Poll!Reconnect, Poll!PollerStep, Poll!Find, Poll!Take,
    Poll!Answer, Poll!FirstMiss, Poll!Subscribe, Poll!Miss, Poll!Receive,
    Poll!ReceiveLagged, Poll!TimeOut, Poll!LastMiss, Poll!Deadline,
    Facts!Poll!Next, Facts!Poll!Store, Facts!Poll!channel, Facts!Poll!client,
    Facts!Poll!NotifyLocal, Facts!Poll!Broadcast, Facts!Poll!Hears,
    Facts!Poll!Subscribed, Facts!Poll!store, Facts!Poll!NotifyPostgres,
    Facts!Poll!DropAnnouncement, Facts!Poll!Lapse, Facts!Poll!Forward,
    Facts!Poll!LoseListener, Facts!Poll!Reconnect, Facts!Poll!PollerStep,
    Facts!Poll!Find, Facts!Poll!Take, Facts!Poll!Answer, Facts!Poll!FirstMiss,
    Facts!Poll!Subscribe, Facts!Poll!Miss, Facts!Poll!Receive,
    Facts!Poll!ReceiveLagged, Facts!Poll!TimeOut, Facts!Poll!LastMiss,
    Facts!Poll!Deadline
<1>3. UNCHANGED pollVars => UNCHANGED Facts!Poll!vars
  BY DEF pollVars, Facts!Poll!vars, Facts!Poll!client
<1> QED
  BY <1>1, <1>2, <1>3

PollsInv == part = "poll" => Facts!PollIInv

LEMMA InitPolls == Init => PollsInv
<1> QED
  BY PartsAssumption, PollsRun, Facts!InitPollIInv DEF Init, PartsAssumption, PollsInv

\* A step of the part is one of its component, or none.
LEMMA PollSteps ==
  ASSUME PollsInv, [Next]_vars, part' = "poll"
  PROVE  /\ part = "poll" /\ Facts!PollAssumptions /\ Facts!PollIInv
         /\ [Facts!Poll!Next]_(Facts!Poll!vars)
<1>1. part = "poll" /\ (Poll!Next \/ UNCHANGED pollVars)
  BY DEF Next, vars, InPoll, InPeek, InForward, InAdapters, InMail, InText, InKey
<1> QED
  BY <1>1, PartsAssumption, PollsRun DEF PartsAssumption, PollsInv

LEMMA NextPolls == PollsInv /\ [Next]_vars => PollsInv'
BY PollSteps, Facts!NextPollIInv DEF PollsInv

\* No poll sleeps beside a ready delivery that nothing will wake it for
\* (long_poll_claim, notify_inbox).
THEOREM PollsAreWoken == Spec => []PollsWake
<1>1. PollsInv => PollsWake
  <2> SUFFICES ASSUME Facts!Poll!TypeOK, Facts!Poll!NoLostWakeup
               PROVE  Poll!TypeOK /\ Poll!NoLostWakeup
    BY DEF PollsWake, PollsInv, Facts!PollIInv
  <2> QED
    BY DEF
    Poll!TypeOK, Poll!Subscribed, Poll!NoLostWakeup, Poll!Occurs,
    Poll!OnItsWay, Facts!Poll!TypeOK, Facts!Poll!Subscribed,
    Facts!Poll!NoLostWakeup, Facts!Poll!Occurs, Facts!Poll!OnItsWay
<1> QED
  BY <1>1, InitPolls, NextPolls, PTL DEF Spec

\* A poll that is answered empty has just looked in vain (long_poll_claim).
THEOREM EmptyAnswersFollowLooks == Spec => EmptyAnswerIsFresh
<1>1. PollsInv /\ [Next]_vars => (part = "poll" => Poll!EmptyAnswerIsFresh)
  <2> SUFFICES ASSUME PollsInv, [Next]_vars, part = "poll"
               PROVE  Poll!EmptyAnswerIsFresh
    OBVIOUS
  <2>1. part' = "poll"
    BY DEF Next, vars, InPoll, InPeek, InForward, InAdapters, InMail, InText, InKey
  <2>2. Facts!Poll!EmptyAnswerIsFresh
    BY <2>1, PollSteps, Facts!StepsAnswerFresh
  <2> QED
    BY <2>2 DEF
    Poll!EmptyAnswerIsFresh, Poll!Subscribed, Facts!Poll!EmptyAnswerIsFresh,
    Facts!Poll!Subscribed
<1> QED
  BY <1>1, InitPolls, NextPolls, PTL DEF Spec, EmptyAnswerIsFresh

-----------------------------------------------------------------------------
(* Peeks *)

\* An order of the elements of X, as a set of pairs.
Orders(R, X) ==
  /\ \A a, b \in X : a = b \/ <<a, b>> \in R \/ <<b, a>> \in R
  /\ \A a \in X : <<a, a>> \notin R
  /\ \A a, b, c \in X : <<a, b>> \in R /\ <<b, c>> \in R => <<a, c>> \in R

\* Among the subsets of a finite set that lack something one has no smaller one.
LEMMA SmallestSubset ==
  ASSUME NEW X, IsFiniteSet(X), NEW Bad \in SUBSET SUBSET X, Bad # {}
  PROVE  \E Y \in Bad : \A Z \in Bad : Z \subseteq Y => Z = Y
<1>1. IsWellFoundedOn(StrictSubsetOrdering(X), SUBSET X)
  BY FS_StrictSubsetOrderingWellFounded, FS_FiniteSubsetsOfFinite
<1>2. PICK Y \in Bad : \A Z \in Bad : <<Z, Y>> \notin StrictSubsetOrdering(X)
  BY <1>1, WFMin
<1> QED
  BY <1>2 DEF StrictSubsetOrdering

LEMMA LastExists ==
  ASSUME NEW X, IsFiniteSet(X), X # {}, NEW R, Orders(R, X)
  PROVE  \E m \in X : \A a \in X \ {m} : <<a, m>> \in R
<1> DEFINE Bad == {Y \in SUBSET X : Y # {} /\ ~\E m \in Y : \A a \in Y \ {m} : <<a, m>> \in R}
<1>1. SUFFICES ASSUME Bad # {}
               PROVE  FALSE
  OBVIOUS
<1>2. PICK Y \in Bad : \A Z \in Bad : Z \subseteq Y => Z = Y
  <2> HIDE DEF Bad
  <2> Bad \in SUBSET SUBSET X
    BY DEF Bad
  <2> QED
    BY <1>1, SmallestSubset
<1>3. PICK b \in Y : TRUE
  OBVIOUS
<1>4. PICK m \in Y \ {b} : \A a \in (Y \ {b}) \ {m} : <<a, m>> \in R
  <2>1. Y \ {b} \notin Bad /\ Y \ {b} \in SUBSET X
    BY <1>2, <1>3
  <2>2. Y \ {b} # {}
    <3>1. Y = {b} => FALSE
      OBVIOUS
    <3> QED
      BY <1>3, <3>1
  <2> QED
    BY <2>1, <2>2
<1>5. b \in X /\ m \in X /\ b # m /\ Y \in SUBSET X
  OBVIOUS
<1>6. CASE <<b, m>> \in R
  BY <1>4, <1>6
<1>7. CASE <<m, b>> \in R
  <2>1. \A a \in Y \ {b} : <<a, b>> \in R
    BY <1>4, <1>5, <1>7 DEF Orders
  <2> QED
    BY <1>3, <2>1
<1> QED
  BY <1>5, <1>6, <1>7 DEF Orders

LEMMA SortedExists ==
  ASSUME NEW X, IsFiniteSet(X), NEW R, Orders(R, X)
  PROVE  \E s \in [1..Cardinality(X) -> X] :
           \A i, j \in 1..Cardinality(X) : i < j => <<s[i], s[j]>> \in R
<1> DEFINE Sorts(s, Y) == \A i, j \in 1..Cardinality(Y) : i < j => <<s[i], s[j]>> \in R
           Bad == {Y \in SUBSET X : ~\E s \in [1..Cardinality(Y) -> Y] : Sorts(s, Y)}
<1>1. SUFFICES ASSUME Bad # {}
               PROVE  FALSE
  OBVIOUS
<1>2. PICK Y \in Bad : \A Z \in Bad : Z \subseteq Y => Z = Y
  <2> HIDE DEF Bad
  <2> Bad \in SUBSET SUBSET X
    BY DEF Bad
  <2> QED
    BY <1>1, SmallestSubset
<1>3. IsFiniteSet(Y) /\ Cardinality(Y) \in Nat
  BY FS_Subset, FS_CardinalityType
<1>4. CASE Y = {}
  <2>1. Cardinality(Y) = 0
    BY <1>4, FS_EmptySet
  <2>2. 1..Cardinality(Y) = {}
    BY <2>1
  <2>3. [i \in 1..Cardinality(Y) |-> i] \in [1..Cardinality(Y) -> Y]
    BY <2>2
  <2>4. Sorts([i \in 1..Cardinality(Y) |-> i], Y)
    BY <2>2
  <2> QED
    BY <2>3, <2>4
<1>5. CASE Y # {}
  <2>1. Orders(R, Y)
    BY DEF Orders
  <2>2. PICK m \in Y : \A a \in Y \ {m} : <<a, m>> \in R
    BY <1>3, <1>5, <2>1, LastExists
  <2> DEFINE Z == Y \ {m}
             n == Cardinality(Z)
  <2>3. n \in Nat /\ Cardinality(Y) = n + 1
    <3>1. IsFiniteSet(Y \ {m}) /\ Cardinality(Y \ {m}) = Cardinality(Y) - 1
      BY <1>3, FS_RemoveElement
    <3>2. Cardinality(Y \ {m}) \in Nat
      BY <3>1, FS_CardinalityType
    <3> QED
      BY <1>3, <3>1, <3>2
  <2>4. Z \notin Bad /\ Z \in SUBSET X
    BY <1>2, <2>2
  <2>5. PICK s \in [1..n -> Z] : Sorts(s, Z)
    BY <2>4
  <2> DEFINE t == [i \in 1..(n + 1) |-> IF i = n + 1 THEN m ELSE s[i]]
  <2> HIDE DEF Z, n
  <2>6. \A i \in 1..n : t[i] = s[i] /\ s[i] \in Z
    BY <2>3, <2>5
  <2>7. t[n + 1] = m /\ t \in [1..(n + 1) -> Y]
    BY <2>3, <2>5 DEF Z
  <2>8. ASSUME NEW i \in 1..(n + 1), NEW j \in 1..(n + 1), i < j
        PROVE  <<t[i], t[j]>> \in R
    <3> HIDE DEF t
    <3>1. i \in 1..n
      BY <2>3, <2>8
    <3>2. CASE j = n + 1
      BY <2>2, <2>6, <2>7, <3>1, <3>2 DEF Z
    <3>3. CASE j # n + 1
      BY <2>3, <2>5, <2>6, <2>8, <3>1, <3>3 DEF n
    <3> QED
      BY <3>2, <3>3
  <2>9. Sorts(t, Y)
    BY <2>3, <2>8
  <2> QED
    BY <2>3, <2>7, <2>9
<1> QED
  BY <1>4, <1>5

\* A sequence without repetitions of as many elements as a set has them all.
LEMMA NoneLeftOut ==
  ASSUME NEW X, IsFiniteSet(X), NEW s \in [1..Cardinality(X) -> X],
         \A i, j \in 1..Cardinality(X) : i # j => s[i] # s[j]
  PROVE  \A x \in X : \E i \in 1..Cardinality(X) : s[i] = x
<1> SUFFICES ASSUME NEW x \in X, \A i \in 1..Cardinality(X) : s[i] # x
             PROVE  FALSE
  OBVIOUS
<1>1. Cardinality(X) \in Nat /\ IsFiniteSet(X \ {x}) /\ Cardinality(X \ {x}) = Cardinality(X) - 1
  BY FS_RemoveElement, FS_CardinalityType
<1>2. IsFiniteSet(1..Cardinality(X)) /\ Cardinality(1..Cardinality(X)) = Cardinality(X)
  BY <1>1, FS_Interval
<1>3. s \in [1..Cardinality(X) -> X \ {x}]
  OBVIOUS
<1>4. Cardinality(X \ {x}) < Cardinality(1..Cardinality(X))
  BY <1>1, <1>2
<1> QED
  BY <1>1, <1>2, <1>3, <1>4, FS_PigeonHole

\* The greatest number of a set of bounded ones.
LEMMA GreatestIsThere ==
  ASSUME NEW n \in Nat, NEW X \in SUBSET (0..n), X # {}
  PROVE  Peek!Max(X) \in X /\ \A a \in X : Peek!Max(X) >= a
<1> DEFINE R == {x \in Nat \X Nat : x[1] < x[2]}
<1>1. IsFiniteSet(X)
  <2>1. IsFiniteSet(0..n)
    BY FS_Interval
  <2> QED
    BY <2>1, FS_Subset
<1>2. Orders(R, X)
  BY DEF Orders
<1>3. \E m \in X : \A a \in X \ {m} : <<a, m>> \in R
  <2> HIDE DEF R
  <2> QED
    BY <1>1, <1>2, LastExists
<1>4. \E m \in X : \A a \in X : m >= a
  <2>1. PICK m \in X : \A a \in X \ {m} : <<a, m>> \in R
    BY <1>3
  <2>2. \A a \in Nat : <<a, m>> \in R => a < m
    OBVIOUS
  <2> HIDE DEF R
  <2>3. \A a \in X : m >= a
    <3>1. \A a \in X : a \in Nat
      OBVIOUS
    <3>2. \A a \in X : a = m \/ a < m
      BY <2>1, <2>2, <3>1
    <3> QED
      BY <3>1, <3>2
  <2> QED
    BY <2>3
<1> QED
  BY <1>4 DEF Peek!Max

Cursors == {Peek!Start} \cup (Nat \X Nat)

\* Positions are ordered.
LEMMA PositionsAreOrdered ==
  /\ \A a \in Cursors : ~Peek!Before(a, a)
  /\ \A a, b \in Cursors : Peek!Before(a, b) => ~Peek!Before(b, a)
  /\ \A a, b \in Cursors : a = b \/ Peek!Before(a, b) \/ Peek!Before(b, a)
  /\ \A a, b, c \in Cursors : Peek!Before(a, b) /\ Peek!Before(b, c) => Peek!Before(a, c)
  /\ \A a \in Cursors : a # Peek!Start => Peek!Before(Peek!Start, a)
<1> USE DEF Cursors, Peek!Start
<1>1. \A a \in Cursors : a = <<a[1], a[2]>> /\ a[1] \in Int /\ a[2] \in Int
  OBVIOUS
<1>2. /\ \A a \in Cursors : ~Peek!Before(a, a)
      /\ \A a, b \in Cursors : Peek!Before(a, b) => ~Peek!Before(b, a)
      /\ \A a \in Cursors : a # Peek!Start => Peek!Before(Peek!Start, a)
  BY DEF Peek!Before
<1>3. \A a, b \in Cursors : a = b \/ Peek!Before(a, b) \/ Peek!Before(b, a)
  BY <1>1 DEF Peek!Before
<1>4. \A a, b, c \in Cursors : Peek!Before(a, b) /\ Peek!Before(b, c) => Peek!Before(a, c)
  BY <1>1 DEF Peek!Before
<1> QED
  BY <1>2, <1>3, <1>4

-----------------------------------------------------------------------------
(* The invariant *)

Stages == {"none", "open", "ready", "leased", "gone"}

PeekTypes ==
  /\ clock \in Nat
  /\ stage \in [Peek!Ids -> Stages] /\ stamp \in [Peek!Ids -> 0..clock]
  /\ pc \in {"idle", "sent", "first", "look", "wait", "last"}
  /\ page.items \in Seq(Peek!Ids) /\ Len(page.items) <= PeekLimit
  /\ page.cut \subseteq Peek!Ids
  /\ page.some \in BOOLEAN
  /\ read \in Seq(Peek!Ids) /\ owed \subseteq Peek!Ids

\* A delivery whose time is fixed.
Timed(d) == stage[d] # "none"
\* Places of the walk are Start and the keys of such deliveries.
Place(c) == c = Peek!Start \/ \E d \in Peek!Ids : Timed(d) /\ c = Peek!Key(d)

\* What the client has read lies behind its cursor, in order.
ReadBehind ==
  /\ Peek!InOrder(read)
  /\ \A i \in DOMAIN read : Timed(read[i]) /\ ~Peek!Before(cursor, Peek!Key(read[i]))

\* What it is owed lies ahead.
OwedAhead == \A d \in owed : Timed(d) /\ Peek!Before(cursor, Peek!Key(d))

\* A page on its way goes on from the cursor, and what it cuts lies behind it.
PageGoesOn ==
  /\ pc = "idle"
  /\ Peek!InOrder(page.items)
  /\ \A i \in DOMAIN page.items :
       /\ Timed(page.items[i])
       /\ Peek!Before(cursor, Peek!Key(page.items[i]))
       /\ ~Peek!Before(page.cursor, Peek!Key(page.items[i]))
  /\ Place(page.cursor) /\ ~Peek!Before(page.cursor, cursor)
  /\ \A d \in page.cut : Timed(d) /\ Peek!Before(page.cursor, Peek!Key(d))

PeekIInv ==
  /\ PeekTypes
  /\ Place(cursor)
  /\ ReadBehind /\ OwedAhead
  /\ IF page.some THEN PageGoesOn ELSE page = Peek!NoPage

LEMMA PeekConstants == PeekCount \in Nat /\ PeekLimit \in Nat \ {0} /\ PeekWindow \in Nat
BY PartsAssumption DEF PartsAssumption, Peek!PeekAssumption

LEMMA KeysArePlaces ==
  ASSUME PeekTypes
  PROVE  /\ \A d \in Peek!Ids : Peek!Key(d) \in Cursors /\ Peek!Key(d) # Peek!Start
         /\ \A c : Place(c) => c \in Cursors
<1>1. \A d \in Peek!Ids : stamp[d] \in Nat /\ d \in Nat
  BY PeekConstants DEF PeekTypes, Peek!Ids
<1> QED
  BY <1>1 DEF Peek!Key, Cursors, Place, Peek!Start

-----------------------------------------------------------------------------
(* A page *)

Ready == {d \in Peek!Ids : stage[d] = "ready" /\ Peek!Before(cursor, Peek!Key(d))}

LEMMA ReadyAreFound ==
  ASSUME PeekTypes, Place(cursor)
  PROVE  {d \in Peek!Ids : stage[d] = "ready" /\ Peek!After(d)} = Ready
<1> SUFFICES ASSUME NEW d \in Peek!Ids
             PROVE  Peek!After(d) <=> Peek!Before(cursor, Peek!Key(d))
  BY DEF Ready
<1>1. stamp[d] \in Nat /\ d \in Nat /\ Peek!Key(d) = <<stamp[d], d>>
  BY PeekConstants DEF PeekTypes, Peek!Ids, Peek!Key
<1>2. cursor \in Cursors
  BY KeysArePlaces
<1>3. CASE cursor = Peek!Start
  BY <1>1, <1>3 DEF Peek!After, Peek!Before, Peek!Start
<1>4. CASE cursor # Peek!Start
  <2>1. cursor[1] \in Nat /\ cursor[2] \in Nat
    BY <1>2, <1>4 DEF Cursors
  <2> QED
    BY <1>1, <1>4, <2>1 DEF Peek!After, Peek!Before
<1> QED
  BY <1>3, <1>4

\* The first elements of a sequence.
LEMMA FrontOf ==
  ASSUME NEW X, NEW s \in Seq(X), NEW n \in 0..Len(s)
  PROVE  /\ SubSeq(s, 1, n) \in Seq(X) /\ Len(SubSeq(s, 1, n)) = n
         /\ \A i \in 1..n : SubSeq(s, 1, n)[i] = s[i]
<1>1. \A i \in 1..n : s[i] \in X
  OBVIOUS
<1> QED
  BY <1>1, SubSeqProperties

\* The rows of the query before its limit.
LEMMA RowsOf ==
  ASSUME PeekTypes, Place(cursor)
  PROVE  \E s \in [1..Cardinality(Ready) -> Ready] :
           /\ Cardinality(Ready) \in Nat
           /\ Peek!InOrder(s)
           /\ \A x \in Ready : \E i \in 1..Cardinality(Ready) : s[i] = x
           /\ Peek!Rows = SubSeq(s, 1, Peek!Min({PeekLimit, Len(s)}))
<1> DEFINE n == Cardinality(Ready)
           R == {x \in Peek!Ids \X Peek!Ids : Peek!Before(Peek!Key(x[1]), Peek!Key(x[2]))}
<1>1. IsFiniteSet(Ready) /\ n \in Nat
  <2>1. IsFiniteSet(Peek!Ids)
    BY PeekConstants, FS_Interval DEF Peek!Ids
  <2> QED
    BY <2>1, FS_Subset, FS_CardinalityType DEF Ready
<1>2. \A a, b \in Peek!Ids : Peek!Key(a) = Peek!Key(b) => a = b
  BY DEF Peek!Key
<1>3. \A a, b \in Ready : <<a, b>> \in R <=> Peek!Before(Peek!Key(a), Peek!Key(b))
  BY DEF Ready
<1>4. Orders(R, Ready)
  <2> HIDE DEF R
  <2>1. \A a \in Ready : a \in Peek!Ids /\ Peek!Key(a) \in Cursors
    BY KeysArePlaces DEF Ready
  <2> QED
    BY <1>2, <1>3, <2>1, PositionsAreOrdered DEF Orders
<1>5. PICK q \in [1..n -> Ready] : \A i, j \in 1..n : i < j => <<q[i], q[j]>> \in R
  <2> HIDE DEF R
  <2> QED
    BY <1>1, <1>4, SortedExists
<1> HIDE DEF R
<1>6. Peek!SetToSeqs(Ready) = {f \in [1..n -> Ready] : \A i, j \in 1..n : i # j => f[i] # f[j]}
  <2>1. Peek!Cardinality(Ready) = Cardinality(Ready)
    BY DEF Peek!Cardinality, Cardinality
  <2> QED
    BY <2>1 DEF Peek!SetToSeqs
<1>7. q \in Peek!SetToSeqs(Ready)
  <2>1. \A i, j \in 1..n : i < j => q[i] # q[j]
    BY <1>4, <1>5 DEF Orders
  <2>2. \A i, j \in 1..n : i # j => i < j \/ j < i
    BY <1>1
  <2> QED
    BY <1>6, <2>1, <2>2
<1>8. Peek!InOrder(q)
  BY <1>3, <1>5 DEF Peek!InOrder
<1> DEFINE s == CHOOSE x \in Peek!SetToSeqs(Ready) : Peek!InOrder(x)
<1>9. s \in Peek!SetToSeqs(Ready) /\ Peek!InOrder(s)
  BY <1>7, <1>8
<1>10. Peek!Rows = SubSeq(s, 1, Peek!Min({PeekLimit, Len(s)}))
  BY ReadyAreFound DEF Peek!Rows
<1> HIDE DEF s
<1>11. s \in [1..n -> Ready] /\ \A x \in Ready : \E i \in 1..n : s[i] = x
  BY <1>1, <1>6, <1>9, NoneLeftOut
<1> QED
  BY <1>1, <1>9, <1>10, <1>11

\* A page has the first of the ready deliveries, in order.
LEMMA PageFinds ==
  ASSUME PeekTypes, Place(cursor), NEW items, items = Peek!Fitting(Peek!Rows)
  PROVE  /\ items \in Seq(Peek!Ids) /\ Len(items) <= PeekLimit
         /\ Peek!InOrder(items)
         /\ \A i \in DOMAIN items : items[i] \in Ready
         /\ items # <<>> =>
              \A d \in Ready \ Peek!ToSet(items) :
                Peek!Before(Peek!Key(items[Len(items)]), Peek!Key(d))
<1>1. PICK s \in [1..Cardinality(Ready) -> Ready] :
        /\ Cardinality(Ready) \in Nat
        /\ Peek!InOrder(s)
        /\ \A x \in Ready : \E i \in 1..Cardinality(Ready) : s[i] = x
        /\ Peek!Rows = SubSeq(s, 1, Peek!Min({PeekLimit, Len(s)}))
  BY RowsOf
<1>2. PICK n \in Nat : n = Cardinality(Ready)
  BY <1>1
<1>3. s \in Seq(Ready) /\ Len(s) = n /\ s \in [1..n -> Ready]
  BY <1>1, <1>2
<1> DEFINE m == Peek!Min({PeekLimit, n})
           rows == Peek!Rows
           fits == {k \in 1..Len(rows) : Peek!Used(SubSeq(rows, 1, k)) <= 2}
           l == Peek!Max({0} \cup fits)
<1>4. m \in 0..n /\ m <= PeekLimit
  <2>1. \E k \in {PeekLimit, n} : \A j \in {PeekLimit, n} : k <= j
    BY PeekConstants
  <2>2. m \in {PeekLimit, n} /\ \A j \in {PeekLimit, n} : m <= j
    BY <2>1 DEF Peek!Min
  <2> QED
    BY <2>2, PeekConstants
<1>5. rows = SubSeq(s, 1, m)
  BY <1>1, <1>3
<1> HIDE DEF m, rows
<1>6. rows \in Seq(Ready) /\ Len(rows) = m /\ \A i \in 1..m : rows[i] = s[i]
  BY <1>3, <1>4, <1>5, FrontOf
<1>7. l \in 0..m
  <2>1. {0} \cup fits \in SUBSET (0..m) /\ {0} \cup fits # {}
    BY <1>4, <1>6
  <2>2. m \in Nat
    BY <1>4
  <2> HIDE DEF fits
  <2>3. Peek!Max({0} \cup fits) \in {0} \cup fits
    BY <2>1, <2>2, GreatestIsThere
  <2> QED
    BY <2>1, <2>3
<1>8. items = SubSeq(rows, 1, l)
  BY DEF Peek!Fitting, rows
<1> HIDE DEF l
<1>9. items \in Seq(Ready) /\ Len(items) = l /\ \A i \in 1..l : items[i] = s[i]
  <2>1. items \in Seq(Ready) /\ Len(items) = l /\ \A i \in 1..l : items[i] = rows[i]
    BY <1>6, <1>7, <1>8, FrontOf
  <2> QED
    BY <1>4, <1>6, <1>7, <2>1
<1>10. DOMAIN items = 1..l /\ DOMAIN s = 1..n
  BY <1>3, <1>9
<1>11. \A i, j \in 1..n : i < j => Peek!Before(Peek!Key(s[i]), Peek!Key(s[j]))
  BY <1>1, <1>10 DEF Peek!InOrder
<1>12. Peek!InOrder(items)
  BY <1>4, <1>7, <1>9, <1>10, <1>11 DEF Peek!InOrder
<1>13. ASSUME items # <<>>, NEW d \in Ready, d \notin Peek!ToSet(items)
       PROVE  Peek!Before(Peek!Key(items[Len(items)]), Peek!Key(d))
  <2>1. l \in 1..n /\ items[Len(items)] = s[l]
    <3>1. l # 0
      BY <1>9, <1>13
    <3> QED
      BY <1>4, <1>7, <1>9, <3>1
  <2>2. PICK i \in 1..n : s[i] = d
    BY <1>1, <1>2
  <2>3. i \notin 1..l
    BY <1>9, <1>10, <1>13, <2>2 DEF Peek!ToSet
  <2>4. l < i
    BY <2>1, <2>3
  <2> QED
    BY <1>11, <2>1, <2>2, <2>4
<1>14. Ready \subseteq Peek!Ids
  BY DEF Ready
<1>15. items \in Seq(Peek!Ids) /\ Len(items) <= PeekLimit
  <2>1. l <= PeekLimit
    BY <1>4, <1>7, PeekConstants
  <2> QED
    BY <1>9, <1>14, <2>1
<1>16. \A i \in DOMAIN items : items[i] \in Ready
  BY <1>9
<1> QED
  BY <1>12, <1>13, <1>15, <1>16

\* The page a look answers with goes on from the cursor.
LEMMA PageIsGood ==
  ASSUME PeekIInv, NEW items, items = Peek!Fitting(Peek!Rows),
         page' = Peek!Page(items), pc' = "idle",
         UNCHANGED <<clock, stage, stamp, cursor, read, owed>>
  PROVE  PeekIInv'
<1>1. /\ items \in Seq(Peek!Ids) /\ Len(items) <= PeekLimit
      /\ Peek!InOrder(items)
      /\ \A i \in DOMAIN items : items[i] \in Ready
      /\ items # <<>> =>
           \A d \in Ready \ Peek!ToSet(items) :
             Peek!Before(Peek!Key(items[Len(items)]), Peek!Key(d))
  BY PageFinds DEF PeekIInv
<1>2. PeekTypes /\ Place(cursor) /\ cursor \in Cursors
  BY KeysArePlaces DEF PeekIInv
<1>3. page' = [items |-> items,
               cursor |-> IF items = <<>> THEN cursor ELSE Peek!Key(items[Len(items)]),
               cut |-> Ready \ Peek!ToSet(items), some |-> TRUE]
  BY DEF Peek!Page, Peek!Last, Ready
<1>4. \A d \in Ready : /\ d \in Peek!Ids /\ Timed(d) /\ Peek!Before(cursor, Peek!Key(d))
                       /\ Peek!Key(d) \in Cursors
  BY <1>2, KeysArePlaces DEF Ready, Timed
<1>5. Place(page'.cursor) /\ ~Peek!Before(page'.cursor, cursor)
  <2>1. CASE items = <<>>
    BY <1>2, <1>3, <2>1, PositionsAreOrdered
  <2>2. CASE items # <<>>
    <3>1. Len(items) \in DOMAIN items
      BY <1>1, <2>2
    <3>2. page'.cursor = Peek!Key(items[Len(items)]) /\ items[Len(items)] \in Ready
      BY <1>1, <1>3, <2>2, <3>1
    <3> QED
      BY <1>2, <1>4, <3>2, PositionsAreOrdered DEF Place
  <2> QED
    BY <2>1, <2>2
<1>6. \A i \in DOMAIN items : ~Peek!Before(page'.cursor, Peek!Key(items[i]))
  <2> SUFFICES ASSUME NEW i \in DOMAIN items
               PROVE  ~Peek!Before(page'.cursor, Peek!Key(items[i]))
    OBVIOUS
  <2>1. items # <<>> /\ Len(items) \in DOMAIN items /\ i <= Len(items) /\ i \in Nat
    BY <1>1
  <2>2. page'.cursor = Peek!Key(items[Len(items)])
    BY <1>3, <2>1
  <2>3. CASE i = Len(items)
    BY <1>1, <1>4, <2>1, <2>2, <2>3, PositionsAreOrdered
  <2>4. CASE i # Len(items)
    <3>1. Peek!Before(Peek!Key(items[i]), page'.cursor)
      BY <1>1, <2>1, <2>2, <2>4 DEF Peek!InOrder
    <3> QED
      BY <1>1, <1>4, <2>1, <2>2, <3>1, PositionsAreOrdered
  <2> QED
    BY <2>3, <2>4
<1>7. \A d \in Ready \ Peek!ToSet(items) : Peek!Before(page'.cursor, Peek!Key(d))
  BY <1>1, <1>3, <1>4
<1>8. /\ \A d : Peek!Key(d)' = Peek!Key(d) /\ (Timed(d)' <=> Timed(d))
      /\ \A c : Place(c)' <=> Place(c)
      /\ \A q : Peek!InOrder(q)' <=> Peek!InOrder(q)
  BY DEF Peek!Key, Timed, Place, Peek!InOrder
<1>9. PeekTypes'
  BY <1>1, <1>2, <1>3, <1>4 DEF PeekTypes
<1>10. PageGoesOn'
  BY <1>1, <1>3, <1>4, <1>5, <1>6, <1>7, <1>8 DEF PageGoesOn
<1>11. (Place(cursor) /\ ReadBehind /\ OwedAhead)'
  BY <1>8 DEF PeekIInv, ReadBehind, OwedAhead
<1> QED
  BY <1>3, <1>9, <1>10, <1>11 DEF PeekIInv

-----------------------------------------------------------------------------
(* The steps *)

LEMMA InitPeeks == Peek!Init => PeekIInv
<1> SUFFICES ASSUME Peek!Init
             PROVE  PeekIInv
  OBVIOUS
<1>1. PeekTypes
  BY PeekConstants DEF Peek!Init, PeekTypes, Stages, Peek!NoPage
<1>2. Place(cursor) /\ ReadBehind /\ OwedAhead
  BY DEF Peek!Init, Place, ReadBehind, OwedAhead, Peek!InOrder
<1> QED
  BY <1>1, <1>2 DEF Peek!Init, PeekIInv, Peek!NoPage

\* The walk stays as it is when no fixed time changes.
LEMMA WalkStays ==
  ASSUME PeekIInv, PeekTypes', UNCHANGED <<pc, page, cursor, read, owed>>,
         \A d \in Peek!Ids : Timed(d) => Timed(d)' /\ stamp'[d] = stamp[d]
  PROVE  PeekIInv'
<1>1. \A d \in Peek!Ids : Timed(d) => Timed(d)' /\ Peek!Key(d)' = Peek!Key(d)
  BY DEF Peek!Key
<1>2. \A c : Place(c) => Place(c)'
  BY <1>1 DEF Place
<1>3. /\ \A i \in DOMAIN read : read[i] \in Peek!Ids
      /\ \A i \in DOMAIN page.items : page.items[i] \in Peek!Ids
      /\ page.cut \subseteq Peek!Ids /\ owed \subseteq Peek!Ids
  BY DEF PeekIInv, PeekTypes
<1>4. ReadBehind'
  BY <1>1, <1>3 DEF PeekIInv, ReadBehind, Peek!InOrder
<1>5. OwedAhead'
  BY <1>1, <1>3 DEF PeekIInv, OwedAhead
<1>6. PageGoesOn => PageGoesOn'
  BY <1>1, <1>2, <1>3 DEF PageGoesOn, Peek!InOrder
<1> QED
  BY <1>2, <1>4, <1>5, <1>6 DEF PeekIInv

LEMMA OthersKeep ==
  ASSUME PeekIInv, NEW d \in Peek!Ids, Peek!Others(d)
  PROVE  PeekIInv'
<1> USE DEF PeekTypes, Stages, Timed, Peek!Move, Peek!Elsewhere, Peek!client
<1>1. PeekTypes
  BY DEF PeekIInv
<1>2. CASE Peek!Begin(d)
  <2>1. PeekTypes'
    BY <1>1, <1>2 DEF Peek!Begin
  <2> QED
    BY <1>1, <1>2, <2>1, WalkStays DEF Peek!Begin
<1>3. CASE Peek!Commit(d) \/ Peek!Abort(d) \/ Peek!Lease(d) \/ Peek!Free(d) \/ Peek!Ack(d)
  <2>1. PICK to \in Stages \ {"none"} :
          /\ stage[d] # "none" /\ stage' = [stage EXCEPT ![d] = to]
          /\ UNCHANGED <<clock, stamp, pc, page, ts, p, cursor, read, lost, owed>>
    BY <1>3 DEF Peek!Commit, Peek!Abort, Peek!Lease, Peek!Free, Peek!Ack
  <2>2. PeekTypes'
    BY <1>1, <2>1
  <2> QED
    BY <1>1, <2>1, <2>2, WalkStays
<1> QED
  BY <1>2, <1>3 DEF Peek!Others

LEMMA TickKeeps ==
  ASSUME PeekIInv, Peek!Tick
  PROVE  PeekIInv'
<1>1. PeekTypes'
  BY DEF PeekIInv, PeekTypes, Peek!Tick, Peek!Elsewhere, Peek!client
<1> QED
  BY <1>1, WalkStays DEF Peek!Tick, Peek!Elsewhere, Peek!client, Timed

\* A request that goes on while no page is on its way.
LEMMA RequestKeeps ==
  ASSUME PeekIInv, ~page.some, pc' \in {"idle", "sent", "first", "look", "wait", "last"},
         UNCHANGED <<clock, stage, stamp, page, cursor, read, owed>>
  PROVE  PeekIInv'
<1>1. PeekTypes'
  BY DEF PeekIInv, PeekTypes
<1>2. (Place(cursor) /\ ReadBehind /\ OwedAhead)'
  BY DEF PeekIInv, Place, ReadBehind, OwedAhead, Peek!InOrder, Peek!Key, Timed
<1> QED
  BY <1>1, <1>2 DEF PeekIInv

LEMMA AskKeeps ==
  ASSUME PeekIInv, Peek!Ask \/ Peek!Verify \/ Peek!Wake \/ Peek!Deadline
  PROVE  PeekIInv'
<1>1. ~page.some
  BY DEF PeekIInv, PageGoesOn, Peek!Ask, Peek!Verify, Peek!Wake, Peek!Deadline, Peek!NoPage
<1>2. /\ pc' \in {"idle", "sent", "first", "look", "wait", "last"}
      /\ UNCHANGED <<clock, stage, stamp, page, cursor, read, owed>>
  BY DEF Peek!Ask, Peek!Verify, Peek!Wake, Peek!Deadline, Peek!store, Peek!client
<1> QED
  BY <1>1, <1>2, RequestKeeps

LEMMA LookKeeps ==
  ASSUME PeekIInv, Peek!Look
  PROVE  PeekIInv'
<1> DEFINE items == Peek!Fitting(Peek!Rows)
<1>1. UNCHANGED <<clock, stage, stamp, cursor, read, owed>>
  BY DEF Peek!Look, Peek!store, Peek!client
<1>2. \/ pc' = "idle" /\ page' = Peek!Page(items)
      \/ pc' \in {"look", "wait"} /\ UNCHANGED page
  BY DEF Peek!Look
<1>3. ~page.some
  BY DEF PeekIInv, PageGoesOn, Peek!Look, Peek!NoPage
<1> HIDE DEF items
<1>4. CASE pc' = "idle" /\ page' = Peek!Page(items)
  BY <1>1, <1>4, PageIsGood DEF items
<1>5. CASE pc' \in {"look", "wait"} /\ UNCHANGED page
  BY <1>1, <1>3, <1>5, RequestKeeps
<1> QED
  BY <1>2, <1>4, <1>5

LEMMA LoseKeeps ==
  ASSUME PeekIInv, Peek!Lose
  PROVE  PeekIInv'
<1>1. /\ UNCHANGED <<clock, stage, stamp, cursor, read, owed, pc>>
      /\ page' = Peek!NoPage
  BY DEF Peek!Lose, Peek!store
<1>2. PeekTypes'
  BY <1>1, PeekConstants DEF PeekIInv, PeekTypes, Peek!NoPage
<1>3. (Place(cursor) /\ ReadBehind /\ OwedAhead)'
  BY <1>1 DEF PeekIInv, Place, ReadBehind, OwedAhead, Peek!InOrder, Peek!Key, Timed
<1> QED
  BY <1>1, <1>2, <1>3 DEF PeekIInv, Peek!NoPage

\* The client's cursor moves to the end of what it receives.
LEMMA ReceiveKeeps ==
  ASSUME PeekIInv, Peek!Receive
  PROVE  PeekIInv'
<1>1. /\ UNCHANGED <<clock, stage, stamp, pc>>
      /\ read' = read \o page.items /\ cursor' = page.cursor
      /\ owed' = page.cut /\ page' = Peek!NoPage
  BY DEF Peek!Receive, Peek!store
<1>2. PeekTypes /\ Place(cursor) /\ ReadBehind /\ PageGoesOn
  BY DEF PeekIInv, Peek!Receive
<1> DEFINE n == Len(read)
           k == Len(page.items)
<1>3. /\ n \in Nat /\ k \in Nat
      /\ read' \in Seq(Peek!Ids) /\ Len(read') = n + k
      /\ \A i \in 1..n : read'[i] = read[i] /\ i \in DOMAIN read
      /\ \A i \in 1..(n + k) :
           i \notin 1..n => read'[i] = page.items[i - n] /\ i - n \in DOMAIN page.items
  BY <1>1, <1>2, ConcatProperties DEF PeekTypes
<1> HIDE DEF n, k
<1>4. PeekTypes'
  BY <1>1, <1>2, <1>3, PeekConstants DEF PeekTypes, Peek!NoPage
<1>5. \A d : Peek!Key(d)' = Peek!Key(d) /\ (Timed(d)' <=> Timed(d))
  BY <1>1 DEF Peek!Key, Timed
<1>6. /\ cursor \in Cursors /\ page.cursor \in Cursors
      /\ \A d \in Peek!Ids : Peek!Key(d) \in Cursors
      /\ \A i \in DOMAIN read : read[i] \in Peek!Ids
      /\ \A i \in DOMAIN page.items : page.items[i] \in Peek!Ids
  BY <1>2, KeysArePlaces DEF PeekTypes, PageGoesOn
<1>7. /\ \A i \in DOMAIN read : ~Peek!Before(page.cursor, Peek!Key(read[i]))
      /\ \A i \in DOMAIN read, j \in DOMAIN page.items :
           Peek!Before(Peek!Key(read[i]), Peek!Key(page.items[j]))
  BY <1>2, <1>6, PositionsAreOrdered DEF ReadBehind, PageGoesOn
<1>8. ASSUME NEW i \in 1..(n + k), NEW j \in 1..(n + k), i < j
      PROVE  Peek!Before(Peek!Key(read'[i]), Peek!Key(read'[j]))
  <2>1. CASE j \in 1..n
    BY <1>2, <1>3, <1>8, <2>1 DEF ReadBehind, Peek!InOrder
  <2>2. CASE i \in 1..n /\ j \notin 1..n
    BY <1>3, <1>7, <2>2
  <2>3. CASE i \notin 1..n /\ j \notin 1..n
    <3>1. i - n < j - n
      BY <1>3, <1>8
    <3> QED
      BY <1>2, <1>3, <2>3, <3>1 DEF PageGoesOn, Peek!InOrder
  <2>4. j \in 1..n => i \in 1..n
    BY <1>3, <1>8
  <2> QED
    BY <2>1, <2>2, <2>3, <2>4
<1>9. \A i \in 1..(n + k) : Timed(read'[i]) /\ ~Peek!Before(page.cursor, Peek!Key(read'[i]))
  BY <1>2, <1>3, <1>7 DEF ReadBehind, PageGoesOn
<1>10. DOMAIN read' = 1..(n + k)
  BY <1>3
<1>11. ReadBehind'
  BY <1>1, <1>5, <1>8, <1>9, <1>10 DEF ReadBehind, Peek!InOrder
<1>12. Place(cursor)' /\ OwedAhead'
  BY <1>1, <1>2, <1>5 DEF PageGoesOn, Place, OwedAhead
<1> QED
  BY <1>1, <1>4, <1>11, <1>12 DEF PeekIInv, Peek!NoPage

LEMMA NextPeeks == PeekIInv /\ [Peek!Next]_(Peek!vars) => PeekIInv'
<1> SUFFICES ASSUME PeekIInv, [Peek!Next]_(Peek!vars)
             PROVE  PeekIInv'
  OBVIOUS
<1>1. CASE UNCHANGED Peek!vars
  <2>1. PeekTypes'
    BY <1>1 DEF PeekIInv, PeekTypes, Peek!vars
  <2> QED
    BY <1>1, <2>1, WalkStays DEF Peek!vars, Timed
<1>2. CASE \E d \in Peek!Ids : Peek!Others(d)
  BY <1>2, OthersKeep
<1>3. CASE Peek!Tick
  BY <1>3, TickKeeps
<1>4. CASE Peek!Ask \/ Peek!Verify \/ Peek!Wake \/ Peek!Deadline
  BY <1>4, AskKeeps
<1>5. CASE Peek!Look
  BY <1>5, LookKeeps
<1>6. CASE Peek!Receive
  BY <1>6, ReceiveKeeps
<1>7. CASE Peek!Lose
  BY <1>7, LoseKeeps
<1> QED
  BY <1>1, <1>2, <1>3, <1>4, <1>5, <1>6, <1>7 DEF Peek!Next

PeekInv == part = "peek" => PeekIInv

LEMMA NextPeek == PeekInv /\ [Next]_vars => PeekInv'
<1> SUFFICES ASSUME PeekInv, [Next]_vars, part' = "peek"
             PROVE  PeekIInv'
  BY DEF PeekInv
<1>1. part = "peek" /\ (Peek!Next \/ UNCHANGED peekVars)
  BY DEF Next, vars, InPoll, InPeek, InForward, InAdapters, InMail, InText, InKey
<1>2. UNCHANGED peekVars => UNCHANGED Peek!vars
  BY DEF peekVars, Peek!vars
<1> QED
  BY <1>1, <1>2, NextPeeks DEF PeekInv

\* A client that passes back its cursors reads in one order and nothing twice,
\* and what a page leaves out, because of its limit or of the budget of an
\* answer, stays ahead of the cursor (peek_messages, page_from_rows).
THEOREM CursorsGoOn == Spec => []PeekInOrder
<1>1. Init => PeekInv
  BY InitPeeks DEF Init, PeekInv
<1>2. PeekInv => PeekInOrder
  <2> SUFFICES ASSUME PeekIInv
               PROVE  Peek!TypeOK /\ Peek!ReadInOrder /\ Peek!CutIsAhead
    BY DEF PeekInv, PeekInOrder
  <2>1. cursor = Peek!Start \/ cursor \in {Peek!Key(d) : d \in Peek!Ids}
    BY DEF PeekIInv, Place
  <2>2. page.some => pc = "idle" /\ ~Peek!Before(page.cursor, cursor)
    BY DEF PeekIInv, PageGoesOn
  <2>3. ~page.some => page = Peek!NoPage
    BY DEF PeekIInv
  <2>4. Peek!TypeOK
    BY <2>1, <2>2, <2>3 DEF PeekIInv, PeekTypes, Stages, Peek!TypeOK
  <2> QED
    BY <2>4 DEF PeekIInv, ReadBehind, OwedAhead, Peek!ReadInOrder, Peek!CutIsAhead
<1> QED
  BY <1>1, <1>2, NextPeek, PTL DEF Spec

-----------------------------------------------------------------------------
(* Forwarders *)

\* The part runs the component the theorems are about.
LEMMA ForwardersRun ==
  /\ Forward!ForwarderAssumption => Facts!ForwarderAssumption
  /\ Forward!Init => Facts!Init
  /\ Forward!Next => Facts!Next
  /\ UNCHANGED forwardVars => UNCHANGED Facts!vars
<1>1. /\ Forward!ForwarderAssumption => Facts!ForwarderAssumption
      /\ Forward!Init => Facts!Init
  BY DEF
    Forward!ForwarderAssumption, Forward!Init, Forward!Ids, Forward!NoAnswer,
    Facts!ForwarderAssumption, Facts!Init, Facts!Ids,
    Facts!NoAnswer
<1>2. /\ \A S : Forward!Cardinality(S) = Facts!Cardinality(S)
      /\ \A s : Forward!ToSet(s) = Facts!ToSet(s)
  BY DEF Forward!Cardinality, Facts!Cardinality, Forward!ToSet, Facts!ToSet
<1>3. \A S : Forward!SetToSeqs(S) = Facts!SetToSeqs(S)
  BY <1>2 DEF Forward!SetToSeqs, Facts!SetToSeqs
<1>4. \A d : /\ Forward!Post(d) => Facts!Post(d)
             /\ Forward!Accept(d) => Facts!Accept(d)
             /\ Forward!Lapse(d) => Facts!Lapse(d)
  BY <1>2 DEF
    Forward!Post, Forward!work, Forward!net, Forward!Accept, Forward!Lapse,
    Forward!Held, Forward!Put, Forward!Ids, Facts!Post,
    Facts!work, Facts!net, Facts!Accept,
    Facts!Lapse, Facts!Held, Facts!Put, Facts!Ids
<1>5. \A f : /\ Forward!Start(f) => Facts!Start(f)
             /\ Forward!Send(f) => Facts!Send(f)
             /\ Forward!Take(f) => Facts!Take(f)
  BY <1>2 DEF
    Forward!Start, Forward!Go, Forward!net, Forward!Send, Forward!Waits,
    Forward!Call, Forward!Handled, Forward!Rest, Forward!work, Forward!Take,
    Forward!NoAnswer, Forward!Exit, Facts!Start, Facts!Go,
    Facts!net, Facts!Send, Facts!Waits,
    Facts!Call, Facts!Handled, Facts!Rest,
    Facts!work, Facts!Take, Facts!NoAnswer,
    Facts!Exit
<1>6. \A f : /\ Forward!Forwarded(f) => Facts!Forwarded(f)
             /\ Forward!Refused(f) => Facts!Refused(f)
             /\ Forward!Break(f) => Facts!Break(f)
             /\ Forward!Crash(f) => Facts!Crash(f)
  BY <1>2 DEF
    Forward!Forwarded, Forward!Go, Forward!net, Forward!Refused,
    Forward!Failure, Forward!Break, Forward!Waits, Forward!Orphan,
    Forward!NoAnswer, Forward!Exit, Forward!Crash, Facts!Forwarded,
    Facts!Go, Facts!net, Facts!Refused,
    Facts!Failure, Facts!Break, Facts!Waits,
    Facts!Orphan, Facts!NoAnswer, Facts!Exit,
    Facts!Crash
<1>7. \A c : /\ Forward!Serve(c) => Facts!Serve(c)
             /\ Forward!Vanish(c) => Facts!Vanish(c)
  <2>1. Forward!Oldest = Facts!Oldest
    BY <1>2 DEF
    Forward!Oldest, Forward!Ready, Forward!Ids, Facts!Oldest,
    Facts!Ready, Facts!Ids
  <2>2. /\ \A S, to : Forward!Put(S, to) = Facts!Put(S, to)
        /\ \A S : Forward!Stored(S) = Facts!Stored(S)
    BY DEF
    Forward!Put, Forward!Ids, Forward!Stored, Facts!Put,
    Facts!Ids, Facts!Stored
  <2>3. \A c : Forward!ServeClaim(c) => Facts!ServeClaim(c)
    BY <1>3, <2>1, <2>2 DEF Forward!ServeClaim, Facts!ServeClaim
  <2>4. \A c : Forward!ServeIds(c) => Facts!ServeIds(c)
    BY <2>2 DEF Forward!ServeIds, Facts!ServeIds
  <2> QED
    BY <2>3, <2>4 DEF Forward!Serve, Facts!Serve, Forward!Vanish, Facts!Vanish,
    Forward!work, Facts!work
<1>8. Forward!Next => Facts!Next
  BY <1>4, <1>5, <1>6, <1>7 DEF Forward!Next, Facts!Next, Forward!Ids, Facts!Ids
<1>9. UNCHANGED forwardVars => UNCHANGED Facts!vars
  BY DEF forwardVars, Facts!vars
<1> QED
  BY <1>1, <1>8, <1>9

ForwardInv == part = "forward" => Facts!IInv

LEMMA InitForward == Init => ForwardInv
BY PartsAssumption, ForwardersRun, Facts!InitIInv DEF Init, PartsAssumption, ForwardInv

\* A step of the part is one of its component, or none.
LEMMA ForwardSteps ==
  ASSUME ForwardInv, [Next]_vars, part' = "forward"
  PROVE  /\ part = "forward" /\ Facts!ForwarderAssumption /\ Facts!IInv
         /\ [Facts!Next]_(Facts!vars)
<1>1. part = "forward" /\ (Forward!Next \/ UNCHANGED forwardVars)
  BY DEF Next, vars, InPoll, InPeek, InForward, InAdapters, InMail, InText, InKey
<1> QED
  BY <1>1, PartsAssumption, ForwardersRun DEF PartsAssumption, ForwardInv

LEMMA NextForward == ForwardInv /\ [Next]_vars => ForwardInv'
BY ForwardSteps, Facts!NextIInv DEF ForwardInv

\* A delivery leaves the inbox only when the target took it, and the target
\* sees it again only after a fault, with any number of forwarders, faults and
\* refusals (forward_loop, post_forward, process_batch, ack).
THEOREM ForwardersForwardOnce == Spec => []ForwardsOnce
<1>1. ForwardInv => ForwardsOnce
  <2> SUFFICES ASSUME part = "forward", Facts!IInv
               PROVE  Forward!TypeOK /\ Forward!AckedWasTaken /\ Forward!OncePerFault
    BY DEF ForwardsOnce, ForwardInv
  <2>1. Facts!ForwarderAssumption
    BY PartsAssumption, ForwardersRun DEF PartsAssumption
  <2>2. Facts!TypeOK
    BY <2>1, Facts!TypesHold
  <2>3. Facts!AckedWasTaken
    BY DEF Facts!IInv, Facts!Agreed
  <2>4. Facts!OncePerFault
    BY Facts!FewMeansOnce
  <2>5. Forward!TypeOK
    BY <2>2 DEF Forward!Cardinality, Facts!Cardinality,
    Forward!TypeOK, Forward!Ids, Facts!TypeOK, Facts!Ids
  <2> QED
    BY <2>3, <2>4, <2>5 DEF
    Forward!AckedWasTaken, Forward!Ids, Forward!OncePerFault,
    Facts!AckedWasTaken, Facts!Ids, Facts!OncePerFault
<1> QED
  BY <1>1, InitForward, NextForward, PTL DEF Spec

\* A step of the forwarders and their inbox is one of the bounded store that
\* Inbox implements, or none (process_batch, claim_once, ack_messages).
THEOREM ForwardersUseStore == Spec => ForwardersKeepStore
<1>1. ForwardInv /\ [Next]_vars
        => (part = "forward" => [Forward!Store!Next]_(Forward!Store!vars))
  <2> SUFFICES ASSUME ForwardInv, [Next]_vars, part = "forward"
               PROVE  [Forward!Store!Next]_(Forward!Store!vars)
    OBVIOUS
  <2>1. part' = "forward"
    BY DEF Next, vars, InPoll, InPeek, InForward, InAdapters, InMail, InText, InKey
  <2>2. [Facts!Store!Next]_(Facts!Store!vars)
    BY <2>1, ForwardSteps, Facts!StoreSteps
  <2> QED
    BY <2>2 DEF Forward!Store!Cardinality, Facts!Store!Cardinality,
    Forward!Ids, Facts!Ids,
    Forward!Store!Next, Forward!Store!Post, Forward!Store!Accept,
    Forward!Store!Refuse, Forward!Store!Fail, Forward!Store!Reserve,
    Forward!Store!Free, Forward!Store!Settle, Forward!Store!Expire,
    Forward!Store!vars, Facts!Store!Next, Facts!Store!Post,
    Facts!Store!Accept, Facts!Store!Refuse,
    Facts!Store!Fail, Facts!Store!Reserve,
    Facts!Store!Free, Facts!Store!Settle,
    Facts!Store!Expire, Facts!Store!vars
<1> QED
  BY <1>1, InitForward, NextForward, PTL DEF Spec, ForwardersKeepStore

-----------------------------------------------------------------------------
(* Adapters *)

\* How often an answer said, or would have said, that a request is stored: the
\* commits and answers that were lost, and an answer that was not.
Queued(d) ==
  unanswered[d] + (IF reply[d] = 202 /\ delivery[d] \in {"answer", "done"} THEN 1 ELSE 0)

\* What a handler stores.
Passes(r) == Adapter!Gate(r) = 0 /\ r.keys # <<>> /\ ~r.large

AdapterTypes ==
  /\ req \in [Events -> Adapter!RequestType]
  /\ delivery \in [Events -> {"send", "gate", "store", "answer", "done"}]
  /\ reply \in [Events -> {0, 1, 202, 400, 401, 413, 415, 502, 409}]
  /\ stored \in [Events -> [Inboxes -> Nat]]
  /\ held \in [Inboxes -> 0..InboxLimit]
  /\ errors \in 0..AdapterFaults
  /\ unanswered \in [Events -> Nat]

\* Every recipient has a copy for each answer, and nobody else has one.
CopiesFit(d) ==
  \A i \in Inboxes : stored[d][i] = IF Adapter!Copies(req[d])[i] = 1 THEN Queued(d) ELSE 0

\* What an answer says of its request; only what passes is ever stored, and an
\* answer is lost at the price of a fault.
AnswerFits(d) ==
  /\ unanswered[d] <= errors
  /\ delivery[d] = "store" \/ unanswered[d] > 0 => Passes(req[d])
  /\ delivery[d] \in {"answer", "done"} =>
       \/ reply[d] \in {202, 409, 502} /\ Passes(req[d])
       \/ reply[d] = Adapter!Gate(req[d]) /\ reply[d] # 0
       \/ reply[d] \in {400, 413} /\ Adapter!Gate(req[d]) = 0 /\ ~Passes(req[d])
  /\ delivery[d] = "done" => reply[d] \notin {409, 502}

AdapterIInv ==
  AdapterTypes /\ \A d \in Events : CopiesFit(d) /\ AnswerFits(d)

\* Gate tells handshakes and events from what is refused.
LEMMA GateAnswers ==
  ASSUME NEW r \in Adapter!RequestType
  PROVE  /\ Adapter!Gate(r) \in {0, 1, 400, 401, 415}
         /\ Adapter!Handshake(r) <=> Adapter!Gate(r) = 1
         /\ Adapter!Event(r) <=> Passes(r)
<1> DEFINE Answered(g) == /\ g \in {0, 1, 400, 401, 415}
                          /\ Adapter!Handshake(r) <=> g = 1
                          /\ Adapter!Event(r) <=> g = 0 /\ r.keys # <<>> /\ ~r.large
<1> SUFFICES Answered(Adapter!Gate(r))
  BY DEF Passes
<1>1. /\ r.to \in {"webmention", "websub", "slack", "pingback", "meta", "cloudevents", "discord",
                  "plain"}
      /\ r.method \in {"GET", "POST"} /\ r.signed \in BOOLEAN /\ r.large \in BOOLEAN
  BY DEF Adapter!RequestType
<1> USE DEF Adapter!StoreIt, Adapter!Challenge
<1> HIDE DEF Answered
<1>2. CASE r.to = "webmention"
  <2>1. Adapter!Gate(r) = Adapter!CheckedForm(r, "form")
    BY <1>2 DEF Adapter!Gate
  <2>2. CASE r.media # "form"
    BY <1>2, <2>1, <2>2 DEF Answered, Adapter!CheckedForm, Adapter!Handshake, Adapter!Event
  <2>3. CASE r.media = "form" /\ r.body # "event"
    BY <1>2, <2>1, <2>3 DEF Answered, Adapter!CheckedForm, Adapter!Handshake, Adapter!Event
  <2>4. CASE r.media = "form" /\ r.body = "event"
    BY <1>2, <2>1, <2>4 DEF Answered, Adapter!CheckedForm, Adapter!Handshake, Adapter!Event
  <2> QED
    BY <2>2, <2>3, <2>4
<1>3. CASE r.to = "pingback"
  <2>1. Adapter!Gate(r) = Adapter!CheckedForm(r, "xml")
    BY <1>3 DEF Adapter!Gate
  <2>2. CASE r.media # "xml"
    BY <1>3, <2>1, <2>2 DEF Answered, Adapter!CheckedForm, Adapter!Handshake, Adapter!Event
  <2>3. CASE r.media = "xml" /\ r.body # "event"
    BY <1>3, <2>1, <2>3 DEF Answered, Adapter!CheckedForm, Adapter!Handshake, Adapter!Event
  <2>4. CASE r.media = "xml" /\ r.body = "event"
    BY <1>3, <2>1, <2>4 DEF Answered, Adapter!CheckedForm, Adapter!Handshake, Adapter!Event
  <2> QED
    BY <2>2, <2>3, <2>4
<1>4. CASE r.to = "slack"
  <2>1. Adapter!Gate(r) = Adapter!Slack(r)
    BY <1>4 DEF Adapter!Gate
  <2>2. Adapter!Handshake(r) <=> r.media = "json" /\ r.body = "challenge"
    BY <1>4 DEF Adapter!Handshake
  <2>3. Adapter!Event(r) <=> /\ r.keys # <<>> /\ ~r.large /\ ~Adapter!Handshake(r)
                             /\ r.media = "json" /\ r.body \notin {"junk", "unnamed challenge"}
    BY <1>4 DEF Adapter!Event
  <2>4. CASE r.media # "json"
    <3>1. Adapter!Slack(r) = 415
      BY <2>4 DEF Adapter!Slack
    <3>2. ~Adapter!Handshake(r) /\ ~Adapter!Event(r)
      BY <2>2, <2>3, <2>4
    <3> QED
      BY <2>1, <3>1, <3>2 DEF Answered
  <2>5. CASE r.media = "json" /\ r.body \in {"junk", "unnamed challenge"}
    <3>1. Adapter!Slack(r) = 400
      BY <2>5 DEF Adapter!Slack
    <3>2. ~Adapter!Handshake(r) /\ ~Adapter!Event(r)
      BY <2>2, <2>3, <2>5
    <3> QED
      BY <2>1, <3>1, <3>2 DEF Answered
  <2>6. CASE r.media = "json" /\ r.body = "challenge"
    <3>1. Adapter!Slack(r) = 1
      BY <2>6 DEF Adapter!Slack
    <3>2. Adapter!Handshake(r) /\ ~Adapter!Event(r)
      BY <2>2, <2>3, <2>6
    <3> QED
      BY <2>1, <3>1, <3>2 DEF Answered
  <2>7. CASE r.media = "json" /\ r.body \notin {"junk", "unnamed challenge", "challenge"}
    <3>1. Adapter!Slack(r) = 0
      BY <2>7 DEF Adapter!Slack
    <3>2. ~Adapter!Handshake(r) /\ (Adapter!Event(r) <=> r.keys # <<>> /\ ~r.large)
      BY <2>2, <2>3, <2>7
    <3> QED
      BY <2>1, <3>1, <3>2 DEF Answered
  <2> QED
    BY <2>4, <2>5, <2>6, <2>7
<1>5. CASE r.to = "cloudevents"
  <2>1. Adapter!Gate(r) = Adapter!CloudEvent(r)
    BY <1>5 DEF Adapter!Gate
  <2>2. CASE r.media = "event"
    BY <1>5, <2>1, <2>2 DEF Answered, Adapter!CloudEvent, Adapter!Handshake, Adapter!Event
  <2>3. CASE r.media = "batch"
    BY <1>5, <2>1, <2>3 DEF Answered, Adapter!CloudEvent, Adapter!Handshake, Adapter!Event
  <2>4. CASE r.media \notin {"event", "batch"}
    BY <1>5, <2>1, <2>4 DEF Answered, Adapter!CloudEvent, Adapter!Handshake, Adapter!Event
  <2> QED
    BY <2>2, <2>3, <2>4
<1>6. CASE r.to = "discord"
  <2>1. Adapter!Gate(r) = Adapter!Discord(r)
    BY <1>6 DEF Adapter!Gate
  <2>2. CASE ~r.signed
    BY <1>6, <2>1, <2>2 DEF Answered, Adapter!Discord, Adapter!Handshake, Adapter!Event
  <2>3. CASE r.signed /\ r.media # "json"
    BY <1>6, <2>1, <2>3 DEF Answered, Adapter!Discord, Adapter!Handshake, Adapter!Event
  <2>4. CASE r.signed /\ r.media = "json" /\ r.body \in {"junk", "partial"}
    BY <1>6, <2>1, <2>4 DEF Answered, Adapter!Discord, Adapter!Handshake, Adapter!Event
  <2>5. CASE r.signed /\ r.media = "json" /\ r.body = "challenge"
    BY <1>6, <2>1, <2>5 DEF Answered, Adapter!Discord, Adapter!Handshake, Adapter!Event
  <2>6. CASE r.signed /\ r.media = "json" /\ r.body \notin {"junk", "partial", "challenge"}
    BY <1>6, <2>1, <2>6 DEF Answered, Adapter!Discord, Adapter!Handshake, Adapter!Event
  <2> QED
    BY <2>2, <2>3, <2>4, <2>5, <2>6
<1>7. CASE r.to \in {"websub", "meta"} /\ r.method = "GET"
  <2>1. Adapter!Gate(r) = Adapter!Verify(r)
    BY <1>7 DEF Adapter!Gate
  <2>2. ~Adapter!Event(r)
    <3>1. r.to # "plain" /\ r.method # "POST"
      BY <1>7
    <3> QED
      BY <1>7, <3>1 DEF Adapter!Event, Adapter!Handshake
  <2>3. Adapter!Handshake(r) <=> r.body = "challenge" /\ r.keys # <<>>
    BY <1>7 DEF Adapter!Handshake
  <2>4. CASE r.keys = <<>> \/ r.body # "challenge"
    <3>1. Adapter!Verify(r) = 400
      BY <2>4 DEF Adapter!Verify
    <3> QED
      BY <2>1, <2>2, <2>3, <2>4, <3>1 DEF Answered
  <2>5. CASE r.keys # <<>> /\ r.body = "challenge"
    <3>1. Adapter!Verify(r) = 1
      BY <2>5 DEF Adapter!Verify
    <3> QED
      BY <2>1, <2>2, <2>3, <2>5, <3>1 DEF Answered
  <2> QED
    BY <2>4, <2>5
<1>8. CASE r.to = "plain"
  <2>1. Adapter!Gate(r) = 0
    BY <1>8 DEF Adapter!Gate
  <2> QED
    BY <1>8, <2>1 DEF Answered, Adapter!Handshake, Adapter!Event
<1>9. CASE r.to \in {"websub", "meta"} /\ r.method = "POST"
  <2>1. Adapter!Gate(r) = 0
    BY <1>9 DEF Adapter!Gate
  <2>2. ~Adapter!Handshake(r)
    BY <1>9 DEF Adapter!Handshake
  <2>3. Adapter!Event(r) <=> r.keys # <<>> /\ ~r.large
    BY <1>9, <2>2 DEF Adapter!Event
  <2> QED
    BY <2>1, <2>2, <2>3 DEF Answered
<1> QED
  BY <1>1, <1>2, <1>3, <1>4, <1>5, <1>6, <1>7, <1>8, <1>9

LEMMA CopiesAreBits ==
  \A r : \A i \in Inboxes : Adapter!Copies(r)[i] \in {0, 1}
BY DEF Adapter!Copies

LEMMA InitAdapters ==
  ASSUME Adapter!AdaptersAssumption, Adapter!Init
  PROVE  AdapterIInv
<1>1. AdapterTypes
  BY DEF Adapter!AdaptersAssumption, Adapter!Init, AdapterTypes
<1>2. ASSUME NEW d \in Events PROVE CopiesFit(d) /\ AnswerFits(d)
  BY DEF Adapter!AdaptersAssumption, Adapter!Init, CopiesFit, AnswerFits, Queued
<1> QED
  BY <1>1, <1>2 DEF AdapterIInv

\* A step of a delivery leaves the others alone.
LEMMA OthersFit ==
  ASSUME AdapterIInv, AdapterTypes', NEW d \in Events, req' = req, errors' >= errors,
         \A e \in Events \ {d} : /\ delivery'[e] = delivery[e] /\ reply'[e] = reply[e]
                                 /\ stored'[e] = stored[e] /\ unanswered'[e] = unanswered[e],
         CopiesFit(d)', AnswerFits(d)'
  PROVE  AdapterIInv'
<1> SUFFICES ASSUME NEW e \in Events PROVE CopiesFit(e)' /\ AnswerFits(e)'
  BY DEF AdapterIInv
<1>1. CASE e = d
  BY <1>1
<1>2. CASE e # d
  <2>1. CopiesFit(e) /\ AnswerFits(e) /\ errors \in Nat /\ errors' \in Nat /\ unanswered[e] \in Nat
    BY DEF AdapterIInv, AdapterTypes
  <2>2. CopiesFit(e)'
    BY <1>2, <2>1 DEF CopiesFit, Queued
  <2>3. AnswerFits(e)'
    BY <1>2, <2>1 DEF AnswerFits
  <2> QED
    BY <2>2, <2>3
<1> QED
  BY <1>1, <1>2

LEMMA StepsFit ==
  ASSUME Adapter!AdaptersAssumption, AdapterIInv, NEW d \in Events,
         \/ Adapter!Send(d) \/ Adapter!Check(d) \/ Adapter!Hear(d) \/ Adapter!Miss(d)
  PROVE  AdapterIInv'
<1>1. AdapterTypes /\ CopiesFit(d) /\ AnswerFits(d) /\ AdapterFaults \in Nat
  BY DEF AdapterIInv, Adapter!AdaptersAssumption
<1>2. UNCHANGED <<req, stored, held>>
  BY DEF Adapter!Send, Adapter!Check, Adapter!Hear, Adapter!Miss
<1>3. CASE Adapter!Send(d)
  <2>1. AdapterTypes' /\ CopiesFit(d)' /\ AnswerFits(d)'
    BY <1>1, <1>3 DEF Adapter!Send, AdapterTypes, CopiesFit, AnswerFits, Queued
  <2> QED
    BY <1>1, <1>3, <2>1, OthersFit DEF Adapter!Send, AdapterTypes
<1>4. CASE Adapter!Check(d)
  <2>1. /\ delivery[d] = "gate" /\ UNCHANGED <<errors, unanswered>>
        /\ \/ delivery' = [delivery EXCEPT ![d] = "store"] /\ reply' = reply /\ Passes(req[d])
           \/ \E s \in {1, 400, 401, 413, 415} :
                /\ delivery' = [delivery EXCEPT ![d] = "answer"]
                /\ reply' = [reply EXCEPT ![d] = s]
                /\ \/ s = Adapter!Gate(req[d])
                   \/ s \in {400, 413} /\ Adapter!Gate(req[d]) = 0 /\ ~Passes(req[d])
    <3>1. req[d] \in Adapter!RequestType
      BY <1>1 DEF AdapterTypes
    <3>2. PICK g \in {0, 1, 400, 401, 415} : g = Adapter!Gate(req[d])
      BY <3>1, GateAnswers
    <3> QED
      BY <1>4, <3>2 DEF Adapter!Check, Adapter!Answer, Adapter!StoreIt, Adapter!Captured, Passes
  <2>2. CASE delivery' = [delivery EXCEPT ![d] = "store"] /\ reply' = reply /\ Passes(req[d])
    <3>1. AdapterTypes' /\ delivery'[d] = "store"
      BY <1>1, <1>2, <2>1, <2>2 DEF AdapterTypes
    <3>2. CopiesFit(d)'
      BY <1>1, <1>2, <2>1, <2>2, <3>1 DEF CopiesFit, Queued
    <3>3. Passes(req[d])'
      BY <1>2, <2>2 DEF Passes
    <3>4. AnswerFits(d)'
      <4> HIDE DEF Passes
      <4> QED
        BY <1>1, <2>1, <3>1, <3>3 DEF AnswerFits
    <3> QED
      BY <1>1, <1>2, <2>1, <2>2, <3>1, <3>2, <3>4, OthersFit DEF AdapterTypes
  <2>3. ASSUME NEW s \in {1, 400, 401, 413, 415},
               delivery' = [delivery EXCEPT ![d] = "answer"], reply' = [reply EXCEPT ![d] = s],
               \/ s = Adapter!Gate(req[d])
               \/ s \in {400, 413} /\ Adapter!Gate(req[d]) = 0 /\ ~Passes(req[d])
        PROVE  AdapterIInv'
    <3>1. AdapterTypes'
      BY <1>1, <1>2, <2>1, <2>3 DEF AdapterTypes
    <3>2. delivery'[d] = "answer" /\ reply'[d] = s
      BY <1>1, <2>3 DEF AdapterTypes
    <3>3. CopiesFit(d)'
      BY <1>1, <1>2, <2>1, <3>2 DEF CopiesFit, Queued
    <3>4. AnswerFits(d)'
      <4>1. /\ unanswered'[d] = unanswered[d] /\ errors' = errors /\ req'[d] = req[d]
            /\ unanswered[d] <= errors /\ (unanswered[d] > 0 => Passes(req[d]))
        BY <1>1, <1>2, <2>1 DEF AnswerFits
      <4>2. Passes(req[d])' <=> Passes(req[d])
        BY <1>2 DEF Passes
      <4>3. s # 0
        OBVIOUS
      <4> HIDE DEF Passes
      <4> QED
        BY <2>3, <3>2, <4>1, <4>2, <4>3 DEF AnswerFits
    <3> QED
      BY <1>1, <1>2, <2>1, <2>3, <3>1, <3>3, <3>4, OthersFit DEF AdapterTypes
  <2> QED
    BY <2>1, <2>2, <2>3
<1>5. CASE Adapter!Hear(d)
  <2>1. /\ delivery[d] = "answer" /\ UNCHANGED <<reply, errors, unanswered>>
        /\ delivery' = [delivery EXCEPT ![d] = IF reply[d] \in {502, 409} THEN "send" ELSE "done"]
    BY <1>5 DEF Adapter!Hear, Adapter!Retried
  <2>2. AdapterTypes' /\ CopiesFit(d)' /\ AnswerFits(d)'
    BY <1>1, <1>2, <2>1 DEF AdapterTypes, CopiesFit, AnswerFits, Queued
  <2> QED
    BY <1>1, <1>2, <2>1, <2>2, OthersFit DEF AdapterTypes
<1>6. CASE Adapter!Miss(d)
  <2>1. /\ delivery[d] = "answer" /\ reply' = reply /\ errors < AdapterFaults /\ errors' = errors + 1
        /\ unanswered' = [unanswered EXCEPT ![d] = @ + (IF reply[d] = 202 THEN 1 ELSE 0)]
        /\ delivery' = [delivery EXCEPT ![d] = "send"]
    BY <1>6 DEF Adapter!Miss
  <2>2. AdapterTypes'
    BY <1>1, <1>2, <2>1 DEF AdapterTypes
  <2>3. CopiesFit(d)'
    BY <1>1, <1>2, <2>1 DEF CopiesFit, Queued, AdapterTypes
  <2>4. AnswerFits(d)'
    <3>1. delivery'[d] = "send" /\ Passes(req[d])' = Passes(req[d])
      BY <1>1, <1>2, <2>1 DEF AdapterTypes, Passes
    <3>2. unanswered[d] \in Nat /\ unanswered'[d] \in Nat /\ errors \in Nat
      BY <1>1, <2>2 DEF AdapterTypes
    <3>3. /\ unanswered[d] <= errors /\ unanswered'[d] <= unanswered[d] + 1
          /\ unanswered[d] > 0 \/ reply[d] = 202 \/ unanswered'[d] = unanswered[d]
      BY <1>1, <2>1, <3>2 DEF AnswerFits, AdapterTypes
    <3>4. unanswered'[d] <= errors'
      BY <2>1, <3>2, <3>3
    <3>5. reply[d] = 202 => Passes(req[d])
      <4>1. req[d] \in Adapter!RequestType
        BY <1>1 DEF AdapterTypes
      <4> QED
        BY <1>1, <2>1, <4>1, GateAnswers DEF AnswerFits
    <3>6. unanswered'[d] > 0 => Passes(req[d])
      BY <1>1, <3>2, <3>3, <3>5 DEF AnswerFits
    <3> QED
      BY <3>1, <3>4, <3>6 DEF AnswerFits
  <2> QED
    BY <1>1, <1>2, <2>1, <2>2, <2>3, <2>4, OthersFit DEF AdapterTypes
<1> QED
  BY <1>3, <1>4, <1>5, <1>6

\* insert_inbox_messages
LEMMA StoreFits ==
  ASSUME Adapter!AdaptersAssumption, AdapterIInv, NEW d \in Events, Adapter!Store(d)
  PROVE  AdapterIInv'
<1>1. /\ AdapterTypes /\ CopiesFit(d) /\ AnswerFits(d)
      /\ AdapterFaults \in Nat /\ InboxLimit \in Nat
  BY DEF AdapterIInv, Adapter!AdaptersAssumption
<1>2. /\ delivery[d] = "store" /\ UNCHANGED req /\ Passes(req[d])
      /\ delivery' = [delivery EXCEPT ![d] = "answer"]
  BY <1>1 DEF Adapter!Store, Adapter!Trouble, Adapter!Answer, AnswerFits
<1>3. ASSUME NEW s \in {202, 502}, NEW n \in {0, 1},
             ~Adapter!Full(req[d]), Adapter!Put(d), s = 202 <=> n = 0,
             errors' = errors + n, errors' <= AdapterFaults,
             unanswered' = [unanswered EXCEPT ![d] = @ + n],
             reply' = [reply EXCEPT ![d] = s]
      PROVE  AdapterIInv'
  <2> DEFINE copies(i) == Adapter!Copies(req[d])[i]
  <2>1. /\ \A i \in Inboxes : copies(i) \in {0, 1} /\ held[i] + copies(i) <= InboxLimit
        /\ stored' = [stored EXCEPT ![d] = [i \in Inboxes |-> stored[d][i] + copies(i)]]
        /\ held' = [i \in Inboxes |-> held[i] + copies(i)]
    <3>1. \A i \in Inboxes : copies(i) \in {0, 1} /\ held[i] \in Nat
      BY <1>1, CopiesAreBits DEF AdapterTypes
    <3>2. \A i \in Inboxes : ~(held[i] + copies(i) > InboxLimit)
      BY <1>3 DEF Adapter!Full
    <3>3. /\ stored' = [stored EXCEPT ![d] = [i \in Inboxes |-> @[i] + copies(i)]]
          /\ held' = [i \in Inboxes |-> held[i] + copies(i)]
      BY <1>3 DEF Adapter!Put
    <3> HIDE DEF copies
    <3> QED
      BY <1>1, <3>1, <3>2, <3>3 DEF AdapterTypes
  <2>2. AdapterTypes'
    <3> HIDE DEF copies
    <3>1. \A i \in Inboxes : held[i] + copies(i) \in 0..InboxLimit /\ stored[d][i] + copies(i) \in Nat
      BY <1>1, <2>1 DEF AdapterTypes
    <3>2. held' \in [Inboxes -> 0..InboxLimit] /\ stored' \in [Events -> [Inboxes -> Nat]]
      BY <1>1, <2>1, <3>1 DEF AdapterTypes
    <3>3. delivery' \in [Events -> {"send", "gate", "store", "answer", "done"}]
      BY <1>1, <1>2 DEF AdapterTypes
    <3>4. reply' \in [Events -> {0, 1, 202, 400, 401, 413, 415, 502, 409}]
      BY <1>1, <1>3 DEF AdapterTypes
    <3>5. errors' \in 0..AdapterFaults
      BY <1>1, <1>3 DEF AdapterTypes
    <3>6. unanswered' \in [Events -> Nat]
      BY <1>1, <1>3 DEF AdapterTypes
    <3> QED
      BY <1>1, <1>2, <3>2, <3>3, <3>4, <3>5, <3>6 DEF AdapterTypes
  <2>3. CopiesFit(d)'
    <3>1. unanswered[d] \in Nat /\ Queued(d) = unanswered[d] /\ Queued(d)' = unanswered[d] + 1
      <4>1. /\ unanswered[d] \in Nat /\ unanswered'[d] = unanswered[d] + n
            /\ reply'[d] = s /\ delivery'[d] = "answer"
        BY <1>1, <1>2, <1>3 DEF AdapterTypes
      <4> QED
        BY <1>2, <1>3, <4>1 DEF Queued
    <3>2. \A i \in Inboxes : /\ stored'[d][i] = stored[d][i] + copies(i)
                             /\ stored[d][i] = IF copies(i) = 1 THEN Queued(d) ELSE 0
                             /\ copies(i) \in {0, 1}
      BY <1>1, <2>1 DEF CopiesFit, AdapterTypes
    <3>3. \A i \in Inboxes : copies(i)' = copies(i)
      BY <1>2
    <3> HIDE DEF copies
    <3>4. \A i \in Inboxes : stored'[d][i] = IF copies(i) = 1 THEN unanswered[d] + 1 ELSE 0
      BY <3>1, <3>2
    <3> QED
      BY <1>2, <3>1, <3>4 DEF CopiesFit, copies
  <2>4. AnswerFits(d)'
    <3>1. /\ unanswered'[d] <= errors' /\ reply'[d] = s /\ delivery'[d] = "answer"
      BY <1>1, <1>2, <1>3 DEF AnswerFits, AdapterTypes
    <3>2. Passes(req[d])'
      BY <1>2 DEF Passes
    <3> HIDE DEF Passes
    <3> QED
      BY <1>3, <3>1, <3>2 DEF AnswerFits
  <2> HIDE DEF copies
  <2> QED
    BY <1>1, <1>2, <1>3, <2>1, <2>2, <2>3, <2>4, OthersFit DEF AdapterTypes
<1>4. ASSUME NEW s \in {409, 502}, reply' = [reply EXCEPT ![d] = s],
             UNCHANGED <<stored, held, unanswered>>, errors' \in errors..AdapterFaults
      PROVE  AdapterIInv'
  <2>1. reply' = [reply EXCEPT ![d] = s]
    BY <1>4
  <2>2. /\ UNCHANGED <<stored, held, unanswered>>
        /\ errors' \in errors..AdapterFaults /\ errors \in Nat
    BY <1>1, <1>4 DEF AdapterTypes
  <2>3. AdapterTypes'
    <3>1. delivery' \in [Events -> {"send", "gate", "store", "answer", "done"}]
      BY <1>1, <1>2 DEF AdapterTypes
    <3>2. reply' \in [Events -> {0, 1, 202, 400, 401, 413, 415, 502, 409}]
      BY <1>1, <2>1 DEF AdapterTypes
    <3>3. errors' \in 0..AdapterFaults
      BY <1>1, <2>2 DEF AdapterTypes
    <3> QED
      BY <1>1, <1>2, <2>2, <3>1, <3>2, <3>3 DEF AdapterTypes
  <2>4. CopiesFit(d)'
    <3>1. delivery'[d] = "answer" /\ reply'[d] # 202 /\ unanswered[d] \in Nat
      BY <1>1, <1>2, <2>1 DEF AdapterTypes
    <3>2. Queued(d)' = Queued(d)
      BY <1>2, <2>2, <3>1 DEF Queued
    <3> QED
      BY <1>1, <1>2, <2>2, <3>2 DEF CopiesFit
  <2>5. AnswerFits(d)'
    BY <1>1, <1>2, <2>1, <2>2 DEF AnswerFits, AdapterTypes
  <2> QED
    BY <1>1, <1>2, <2>1, <2>2, <2>3, <2>4, <2>5, OthersFit DEF AdapterTypes
<1>5. errors \in Nat /\ errors <= AdapterFaults /\ unanswered \in [Events -> Nat]
  BY <1>1 DEF AdapterTypes
<1>6. CASE ~Adapter!Full(req[d]) /\ Adapter!Put(d) /\ Adapter!Answer(d, 202)
             /\ UNCHANGED <<errors, unanswered>>
  BY <1>3, <1>5, <1>6 DEF Adapter!Answer
<1>7. CASE Adapter!PutNone(d) /\ Adapter!Answer(d, 409) /\ UNCHANGED <<errors, unanswered>>
  BY <1>1, <1>4, <1>5, <1>7 DEF Adapter!Answer, Adapter!PutNone
<1>8. CASE Adapter!Trouble(d)
  BY <1>1, <1>3, <1>4, <1>5, <1>8 DEF Adapter!Trouble, Adapter!Answer, Adapter!PutNone
<1> QED
  BY <1>6, <1>7, <1>8 DEF Adapter!Store

LEMMA DrainFits ==
  ASSUME Adapter!AdaptersAssumption, AdapterIInv, NEW i \in Inboxes, Adapter!Drain(i)
  PROVE  AdapterIInv'
<1>1. AdapterTypes'
  BY DEF AdapterIInv, AdapterTypes, Adapter!Drain, Adapter!AdaptersAssumption
<1>2. ASSUME NEW d \in Events PROVE CopiesFit(d)' /\ AnswerFits(d)'
  BY DEF AdapterIInv, CopiesFit, AnswerFits, Queued, Adapter!Drain
<1> QED
  BY <1>1, <1>2 DEF AdapterIInv

AdapterInv == part = "adapters" => AdapterIInv

LEMMA NextAdapters ==
  ASSUME AdapterInv, [Next]_vars
  PROVE  AdapterInv'
<1> SUFFICES ASSUME part' = "adapters" PROVE AdapterIInv'
  BY DEF AdapterInv
<1>1. part = "adapters" /\ (Adapter!Next \/ UNCHANGED adapterVars)
  BY DEF Next, vars, InPoll, InPeek, InForward, InAdapters, InMail, InText, InKey
<1>2. Adapter!AdaptersAssumption /\ AdapterIInv
  BY <1>1, PartsAssumption DEF AdapterInv, PartsAssumption
<1>3. CASE UNCHANGED adapterVars
  <2>1. AdapterTypes'
    BY <1>2, <1>3 DEF adapterVars, AdapterIInv, AdapterTypes
  <2>2. ASSUME NEW d \in Events PROVE CopiesFit(d)' /\ AnswerFits(d)'
    BY <1>2, <1>3 DEF adapterVars, AdapterIInv, CopiesFit, AnswerFits, Queued
  <2> QED
    BY <2>1, <2>2 DEF AdapterIInv
<1>4. ASSUME NEW d \in Events, Adapter!Works(d) \/ Adapter!Miss(d) PROVE AdapterIInv'
  BY <1>2, <1>4, StepsFit, StoreFits DEF Adapter!Works
<1>5. ASSUME NEW i \in Inboxes, Adapter!Drain(i) PROVE AdapterIInv'
  BY <1>2, <1>5, DrainFits
<1> QED
  BY <1>1, <1>3, <1>4, <1>5 DEF Adapter!Next

\* Adapters store events and nothing else, for all recipients or for none, and
\* once for each commit or answer that was lost and for the answer that was
\* heard, whatever is sent, fails and is sent again (the handlers of /i/<key>,
\* enqueue_request, insert_inbox_messages).
THEOREM AdaptersStoreOnce == Spec => []EventsStoredOnce
<1>1. Init => AdapterInv
  BY PartsAssumption, InitAdapters DEF Init, PartsAssumption, AdapterInv
<1>2. AdapterInv => EventsStoredOnce
  <2> SUFFICES ASSUME AdapterIInv
               PROVE  /\ Adapter!TypeOK /\ Adapter!RightWay /\ Adapter!AllOrNone
                      /\ Adapter!CopiesNeedLosses
    BY DEF EventsStoredOnce, AdapterInv
  <2>1. AdapterTypes /\ AdapterFaults \in Nat /\ \A d \in Events : CopiesFit(d) /\ AnswerFits(d)
    BY PartsAssumption DEF AdapterIInv, PartsAssumption, Adapter!AdaptersAssumption
  <2>2. Adapter!TypeOK
    <3>1. \A d \in Events : unanswered[d] \in 0..AdapterFaults
      BY <2>1 DEF AnswerFits, AdapterTypes
    <3> QED
      BY <2>1, <3>1 DEF AdapterTypes, Adapter!TypeOK, Adapter!Challenge
  <2>3. ASSUME NEW d \in Events
        PROVE  /\ Queued(d) \in 0..AdapterFaults + 1
               /\ \A i \in Inboxes : /\ stored[d][i] = Queued(d) * Adapter!Copies(req[d])[i]
                                     /\ stored[d][i] <= Queued(d)
    <3>1. unanswered[d] \in Nat /\ unanswered[d] <= errors /\ errors \in 0..AdapterFaults
      BY <2>1 DEF AnswerFits, AdapterTypes
    <3>2. Queued(d) \in 0..AdapterFaults + 1
      BY <2>1, <3>1 DEF Queued
    <3>3. PICK n \in 0..AdapterFaults + 1 : n = Queued(d)
      BY <3>2
    <3>4. ASSUME NEW i \in Inboxes
          PROVE  stored[d][i] = n * Adapter!Copies(req[d])[i] /\ stored[d][i] <= n
      BY <2>1, <3>3, CopiesAreBits DEF CopiesFit
    <3> QED
      BY <3>3, <3>4
  <2>4. Adapter!AllOrNone
    <3> SUFFICES ASSUME NEW d \in Events
                 PROVE  \E n \in 0..AdapterFaults + 1 :
                          stored[d] = [i \in Inboxes |-> n * Adapter!Copies(req[d])[i]]
      BY DEF Adapter!AllOrNone
    <3>1. stored[d] \in [Inboxes -> Nat]
      BY <2>1 DEF AdapterTypes
    <3>2. stored[d] = [i \in Inboxes |-> Queued(d) * Adapter!Copies(req[d])[i]]
      BY <2>3, <3>1
    <3> QED
      BY <2>3, <3>2
  <2>5. Adapter!CopiesNeedLosses
    BY <2>3 DEF Adapter!CopiesNeedLosses, Queued
  <2>6. Adapter!RightWay
    <3> SUFFICES ASSUME NEW d \in Events
                 PROVE  /\ stored[d] # [i \in Inboxes |-> 0] => Adapter!Event(req[d])
                        /\ delivery[d] = "done" =>
                             /\ reply[d] = 1 <=> Adapter!Handshake(req[d])
                             /\ reply[d] = 202 <=> Adapter!Event(req[d])
      BY DEF Adapter!RightWay, Adapter!Challenge
    <3>1. CopiesFit(d) /\ AnswerFits(d) /\ stored[d] \in [Inboxes -> Nat]
          /\ req[d] \in Adapter!RequestType /\ unanswered[d] \in Nat
      BY <2>1 DEF AdapterTypes
    <3>2. /\ Adapter!Gate(req[d]) \in {0, 1, 400, 401, 415}
          /\ Adapter!Handshake(req[d]) <=> Adapter!Gate(req[d]) = 1
          /\ Adapter!Event(req[d]) <=> Passes(req[d])
      BY <3>1, GateAnswers
    <3>3. Passes(req[d]) => Adapter!Gate(req[d]) = 0
      BY DEF Passes
    <3>4. stored[d] # [i \in Inboxes |-> 0] => Passes(req[d])
      <4>1. stored[d] # [i \in Inboxes |-> 0] => \E i \in Inboxes : stored[d][i] # 0
        BY <3>1
      <4>2. stored[d] # [i \in Inboxes |-> 0] => Queued(d) # 0
        BY <3>1, <4>1 DEF CopiesFit
      <4> QED
        BY <3>1, <3>2, <4>2 DEF Queued, AnswerFits
    <3> QED
      BY <3>1, <3>2, <3>3, <3>4 DEF AnswerFits
  <2> QED
    BY <2>2, <2>4, <2>5, <2>6
<1> QED
  BY <1>1, <1>2, NextAdapters, PTL DEF Spec

-----------------------------------------------------------------------------
(* Mails *)

\* The part runs the component the theorems are about.
LEMMA MailsRun ==
  /\ Agent!MailAssumption => MailFacts!MailAssumption
  /\ Agent!MailInit => MailFacts!MailInit
  /\ Agent!MailNext => MailFacts!MailNext
  /\ UNCHANGED mailVars => UNCHANGED MailFacts!allVars
<1>1. Agent!MailAssumption => MailFacts!MailAssumption
  BY DEF
    Agent!MailAssumption, Agent!EmailAssumption, Agent!Link,
    MailFacts!MailAssumption, MailFacts!EmailAssumption, MailFacts!Link,
    Agent!IsFiniteSet, MailFacts!IsFiniteSet
<1>2. Agent!MailInit => MailFacts!MailInit
  BY DEF
    Agent!MailInit, Agent!Init, Agent!Idle, Agent!Off, MailFacts!MailInit,
    MailFacts!Init, MailFacts!Idle, MailFacts!Off
<1>3. Agent!MailNext => MailFacts!MailNext
  <2>1. Agent!Web => MailFacts!Web
    BY DEF
    Agent!Web, Agent!IssueLink, Agent!Begin, Agent!Operations, Agent!Handle,
    Agent!EmailForKey, Agent!Usable, Agent!Idle, Agent!Session, Agent!Act,
    Agent!Done, Agent!Create, Agent!Forever, Agent!Update, Agent!Mine,
    Agent!Delete, Agent!Revoke, Agent!Abort, Agent!Tick, Agent!Older,
    Agent!At, Agent!Active, MailFacts!Web, MailFacts!IssueLink,
    MailFacts!Begin, MailFacts!Operations, MailFacts!Handle,
    MailFacts!EmailForKey, MailFacts!Usable, MailFacts!Idle,
    MailFacts!Session, MailFacts!Act, MailFacts!Done, MailFacts!Create,
    MailFacts!Forever, MailFacts!Update, MailFacts!Mine, MailFacts!Delete,
    MailFacts!Revoke, MailFacts!Abort, MailFacts!Tick, MailFacts!Older,
    MailFacts!At, MailFacts!Active
  <2>2. ASSUME NEW m \in Mails
        PROVE  Agent!Arrive(m) \/ Agent!Fail(m) => MailFacts!Arrive(m) \/ MailFacts!Fail(m)
    BY DEF
    Agent!Arrive, Agent!At, Agent!Mail, Agent!Senders, Agent!Active, Agent!Go,
    Agent!vars, Agent!Fail, Agent!Ended, MailFacts!Arrive, MailFacts!At,
    MailFacts!Mail, MailFacts!Senders, MailFacts!Active, MailFacts!Go,
    MailFacts!vars, MailFacts!Fail, MailFacts!Ended
  <2>3. ASSUME NEW m \in Mails
        PROVE  Agent!AgentStep(m) => MailFacts!AgentStep(m)
    BY DEF
    Agent!AgentStep, Agent!Dispatch, Agent!At, Agent!Go, Agent!Echoable,
    Agent!vars, Agent!NewLink, Agent!IssueLink, Agent!Select, Agent!Active,
    Agent!Mark, Agent!Command, Agent!Dialog, Agent!LastStep, Agent!AnswerLost,
    Agent!RecordHour, Agent!RecordDay, MailFacts!AgentStep,
    MailFacts!Dispatch, MailFacts!At, MailFacts!Go, MailFacts!Echoable,
    MailFacts!vars, MailFacts!NewLink, MailFacts!IssueLink, MailFacts!Select,
    MailFacts!Active, MailFacts!Mark, MailFacts!Command, MailFacts!Dialog,
    MailFacts!LastStep, MailFacts!AnswerLost, MailFacts!RecordHour,
    MailFacts!RecordDay
  <2> QED
    BY <2>1, <2>2, <2>3 DEF Agent!MailNext, MailFacts!MailNext
<1>4. UNCHANGED mailVars => UNCHANGED MailFacts!allVars
  BY DEF mailVars, MailFacts!allVars, MailFacts!agent, MailFacts!vars
<1> QED
  BY <1>1, <1>2, <1>3, <1>4

MailsInv == part = "mail" => MailFacts!MailIInv

LEMMA InitMails == Init => MailsInv
<1> QED
  BY PartsAssumption, MailsRun, MailFacts!InitMail DEF Init, PartsAssumption, MailsInv

\* A step of the part is one of its component, or none.
LEMMA MailSteps ==
  ASSUME MailsInv, [Next]_vars, part' = "mail" \/ part = "mail"
  PROVE  /\ part = "mail" /\ MailFacts!MailAssumption /\ MailFacts!MailIInv
         /\ Agent!MailNext \/ UNCHANGED mailVars
         /\ MailFacts!MailNext \/ UNCHANGED MailFacts!allVars
<1>1. part = "mail" /\ (Agent!MailNext \/ UNCHANGED mailVars)
  BY DEF Next, vars, InPoll, InPeek, InForward, InAdapters, InMail, InText, InKey
<1> QED
  BY <1>1, PartsAssumption, MailsRun DEF PartsAssumption, MailsInv

LEMMA NextMails == MailsInv /\ [Next]_vars => MailsInv'
BY MailSteps, MailFacts!NextMail DEF MailsInv

\* The mail agent reports success only for mail that a server has, sends the mail
\* of an alias to those who held it meanwhile, answers no automatic mail and
\* counts no more than was delivered, for any number of mails, web requests and
\* links (main, handle_echo, handle_alias, smtp_submit, record_forward).
THEOREM MailReachesNobodyElse == Spec => []MailReachesHolder
<1>1. MailsInv => MailReachesHolder
  <2> SUFFICES ASSUME part = "mail", MailFacts!MailIInv
               PROVE  /\ Agent!MailTypeOK /\ Agent!SuccessIsDelivery /\ Agent!OnlyToHolder
                      /\ Agent!EchoAnswersPeople /\ Agent!ForwardsCounted
    BY DEF MailReachesHolder, MailsInv
  <2>1. MailFacts!MailAssumption
    BY PartsAssumption, MailsRun DEF PartsAssumption
  <2>2. /\ MailFacts!MailTypeOK /\ MailFacts!SuccessIsDelivery /\ MailFacts!OnlyToHolder
        /\ MailFacts!EchoAnswersPeople /\ MailFacts!ForwardsCounted
    BY <2>1, MailFacts!MailIsRight
  <2> QED
    BY <2>2 DEF Agent!Cardinality, MailFacts!Cardinality,
    Agent!MailTypeOK, Agent!TypeOK, Agent!Link, Agent!Alias, Agent!Forever,
    Agent!Mail, Agent!Senders, Agent!Ended, Agent!Dialog,
    Agent!SuccessIsDelivery, Agent!At, Agent!OnlyToHolder,
    Agent!EchoAnswersPeople, Agent!ForwardsCounted, MailFacts!MailTypeOK,
    MailFacts!TypeOK, MailFacts!Link, MailFacts!Alias, MailFacts!Forever,
    MailFacts!Mail, MailFacts!Senders, MailFacts!Ended, MailFacts!Dialog,
    MailFacts!SuccessIsDelivery, MailFacts!At, MailFacts!OnlyToHolder,
    MailFacts!EchoAnswersPeople, MailFacts!ForwardsCounted
<1> QED
  BY <1>1, InitMails, NextMails, PTL DEF Spec

\* A mail that a server has taken bounces only if counting it fails, or the
\* answer to its body was lost (smtp_submit, record_forward).
THEOREM MailBouncesEarly == Spec => BounceIsLate
<1>1. MailsInv /\ [Next]_vars => (part = "mail" => Agent!BounceIsLate)
  <2> SUFFICES ASSUME MailsInv, [Next]_vars, part = "mail"
               PROVE  Agent!BounceIsLate
    OBVIOUS
  <2>1. /\ MailFacts!MailAssumption /\ MailFacts!MailIInv
        /\ MailFacts!MailNext \/ UNCHANGED mailVars
    BY MailSteps, MailsRun
  <2>2. CASE MailFacts!MailNext
    <3>1. MailFacts!BounceIsLate
      BY <2>1, <2>2, MailFacts!FailuresComeEarly
    <3> QED
      BY <3>1 DEF
      Agent!BounceIsLate, Agent!At, MailFacts!BounceIsLate, MailFacts!At
  <2>3. CASE UNCHANGED mailVars
    BY <2>3 DEF mailVars, Agent!BounceIsLate, Agent!At
  <2> QED
    BY <2>1, <2>2, <2>3
<1> QED
  BY <1>1, InitMails, NextMails, PTL DEF Spec, BounceIsLate

-----------------------------------------------------------------------------
(* Mails as text *)

MailWords == {"no", "auto", "list", "x"}
MailNames == {"auto-submitted", "precedence", "from", "none"}
MailLines == [kind : {"field", "fold", "text"}, name : MailNames, words : Seq(MailWords), dots : Nat]

\* A line that continues a field says "auto", and Auto-Submitted says one word
\* or none.
LEMMA LinesShape ==
  /\ Letter!Lines \subseteq MailLines
  /\ \A l \in Letter!Lines :
       /\ l.kind = "fold" => l.words = <<"auto">>
       /\ l.kind = "field" /\ l.name = "auto-submitted" =>
            l.words \in {<<>>, <<"no">>, <<"auto">>}
  /\ Letter!Blank.kind = "text"
<1>1. \A d \in Nat, w \in Seq(MailWords) :
        /\ Letter!Text(d, w) \in MailLines /\ Letter!Text(d, w).kind = "text"
  BY DEF Letter!Text, MailLines, MailNames
<1>2. \A n \in MailNames, w \in Seq(MailWords) :
        /\ Letter!Field(n, w) \in MailLines
        /\ Letter!Field(n, w).kind = "field"
        /\ Letter!Field(n, w).name = n /\ Letter!Field(n, w).words = w
  BY DEF Letter!Field, MailLines
<1>3. \A w \in Seq(MailWords) :
        /\ Letter!Fold(w) \in MailLines /\ Letter!Fold(w).kind = "fold" /\ Letter!Fold(w).words = w
  BY DEF Letter!Fold, MailLines, MailNames
<1>4. /\ <<>> \in Seq(MailWords) /\ \A w \in MailWords : <<w>> \in Seq(MailWords)
      /\ "no" \in MailWords /\ "auto" \in MailWords /\ "list" \in MailWords /\ "x" \in MailWords
  BY DEF MailWords
<1>5. /\ "auto-submitted" \in MailNames /\ "precedence" \in MailNames /\ "from" \in MailNames
      /\ "precedence" # "auto-submitted" /\ "from" # "auto-submitted"
      /\ "field" # "fold" /\ "field" # "text" /\ "fold" # "text"
  BY DEF MailNames
<1>6. ASSUME NEW l \in Letter!Lines
      PROVE  \/ l \in {Letter!Field("auto-submitted", <<>>), Letter!Field("auto-submitted", <<"no">>),
                       Letter!Field("auto-submitted", <<"auto">>)}
             \/ l \in {Letter!Field("precedence", <<"list">>), Letter!Field("from", <<"x">>)}
             \/ l = Letter!Fold(<<"auto">>)
             \/ \E d \in Nat, w \in Seq(MailWords) : l = Letter!Text(d, w)
  <2>1. /\ 0 \in Nat /\ 1 \in Nat /\ 2 \in Nat
        /\ <<>> \in Seq(MailWords) /\ <<"x">> \in Seq(MailWords)
    BY <1>4
  <2>2. Letter!Blank = Letter!Text(0, <<>>)
    BY DEF Letter!Blank
  <2> QED
    BY <1>6, <2>1, <2>2, Zenon DEF Letter!Lines
<1>7. ASSUME NEW l \in Letter!Lines
      PROVE  /\ l \in MailLines
             /\ l.kind = "fold" => l.words = <<"auto">>
             /\ l.kind = "field" /\ l.name = "auto-submitted" =>
                  l.words \in {<<>>, <<"no">>, <<"auto">>}
  <2>1. CASE l \in {Letter!Field("auto-submitted", <<>>), Letter!Field("auto-submitted", <<"no">>),
                    Letter!Field("auto-submitted", <<"auto">>)}
    <3>1. PICK w \in {<<>>, <<"no">>, <<"auto">>} : l = Letter!Field("auto-submitted", w)
      BY <2>1
    <3>2. w \in Seq(MailWords)
      BY <1>4
    <3>3. l \in MailLines /\ l.kind = "field" /\ l.words = w
      BY <1>2, <1>5, <3>1, <3>2
    <3> QED
      BY <1>5, <3>3
  <2>2. CASE l \in {Letter!Field("precedence", <<"list">>), Letter!Field("from", <<"x">>)}
    <3>1. PICK n \in MailNames, w \in Seq(MailWords) :
            l = Letter!Field(n, w) /\ n # "auto-submitted"
      BY <1>4, <1>5, <2>2
    <3>2. l \in MailLines /\ l.kind = "field" /\ l.name = n
      BY <1>2, <3>1
    <3> QED
      BY <1>5, <3>1, <3>2
  <2>3. CASE l = Letter!Fold(<<"auto">>)
    BY <1>3, <1>4, <1>5, <2>3
  <2>4. CASE \E d \in Nat, w \in Seq(MailWords) : l = Letter!Text(d, w)
    BY <1>1, <1>5, <2>4
  <2> QED
    BY <1>6, <2>1, <2>2, <2>3, <2>4
<1>8. Letter!Blank.kind = "text"
  BY <1>1, <1>4 DEF Letter!Blank
<1> QED
  BY <1>7, <1>8

\* The lines that have been read as headers.
LinesRead == IF line = 0 THEN Letter!HeaderLines ELSE 1..(line - 1)
FieldsOf(t, P) == {i \in P : t[i].kind = "field"}
\* The lines of P that continue the one at i.
FoldsOf(t, P, i) ==
  {j \in P : j > i /\ t[j].kind = "fold" /\ \A k \in FieldsOf(t, P) : k <= i \/ k > j}
\* The header h is what stands at i and the lines that continue it.
IsHeader(h, t, P, i) ==
  /\ h \in [name : MailNames, words : Seq(MailWords)] /\ h.name = t[i].name
  /\ IF FoldsOf(t, P, i) = {} THEN h.words = t[i].words
     ELSE h.words # <<>> /\ h.words[Len(h.words)] = "auto"
\* Headers are the fields, in their order.
Matches(hs, t, P, from) ==
  /\ \A i, j \in DOMAIN hs : i < j => from[i] < from[j]
  /\ \A f \in FieldsOf(t, P) : \E i \in DOMAIN hs : from[i] = f
  /\ \A i \in DOMAIN hs : IsHeader(hs[i], t, P, from[i])

LetterTypes ==
  /\ text \in Seq(Letter!Lines) /\ line \in 0..(Len(text) + 1)
  /\ headers \in Seq([name : MailNames, words : Seq(MailWords)])
HeadersFit ==
  /\ line # 0 => \A i \in 1..(line - 1) : text[i] # Letter!Blank
  /\ \E from \in [DOMAIN headers -> FieldsOf(text, LinesRead)] :
       Matches(headers, text, LinesRead, from)
WireFits ==
  wired # <<>> =>
    wired = [i \in DOMAIN text |-> Letter!Dotted(text[i])] \o <<Letter!Text(1, <<>>)>>

LetterIInv == LetterTypes /\ HeadersFit /\ WireFits

-----------------------------------------------------------------------------

LEMMA InitLetter == Letter!Init => LetterIInv
<1> SUFFICES ASSUME Letter!Init
             PROVE  LetterIInv
  OBVIOUS
<1>1. line = 1 /\ headers = <<>> /\ wired = <<>>
  BY DEF Letter!Init
<1>2. PICK n \in 1..LetterLines : text \in [1..n -> Letter!Lines]
  BY DEF Letter!Init
<1>3. text \in Seq(Letter!Lines) /\ Len(text) = n /\ n \in Nat
  BY <1>2, PartsAssumption DEF PartsAssumption, Letter!TextAssumption
<1>4. LetterTypes
  BY <1>1, <1>2, <1>3 DEF LetterTypes
<1>5. HeadersFit
  <2>1. LinesRead = {} /\ FieldsOf(text, {}) = {} /\ DOMAIN headers = {}
    BY <1>1 DEF LinesRead, FieldsOf
  <2>2. Matches(headers, text, LinesRead, <<>>)
    BY <2>1 DEF Matches
  <2>3. <<>> \in [DOMAIN headers -> FieldsOf(text, LinesRead)]
    BY <2>1
  <2> QED
    <3>1. line # 0 => \A i \in 1..(line - 1) : text[i] # Letter!Blank
      BY <1>1
    <3> QED
      BY <2>2, <2>3, <3>1, Zenon DEF HeadersFit
<1> QED
  BY <1>1, <1>4, <1>5 DEF LetterIInv, WireFits

\* The lines read next to those read.
LEMMA LineRead ==
  ASSUME LetterIInv, line # 0, line <= Len(text), text[line] # Letter!Blank
  PROVE  /\ line \in DOMAIN text /\ text[line] \in MailLines
         /\ LinesRead = 1..(line - 1) /\ 1..line = LinesRead \cup {line}
         /\ line \notin LinesRead /\ \A j \in LinesRead : j \in Nat /\ j < line
         /\ \A i \in 1..line : text[i] # Letter!Blank
<1>1. line \in Nat /\ line # 0 /\ Len(text) \in Nat /\ text \in Seq(Letter!Lines)
  BY DEF LetterIInv, LetterTypes
<1>2. line \in DOMAIN text /\ text[line] \in Letter!Lines
  BY <1>1
<1>3. LinesRead = 1..(line - 1)
  BY DEF LinesRead
<1>4. 1..line = (1..(line - 1)) \cup {line}
  BY <1>1
<1> QED
  BY <1>1, <1>2, <1>3, <1>4, LinesShape DEF LetterIInv, HeadersFit

\* One line more: a field ends the lines that continue those before it, a line
\* that continues belongs to the last field.
LEMMA FoldsGrow ==
  ASSUME NEW t, NEW P \in SUBSET Nat, NEW n \in Nat, \A j \in P : j < n
  PROVE  \A i \in FieldsOf(t, P) :
           /\ t[n].kind # "fold" => FoldsOf(t, P \cup {n}, i) = FoldsOf(t, P, i)
           /\ t[n].kind = "fold" =>
                IF \A k \in FieldsOf(t, P) : k <= i
                THEN n \in FoldsOf(t, P \cup {n}, i)
                ELSE FoldsOf(t, P \cup {n}, i) = FoldsOf(t, P, i)
<1> SUFFICES ASSUME NEW i \in FieldsOf(t, P)
             PROVE  /\ t[n].kind # "fold" => FoldsOf(t, P \cup {n}, i) = FoldsOf(t, P, i)
                    /\ t[n].kind = "fold" =>
                         IF \A k \in FieldsOf(t, P) : k <= i
                         THEN n \in FoldsOf(t, P \cup {n}, i)
                         ELSE FoldsOf(t, P \cup {n}, i) = FoldsOf(t, P, i)
  OBVIOUS
<1>1. i \in P /\ i < n
  BY DEF FieldsOf
<1>2. FieldsOf(t, P \cup {n}) = FieldsOf(t, P) \cup (IF t[n].kind = "field" THEN {n} ELSE {})
  BY DEF FieldsOf
<1>3. \A k \in FieldsOf(t, P) : k \in Nat /\ k < n
  BY DEF FieldsOf
<1>4. ASSUME NEW j \in P
      PROVE  (\A k \in FieldsOf(t, P \cup {n}) : k <= i \/ k > j)
               <=> (\A k \in FieldsOf(t, P) : k <= i \/ k > j)
  BY <1>2
<1>5. FoldsOf(t, P \cup {n}, i) \ {n} = FoldsOf(t, P, i)
  <2>1. n \notin P
    OBVIOUS
  <2>2. \A j \in P : j \in FoldsOf(t, P \cup {n}, i) <=> j \in FoldsOf(t, P, i)
    BY <1>4 DEF FoldsOf
  <2>3. FoldsOf(t, P \cup {n}, i) \subseteq P \cup {n} /\ FoldsOf(t, P, i) \subseteq P
    BY DEF FoldsOf
  <2> QED
    BY <2>1, <2>2, <2>3
<1>6. t[n].kind # "fold" => n \notin FoldsOf(t, P \cup {n}, i)
  BY DEF FoldsOf
<1>7. ASSUME t[n].kind = "fold"
      PROVE  n \in FoldsOf(t, P \cup {n}, i) <=> \A k \in FieldsOf(t, P) : k <= i
  <2>1. FieldsOf(t, P \cup {n}) = FieldsOf(t, P)
    BY <1>2, <1>7
  <2>2. \A k \in FieldsOf(t, P) : (k <= i \/ k > n) <=> k <= i
    BY <1>1, <1>3
  <2> QED
    BY <1>1, <1>7, <2>1, <2>2 DEF FoldsOf
<1>8. n \notin FoldsOf(t, P, i)
  BY DEF FoldsOf
<1> QED
  BY <1>5, <1>6, <1>7, <1>8

\* A field is one header more.
LEMMA FieldRead ==
  ASSUME NEW t, NEW P \in SUBSET Nat, NEW n \in Nat, \A j \in P : j < n,
         NEW hs \in Seq([name : MailNames, words : Seq(MailWords)]),
         NEW from \in [DOMAIN hs -> FieldsOf(t, P)], Matches(hs, t, P, from),
         t[n].kind = "field", t[n].name \in MailNames, t[n].words \in Seq(MailWords),
         NEW h, h = [name |-> t[n].name, words |-> t[n].words]
  PROVE  \E g \in [DOMAIN Append(hs, h) -> FieldsOf(t, P \cup {n})] :
           Matches(Append(hs, h), t, P \cup {n}, g)
<1> DEFINE m == Len(hs) + 1
           g == [i \in 1..m |-> IF i = m THEN n ELSE from[i]]
<1>1. /\ Len(hs) \in Nat /\ DOMAIN hs = 1..Len(hs) /\ m \in Nat
      /\ DOMAIN Append(hs, h) = 1..m
      /\ Append(hs, h)[m] = h /\ \A i \in 1..Len(hs) : Append(hs, h)[i] = hs[i]
  OBVIOUS
<1>2. \A i \in 1..m : i = m \/ i \in 1..Len(hs)
  BY <1>1
<1>3. /\ n \in FieldsOf(t, P \cup {n})
      /\ \A k \in FieldsOf(t, P) : k \in FieldsOf(t, P \cup {n}) /\ k \in Nat /\ k < n
      /\ \A k \in FieldsOf(t, P \cup {n}) : k = n \/ k \in FieldsOf(t, P)
  BY DEF FieldsOf
<1>4. /\ \A i \in 1..Len(hs) : g[i] = from[i] /\ from[i] \in FieldsOf(t, P)
      /\ g[m] = n /\ DOMAIN g = 1..m /\ m \notin 1..Len(hs)
  <2>1. m \in 1..m /\ m \notin 1..Len(hs) /\ \A i \in 1..Len(hs) : i \in 1..m /\ i # m
    BY <1>1
  <2> QED
    BY <1>1, <2>1
<1>5. g \in [1..m -> FieldsOf(t, P \cup {n})]
  BY <1>2, <1>3, <1>4
<1> HIDE DEF g
<1>6. \A i, j \in 1..m : i < j => g[i] < g[j]
  <2> SUFFICES ASSUME NEW i \in 1..m, NEW j \in 1..m, i < j
               PROVE  g[i] < g[j]
    OBVIOUS
  <2>1. i \in 1..Len(hs)
    BY <1>1
  <2>2. CASE j = m
    BY <1>3, <1>4, <2>1, <2>2
  <2>3. CASE j \in 1..Len(hs)
    BY <1>1, <1>4, <2>1, <2>3 DEF Matches
  <2> QED
    BY <1>2, <2>2, <2>3
<1>7. \A f \in FieldsOf(t, P \cup {n}) : \E i \in 1..m : g[i] = f
  <2> SUFFICES ASSUME NEW f \in FieldsOf(t, P \cup {n})
               PROVE  \E i \in 1..m : g[i] = f
    OBVIOUS
  <2>1. CASE f = n
    BY <1>1, <1>4, <2>1
  <2>2. CASE f \in FieldsOf(t, P)
    <3>1. PICK i \in 1..Len(hs) : from[i] = f
      BY <1>1, <2>2 DEF Matches
    <3>2. i \in 1..m
      BY <1>1
    <3> QED
      BY <1>4, <3>1, <3>2
  <2> QED
    BY <1>3, <2>1, <2>2
<1>10. \A i \in FieldsOf(t, P) : FoldsOf(t, P \cup {n}, i) = FoldsOf(t, P, i)
  BY FoldsGrow
<1>8. ASSUME NEW i \in 1..m
      PROVE  IsHeader(Append(hs, h)[i], t, P \cup {n}, g[i])
  <2>1. CASE i = m
    <3>1. FoldsOf(t, P \cup {n}, n) = {}
      BY DEF FoldsOf
    <3>2. /\ h \in [name : MailNames, words : Seq(MailWords)]
          /\ h.name = t[n].name /\ h.words = t[n].words
      OBVIOUS
    <3> QED
      BY <1>1, <1>4, <2>1, <3>1, <3>2 DEF IsHeader
  <2>2. CASE i \in 1..Len(hs)
    <3>1. IsHeader(hs[i], t, P, from[i]) /\ from[i] \in FieldsOf(t, P)
      BY <1>1, <1>4, <2>2 DEF Matches
    <3>2. FoldsOf(t, P \cup {n}, from[i]) = FoldsOf(t, P, from[i])
      BY <1>10, <3>1
    <3>3. IsHeader(hs[i], t, P \cup {n}, from[i])
      BY <3>1, <3>2 DEF IsHeader
    <3> QED
      BY <1>1, <1>4, <2>2, <3>3
  <2> QED
    BY <1>2, <2>1, <2>2
<1>9. Matches(Append(hs, h), t, P \cup {n}, g)
  BY <1>1, <1>6, <1>7, <1>8 DEF Matches
<1> QED
  BY <1>1, <1>5, <1>9

\* A line that is neither field nor continues one changes nothing.
LEMMA OtherRead ==
  ASSUME NEW t, NEW P \in SUBSET Nat, NEW n \in Nat, \A j \in P : j < n,
         NEW hs, NEW from \in [DOMAIN hs -> FieldsOf(t, P)], Matches(hs, t, P, from),
         t[n].kind # "field", t[n].kind # "fold" \/ DOMAIN hs = {}
  PROVE  \E g \in [DOMAIN hs -> FieldsOf(t, P \cup {n})] : Matches(hs, t, P \cup {n}, g)
<1>1. FieldsOf(t, P \cup {n}) = FieldsOf(t, P)
  BY DEF FieldsOf
<1>2. ASSUME NEW i \in DOMAIN hs
      PROVE  IsHeader(hs[i], t, P \cup {n}, from[i])
  <2>1. FoldsOf(t, P \cup {n}, from[i]) = FoldsOf(t, P, from[i])
    <3>1. t[n].kind # "fold" /\ from[i] \in FieldsOf(t, P)
      BY <1>2
    <3>2. \A k \in FieldsOf(t, P) : FoldsOf(t, P \cup {n}, k) = FoldsOf(t, P, k)
      BY <3>1, FoldsGrow
    <3> QED
      BY <3>1, <3>2
  <2> QED
    BY <2>1 DEF Matches, IsHeader
<1>3. Matches(hs, t, P \cup {n}, from)
  BY <1>1, <1>2 DEF Matches
<1> QED
  BY <1>1, <1>3

\* A line that continues makes the last header longer.
LEMMA FoldRead ==
  ASSUME NEW t, NEW P \in SUBSET Nat, NEW n \in Nat, \A j \in P : j < n,
         NEW hs \in Seq([name : MailNames, words : Seq(MailWords)]), hs # <<>>,
         NEW from \in [DOMAIN hs -> FieldsOf(t, P)], Matches(hs, t, P, from),
         t[n].kind = "fold",
         NEW gs, gs = [hs EXCEPT ![Len(hs)].words = @ \o <<"auto">>]
  PROVE  /\ gs \in Seq([name : MailNames, words : Seq(MailWords)])
         /\ \E g \in [DOMAIN gs -> FieldsOf(t, P \cup {n})] : Matches(gs, t, P \cup {n}, g)
<1> DEFINE m == Len(hs)
           h == [hs[m] EXCEPT !.words = @ \o <<"auto">>]
<1>1. m \in Nat \ {0} /\ DOMAIN hs = 1..m /\ m \in 1..m
  OBVIOUS
<1>2. hs[m] \in [name : MailNames, words : Seq(MailWords)] /\ \A i \in 1..m : i # m => i < m
  <2>1. \A i \in 1..m : i # m => i < m
    BY <1>1
  <2>2. hs[m] \in [name : MailNames, words : Seq(MailWords)]
    <3> DEFINE R == [name : MailNames, words : Seq(MailWords)]
    <3>1. hs \in Seq(R) /\ m \in DOMAIN hs
      BY <1>1
    <3> HIDE DEF m, R
    <3>2. hs[m] \in R
      BY <3>1
    <3> QED
      BY <3>2 DEF R
  <2> QED
    BY <2>1, <2>2
<1>3. /\ hs[m].words \o <<"auto">> \in Seq(MailWords)
      /\ hs[m].words \o <<"auto">> # <<>>
      /\ (hs[m].words \o <<"auto">>)[Len(hs[m].words \o <<"auto">>)] = "auto"
  <2>1. hs[m].words \in Seq(MailWords)
    BY <1>2
  <2>2. ASSUME NEW w \in Seq(MailWords)
        PROVE  /\ w \o <<"auto">> \in Seq(MailWords)
               /\ Len(w \o <<"auto">>) = Len(w) + 1 /\ Len(w) \in Nat
               /\ (w \o <<"auto">>)[Len(w) + 1] = "auto"
    BY DEF MailWords
  <2>3. Len(hs[m].words \o <<"auto">>) # 0
    BY <2>1, <2>2
  <2> QED
    BY <2>1, <2>2, <2>3
<1>4. /\ h \in [name : MailNames, words : Seq(MailWords)] /\ h.name = hs[m].name
      /\ h.words = hs[m].words \o <<"auto">>
  BY <1>2, <1>3
<1>5. gs = [hs EXCEPT ![m] = h]
  OBVIOUS
<1> HIDE DEF h, m
<1>6. /\ gs \in Seq([name : MailNames, words : Seq(MailWords)]) /\ DOMAIN gs = 1..m
      /\ gs[m] = h /\ \A i \in 1..m : i # m => gs[i] = hs[i]
  <2>1. hs \in [1..m -> [name : MailNames, words : Seq(MailWords)]]
    <3> DEFINE R == [name : MailNames, words : Seq(MailWords)]
    <3>1. hs \in Seq(R) /\ m = Len(hs)
      BY DEF m
    <3> HIDE DEF R
    <3>2. hs \in [1..m -> R]
      BY <3>1
    <3> QED
      BY <3>2 DEF R
  <2>2. gs \in [1..m -> [name : MailNames, words : Seq(MailWords)]]
    BY <1>4, <1>5, <2>1
  <2>3. gs \in Seq([name : MailNames, words : Seq(MailWords)])
    BY <1>1, <2>2
  <2> QED
    BY <1>1, <1>5, <2>1, <2>2, <2>3
<1>7. FieldsOf(t, P \cup {n}) = FieldsOf(t, P)
  BY DEF FieldsOf
<1>8. \A i \in 1..m : from[i] \in FieldsOf(t, P) /\ from[i] \in Nat
  BY <1>1 DEF FieldsOf
<1>12. \A i \in FieldsOf(t, P) :
         IF \A k \in FieldsOf(t, P) : k <= i
         THEN n \in FoldsOf(t, P \cup {n}, i)
         ELSE FoldsOf(t, P \cup {n}, i) = FoldsOf(t, P, i)
  BY FoldsGrow
<1>9. ASSUME NEW i \in 1..m
      PROVE  IsHeader(gs[i], t, P \cup {n}, from[i])
  <2>1. IsHeader(hs[i], t, P, from[i])
    BY <1>1 DEF Matches
  <2>2. CASE i = m
    <3>1. \A k \in FieldsOf(t, P) : k <= from[m]
      <4> SUFFICES ASSUME NEW k \in FieldsOf(t, P)
                   PROVE  k <= from[m]
        OBVIOUS
      <4>1. PICK j \in 1..m : from[j] = k
        BY <1>1 DEF Matches
      <4> QED
        <5>1. j # m => j < m /\ from[j] < from[m]
          BY <1>1, <1>2 DEF Matches
        <5>2. from[j] \in Nat /\ from[m] \in Nat
          BY <1>1, <1>8
        <5> QED
          BY <4>1, <5>1, <5>2
    <3>2. n \in FoldsOf(t, P \cup {n}, from[m])
      <4>1. from[m] \in FieldsOf(t, P)
        BY <1>1, <1>8
      <4> QED
        BY <1>12, <3>1, <4>1
    <3> QED
      BY <1>3, <1>4, <1>6, <2>1, <2>2, <3>2 DEF IsHeader
  <2>3. CASE i # m
    <3>1. from[i] < from[m] /\ from[m] \in FieldsOf(t, P)
      BY <1>1, <1>2, <1>8, <2>3 DEF Matches
    <3>2. FoldsOf(t, P \cup {n}, from[i]) = FoldsOf(t, P, from[i])
      <4>1. ~\A k \in FieldsOf(t, P) : k <= from[i]
        BY <1>1, <1>8, <3>1
      <4>2. from[i] \in FieldsOf(t, P)
        BY <1>8
      <4> QED
        BY <1>12, <4>1, <4>2
    <3> QED
      BY <1>6, <2>1, <2>3, <3>2 DEF IsHeader
  <2> QED
    BY <2>2, <2>3
<1>10. Matches(gs, t, P \cup {n}, from)
  <2>1. \A i, j \in 1..m : i < j => from[i] < from[j]
    BY <1>1 DEF Matches
  <2>2. \A f \in FieldsOf(t, P) : \E i \in 1..m : from[i] = f
    BY <1>1 DEF Matches
  <2> QED
    BY <1>6, <1>7, <1>9, <2>1, <2>2 DEF Matches
<1>11. from \in [DOMAIN gs -> FieldsOf(t, P \cup {n})]
  BY <1>1, <1>6, <1>7
<1> QED
  BY <1>6, <1>10, <1>11

\* What else the lines read next tell of the invariant.
LEMMA ReadHeaders ==
  ASSUME LetterTypes, LetterTypes', line' # 0, line' = line + 1, line # 0,
         text' = text, LinesRead' = LinesRead \cup {line},
         \A i \in 1..line : text[i] # Letter!Blank,
         NEW from \in [DOMAIN headers' -> FieldsOf(text, LinesRead \cup {line})],
         Matches(headers', text, LinesRead \cup {line}, from)
  PROVE  HeadersFit'
<1>1. \E f \in [DOMAIN headers' -> FieldsOf(text', LinesRead')] : Matches(headers', text', LinesRead', f)
  OBVIOUS
<1>2. line' - 1 = line
  BY DEF LetterTypes
<1>3. \A i \in 1..(line' - 1) : text'[i] # Letter!Blank
  BY <1>2
<1> QED
  BY <1>1, <1>3, Zenon DEF HeadersFit

LEMMA NextLine ==
  ASSUME LetterIInv, Letter!ParseLine
  PROVE  LetterIInv'
<1>1. /\ line # 0 /\ line <= Len(text) /\ UNCHANGED <<text, wired>>
      /\ line' = IF text[line] = Letter!Blank THEN 0 ELSE line + 1
  BY DEF Letter!ParseLine, Letter!EndsHeaders
<1>2. WireFits'
  BY <1>1 DEF LetterIInv, WireFits
<1>3. /\ line \in Nat /\ Len(text) \in Nat /\ text \in Seq(Letter!Lines)
      /\ headers \in Seq([name : MailNames, words : Seq(MailWords)])
      /\ line \in DOMAIN text /\ text[line] \in MailLines
      /\ text[line].kind = "fold" => text[line].words = <<"auto">>
  <2>1. /\ line \in Nat /\ Len(text) \in Nat /\ text \in Seq(Letter!Lines)
        /\ headers \in Seq([name : MailNames, words : Seq(MailWords)])
    BY DEF LetterIInv, LetterTypes
  <2>2. line \in DOMAIN text /\ text[line] \in Letter!Lines
    BY <1>1, <2>1
  <2> QED
    BY <2>1, <2>2, LinesShape
<1>4. text' \in Seq(Letter!Lines) /\ line' \in 0..(Len(text') + 1)
  BY <1>1, <1>3
<1>5. PICK from \in [DOMAIN headers -> FieldsOf(text, LinesRead)] :
        Matches(headers, text, LinesRead, from)
  BY DEF LetterIInv, HeadersFit
<1>6. CASE text[line] = Letter!Blank
  <2>1. line' = 0 /\ headers' = headers
    BY <1>1, <1>6, LinesShape DEF Letter!ParseLine
  <2>2. LinesRead' = LinesRead
    <3>1. \A i \in 1..(line - 1) : text[i] # Letter!Blank
      BY <1>1 DEF LetterIInv, HeadersFit
    <3>2. \A i \in DOMAIN text : (\A j \in 1..i : text[j] # Letter!Blank) <=> i \in 1..(line - 1)
      <4>1. \A i \in DOMAIN text : i \in Nat /\ (i < line => i \in 1..(line - 1))
        BY <1>3
      <4>2. \A i \in 1..(line - 1) : \A j \in 1..i : j \in 1..(line - 1)
        BY <1>3
      <4>3. \A i \in DOMAIN text : ~(i < line) => line \in 1..i
        BY <1>3, <4>1
      <4> QED
        BY <1>6, <3>1, <4>1, <4>2, <4>3
    <3>3. 1..(line - 1) \subseteq DOMAIN text
      BY <1>1, <1>3
    <3>4. Letter!HeaderLines = 1..(line - 1)
      BY <3>2, <3>3 DEF Letter!HeaderLines
    <3>5. Letter!HeaderLines' = Letter!HeaderLines
      BY <1>1 DEF Letter!HeaderLines
    <3> QED
      BY <1>1, <2>1, <3>4, <3>5 DEF LinesRead
  <2>3. HeadersFit'
    BY <1>1, <1>5, <2>1, <2>2 DEF HeadersFit
  <2>4. LetterTypes'
    BY <1>3, <1>4, <2>1 DEF LetterTypes
  <2> QED
    BY <1>2, <2>3, <2>4 DEF LetterIInv
<1>7. CASE text[line] # Letter!Blank
  <2>1. /\ line' = line + 1 /\ line' # 0
        /\ LinesRead' = LinesRead \cup {line}
        /\ LinesRead \in SUBSET Nat /\ \A j \in LinesRead : j < line
        /\ \A i \in 1..line : text[i] # Letter!Blank
    <3>1. line' = line + 1 /\ line' # 0 /\ line' - 1 = line
      BY <1>1, <1>3, <1>7
    <3>2. LinesRead' = 1..line
      BY <3>1 DEF LinesRead
    <3> QED
      BY <1>1, <1>7, <3>1, <3>2, LineRead
  <2>2. CASE text[line].kind = "field"
    <3> DEFINE h == [name |-> text[line].name, words |-> text[line].words]
    <3>1. headers' = Append(headers, h)
      BY <2>2 DEF Letter!ParseLine
    <3>2. /\ text[line].name \in MailNames /\ text[line].words \in Seq(MailWords)
          /\ h \in [name : MailNames, words : Seq(MailWords)]
      BY <1>3 DEF MailLines
    <3> HIDE DEF h
    <3>3. headers' \in Seq([name : MailNames, words : Seq(MailWords)])
      BY <1>3, <3>1, <3>2
    <3>4. LetterTypes'
      BY <1>4, <3>3 DEF LetterTypes
    <3>5. \E g \in [DOMAIN Append(headers, h) -> FieldsOf(text, LinesRead \cup {line})] :
            Matches(Append(headers, h), text, LinesRead \cup {line}, g)
      BY <1>3, <1>5, <2>1, <2>2, <3>2, FieldRead DEF h
    <3> QED
      BY <1>1, <1>2, <2>1, <3>1, <3>4, <3>5, ReadHeaders DEF LetterIInv
  <2>3. CASE text[line].kind = "fold" /\ headers # <<>>
    <3> DEFINE gs == [headers EXCEPT ![Len(headers)].words = @ \o <<"auto">>]
    <3>1. headers' = gs
      BY <1>3, <2>3 DEF Letter!ParseLine
    <3> HIDE DEF gs
    <3>2. /\ gs \in Seq([name : MailNames, words : Seq(MailWords)])
          /\ \E g \in [DOMAIN gs -> FieldsOf(text, LinesRead \cup {line})] :
               Matches(gs, text, LinesRead \cup {line}, g)
      BY <1>3, <1>5, <2>1, <2>3, FoldRead DEF gs
    <3>3. LetterTypes'
      BY <1>4, <3>1, <3>2 DEF LetterTypes
    <3> QED
      BY <1>1, <1>2, <2>1, <3>1, <3>2, <3>3, ReadHeaders DEF LetterIInv
  <2>4. CASE text[line].kind # "field" /\ (text[line].kind # "fold" \/ headers = <<>>)
    <3>1. headers' = headers
      BY <2>4 DEF Letter!ParseLine
    <3>2. headers = <<>> => DOMAIN headers = {}
      OBVIOUS
    <3>3. \E g \in [DOMAIN headers -> FieldsOf(text, LinesRead \cup {line})] :
            Matches(headers, text, LinesRead \cup {line}, g)
      BY <1>3, <1>5, <2>1, <2>4, <3>2, OtherRead
    <3>4. LetterTypes'
      BY <1>3, <1>4, <3>1 DEF LetterTypes
    <3> QED
      BY <1>1, <1>2, <2>1, <3>1, <3>3, <3>4, ReadHeaders DEF LetterIInv
  <2> QED
    BY <2>2, <2>3, <2>4
<1> QED
  BY <1>6, <1>7

LEMMA NextLetter ==
  ASSUME LetterIInv, Letter!Next
  PROVE  LetterIInv'
<1>1. CASE Letter!ParseLine
  BY <1>1, NextLine
<1>2. CASE Letter!ParseEnd
  <2>1. line = Len(text) + 1 /\ line' = 0 /\ UNCHANGED <<text, headers, wired>>
    BY <1>2 DEF Letter!ParseEnd
  <2>2. LetterTypes' /\ WireFits' /\ Len(text) \in Nat /\ DOMAIN text = 1..Len(text)
    <3>1. WireFits'
      BY <2>1 DEF LetterIInv, WireFits
    <3>2. LetterTypes /\ Len(text) \in Nat /\ DOMAIN text = 1..Len(text)
      BY DEF LetterIInv, LetterTypes
    <3>3. LetterTypes'
      BY <2>1, <3>2 DEF LetterTypes
    <3> QED
      BY <3>1, <3>2, <3>3
  <2>3. LinesRead' = LinesRead
    <3>1. line # 0 /\ line - 1 = Len(text)
      BY <2>1, <2>2
    <3>2. \A i \in 1..Len(text) : text[i] # Letter!Blank
      BY <3>1 DEF LetterIInv, HeadersFit
    <3>3. \A i \in 1..Len(text) : \A j \in 1..i : j \in 1..Len(text)
      BY <2>2
    <3>4. Letter!HeaderLines = 1..Len(text)
      BY <2>2, <3>2, <3>3 DEF Letter!HeaderLines
    <3>5. Letter!HeaderLines' = Letter!HeaderLines
      BY <2>1 DEF Letter!HeaderLines
    <3> QED
      BY <2>1, <3>1, <3>4, <3>5 DEF LinesRead
  <2>4. PICK from \in [DOMAIN headers -> FieldsOf(text, LinesRead)] :
          Matches(headers, text, LinesRead, from)
    BY DEF LetterIInv, HeadersFit
  <2>5. HeadersFit'
    BY <2>1, <2>3, <2>4 DEF HeadersFit
  <2> QED
    BY <2>2, <2>5 DEF LetterIInv
<1>3. CASE Letter!Send
  <2>1. /\ UNCHANGED <<text, line, headers>>
        /\ wired' = [i \in DOMAIN text |-> Letter!Dotted(text[i])] \o <<Letter!Text(1, <<>>)>>
    BY <1>3 DEF Letter!Send
  <2>2. LetterTypes' /\ WireFits' /\ LinesRead' = LinesRead
    BY <2>1 DEF LetterIInv, LetterTypes, WireFits, LinesRead, Letter!HeaderLines
  <2>3. PICK from \in [DOMAIN headers -> FieldsOf(text, LinesRead)] :
          Matches(headers, text, LinesRead, from)
    BY DEF LetterIInv, HeadersFit
  <2>4. HeadersFit'
    BY <2>1, <2>2, <2>3 DEF LetterIInv, HeadersFit
  <2> QED
    BY <2>2, <2>4 DEF LetterIInv
<1> QED
  BY <1>1, <1>2, <1>3 DEF Letter!Next

LEMMA StillLetter ==
  ASSUME LetterIInv, UNCHANGED textVars
  PROVE  LetterIInv'
<1>1. UNCHANGED <<text, line, headers, wired>>
  BY DEF textVars
<1>2. LetterTypes' /\ WireFits' /\ LinesRead' = LinesRead
  BY <1>1 DEF LetterIInv, LetterTypes, WireFits, LinesRead, Letter!HeaderLines
<1>3. PICK from \in [DOMAIN headers -> FieldsOf(text, LinesRead)] :
        Matches(headers, text, LinesRead, from)
  BY DEF LetterIInv, HeadersFit
<1>4. HeadersFit'
  BY <1>1, <1>2, <1>3 DEF LetterIInv, HeadersFit
<1> QED
  BY <1>2, <1>4 DEF LetterIInv

-----------------------------------------------------------------------------

\* Some numbers up to n have a greatest and a least.
LEMMA Greatest ==
  ASSUME NEW n \in Nat, NEW S \in SUBSET (0..n), S # {}
  PROVE  /\ \E m \in S : \A k \in S : k <= m
         /\ \E m \in S : \A k \in S : m <= k
<1>1. ASSUME NEW T \in SUBSET (0..n), T # {}
      PROVE  \E m \in T : \A k \in T : m <= k
  <2>1. T \subseteq Nat
    OBVIOUS
  <2>2. \E m \in T : \A k \in T : ~ (<<k, m>> \in OpToRel(<, Nat))
    BY <1>1, <2>1, WFMin, NatLessThanWellFounded, Zenon
  <2>3. \A k, j \in Nat : ~ (<<j, k>> \in OpToRel(<, Nat)) => k <= j
    BY DEF OpToRel
  <2> QED
    BY <2>1, <2>2, <2>3
<1> DEFINE T == {n - k : k \in S}
<1>2. T \in SUBSET (0..n) /\ T # {} /\ \A k \in S : n - k \in T
  <2>1. \A k \in S : n - k \in 0..n
    OBVIOUS
  <2>2. T # {}
    OBVIOUS
  <2>3. \A k \in S : n - k \in T
    OBVIOUS
  <2> QED
    BY <2>1, <2>2, <2>3
<1>3. PICK u \in T : \A k \in T : u <= k
  <2> HIDE DEF T
  <2> QED
    BY <1>1, <1>2
<1>4. PICK m \in S : u = n - m
  BY <1>3
<1>5. \A k \in S : n - m <= n - k
  BY <1>2, <1>3, <1>4
<1>6. \A k \in S : k <= m
  BY <1>5
<1> QED
  BY <1>1, <1>6

\* Only the last line that was sent is a lone dot, and the dots before others
\* are taken away again.
LEMMA LinesArrive == LetterIInv => Letter!ArrivesWhole
<1> SUFFICES ASSUME LetterIInv, wired # <<>>
             PROVE  Letter!Received = text
  BY DEF Letter!ArrivesWhole
<1> DEFINE n == Len(text)
           sent == [i \in DOMAIN text |-> Letter!Dotted(text[i])]
           lone == {i \in DOMAIN wired : wired[i].dots = 1 /\ wired[i].words = <<>>}
<1>1. /\ wired = sent \o <<Letter!Text(1, <<>>)>>
      /\ text \in Seq(Letter!Lines) /\ n \in Nat /\ DOMAIN text = 1..n
  <2>1. wired = sent \o <<Letter!Text(1, <<>>)>>
    BY DEF LetterIInv, WireFits
  <2>2. text \in Seq(Letter!Lines)
    BY DEF LetterIInv, LetterTypes
  <2> QED
    BY <2>1, <2>2
<1>2. \A i \in 1..n : text[i] \in MailLines
  BY <1>1, LinesShape
<1>3. ASSUME NEW l \in MailLines
      PROVE  /\ Letter!Dotted(l) \in MailLines /\ Letter!Dotted(l).dots # 1
             /\ IF Letter!Dotted(l).dots > 0
                THEN [Letter!Dotted(l) EXCEPT !.dots = @ - 1] = l ELSE Letter!Dotted(l) = l
  <2>1. l.dots \in Nat /\ l = [kind |-> l.kind, name |-> l.name, words |-> l.words, dots |-> l.dots]
    BY DEF MailLines
  <2>2. CASE l.dots = 0
    <3>1. Letter!Dotted(l) = l
      BY <2>2 DEF Letter!Dotted
    <3> QED
      BY <2>2, <3>1
  <2>3. CASE l.dots # 0
    <3>1. Letter!Dotted(l) = [l EXCEPT !.dots = l.dots + 1]
      BY <2>1, <2>3 DEF Letter!Dotted
    <3>2. [[l EXCEPT !.dots = l.dots + 1] EXCEPT !.dots = l.dots] = l
      BY <2>1
    <3>3. Letter!Dotted(l) \in MailLines /\ Letter!Dotted(l).dots = l.dots + 1
      BY <2>1, <3>1 DEF MailLines
    <3>4. l.dots + 1 > 0 /\ l.dots + 1 # 1 /\ (l.dots + 1) - 1 = l.dots
      BY <2>1, <2>3
    <3> QED
      BY <3>1, <3>2, <3>3, <3>4
  <2> QED
    BY <2>2, <2>3
<1>4. /\ sent \in Seq(MailLines) /\ Len(sent) = n
      /\ \A i \in 1..n : sent[i] = Letter!Dotted(text[i])
  <2>1. \A i \in 1..n : Letter!Dotted(text[i]) \in MailLines
    BY <1>2, <1>3
  <2>2. sent \in [1..n -> MailLines]
    BY <1>1, <2>1
  <2> QED
    BY <1>1, <2>2
<1>5. Letter!Text(1, <<>>).dots = 1 /\ Letter!Text(1, <<>>).words = <<>>
  BY DEF Letter!Text
<1>6. /\ DOMAIN wired = 1..(n + 1) /\ wired[n + 1] = Letter!Text(1, <<>>)
      /\ \A i \in 1..n : wired[i] = sent[i]
  <2> HIDE DEF sent
  <2>1. DEFINE e == Letter!Text(1, <<>>)
  <2> HIDE DEF e, n
  <2>2. wired = sent \o <<e>> /\ Len(sent) = n /\ n \in Nat
    BY <1>1, <1>4 DEF e
  <2>3. /\ DOMAIN wired = 1..(n + 1) /\ wired[n + 1] = e
        /\ \A i \in 1..n : wired[i] = sent[i]
    BY <1>4, <2>2
  <2> QED
    BY <2>3 DEF e
<1>7. lone = {n + 1}
  <2>1. n + 1 \in lone
    BY <1>1, <1>5, <1>6
  <2>2. \A i \in 1..n : i \notin lone
    <3> SUFFICES ASSUME NEW i \in 1..n
                 PROVE  wired[i].dots # 1
      OBVIOUS
    <3>1. wired[i] = Letter!Dotted(text[i]) /\ text[i] \in MailLines
      BY <1>2, <1>4, <1>6
    <3> QED
      BY <1>3, <3>1
  <2>3. \A i \in 1..(n + 1) : i \in 1..n \/ i = n + 1
    BY <1>1
  <2> QED
    BY <1>6, <2>1, <2>2, <2>3
<1>8. Letter!Min(lone) = n + 1
  BY <1>1, <1>7 DEF Letter!Min
<1>9. Letter!Received = [i \in 1..n |->
        IF wired[i].dots > 0 THEN [wired[i] EXCEPT !.dots = @ - 1] ELSE wired[i]]
  <2>1. Letter!Received = [i \in 1..(Letter!Min(lone) - 1) |->
          IF wired[i].dots > 0 THEN [wired[i] EXCEPT !.dots = @ - 1] ELSE wired[i]]
    BY Zenon DEF Letter!Received
  <2>2. Letter!Min(lone) - 1 = n
    <3> HIDE DEF lone, n
    <3> QED
      BY <1>1, <1>8
  <2> QED
    BY <2>1, <2>2
<1>10. \A i \in 1..n :
         (IF wired[i].dots > 0 THEN [wired[i] EXCEPT !.dots = @ - 1] ELSE wired[i]) = text[i]
  <2> SUFFICES ASSUME NEW i \in 1..n
               PROVE  (IF wired[i].dots > 0 THEN [wired[i] EXCEPT !.dots = @ - 1]
                       ELSE wired[i]) = text[i]
    OBVIOUS
  <2>1. wired[i] = Letter!Dotted(text[i]) /\ text[i] \in MailLines
    BY <1>2, <1>4, <1>6
  <2> QED
    BY <1>3, <2>1
<1>11. text = [i \in 1..n |-> text[i]]
  BY <1>1
<1> QED
  BY <1>9, <1>10, <1>11

\* The last header of that name stands for the last field, with what continues it.
LEMMA LastIsFound ==
  ASSUME LetterIInv, line = 0
  PROVE  Letter!AutomaticIsSeen
<1> DEFINE P == Letter!HeaderLines
           mine == {i \in FieldsOf(text, P) : text[i].name = "auto-submitted"}
           found == {i \in DOMAIN headers : headers[i].name = "auto-submitted"}
           last == CHOOSE x \in mine : \A y \in mine : y <= x
           spoken == Letter!Get("auto-submitted")
<1>1. /\ P \subseteq DOMAIN text /\ DOMAIN text \subseteq Nat
      /\ \A i \in P : text[i] \in MailLines /\ i \in Nat
      /\ \A i \in P : text[i].kind = "field" /\ text[i].name = "auto-submitted" =>
           text[i].words \in {<<>>, <<"no">>, <<"auto">>}
  BY LinesShape DEF LetterIInv, LetterTypes, Letter!HeaderLines
<1>2. PICK from \in [DOMAIN headers -> FieldsOf(text, P)] : Matches(headers, text, P, from)
  BY DEF LetterIInv, HeadersFit, LinesRead
<1>3. /\ spoken = IF found = {} THEN <<>> ELSE headers[Letter!Max(found)].words
      /\ Letter!AutoSubmitted <=> spoken \notin {<<>>, <<"no">>}
  BY DEF Letter!Get, Letter!AutoSubmitted
<1>4. Letter!AutomaticIsSeen <=>
        (Letter!AutoSubmitted <=>
           mine # {} /\ (text[last].words = <<"auto">> \/ FoldsOf(text, P, last) # {}))
  BY DEF Letter!AutomaticIsSeen, FoldsOf, FieldsOf
<1> HIDE DEF P, spoken
<1>5. /\ \A i \in found : from[i] \in mine
      /\ \A f \in mine : \E i \in found : from[i] = f
  BY <1>2 DEF Matches, IsHeader
<1>6. CASE found = {}
  BY <1>3, <1>4, <1>5, <1>6
<1>7. CASE found # {}
  <2>1. PICK m \in found : \A k \in found : k <= m
    <3>1. found \in SUBSET (0..Len(headers)) /\ Len(headers) \in Nat
      BY DEF LetterIInv, LetterTypes
    <3> HIDE DEF found
    <3> QED
      BY <1>7, <3>1, Greatest
  <2>2. found \subseteq Nat
    BY DEF LetterIInv, LetterTypes
  <2>3. Letter!Max(found) = m
    <3> HIDE DEF found
    <3>1. \A x \in found : (\A y \in found : x >= y) => x = m
      BY <2>1, <2>2
    <3>2. \A y \in found : m >= y
      BY <2>1, <2>2
    <3> QED
      BY <3>1, <3>2, Zenon DEF Letter!Max
  <2>4. from[m] \in mine /\ \A f \in mine : f <= from[m]
    <3>1. \A i \in found : i = m \/ (i < m /\ from[i] < from[m])
      BY <1>2, <2>1, <2>2 DEF Matches
    <3>2. \A i \in found : from[i] \in Nat
      BY <1>1, <1>5 DEF FieldsOf
    <3>3. \A i \in found : from[i] <= from[m]
      BY <2>1, <3>1, <3>2
    <3> QED
      BY <1>5, <2>1, <3>3
  <2>5. last = from[m]
    <3>1. mine \subseteq Nat
      BY <1>1 DEF FieldsOf
    <3> HIDE DEF mine
    <3> HIDE DEF last
    <3>2. \A x \in mine : (\A y \in mine : y <= x) => x = from[m]
      <4> SUFFICES ASSUME NEW x \in mine, \A y \in mine : y <= x
                   PROVE  x = from[m]
        OBVIOUS
      <4>1. from[m] <= x /\ x <= from[m] /\ x \in Nat /\ from[m] \in Nat
        BY <2>4, <3>1
      <4> QED
        BY <4>1
    <3> QED
      BY <2>4, <3>2, Zenon DEF last
  <2>6. IsHeader(headers[m], text, P, from[m]) /\ spoken = headers[m].words
    BY <1>2, <1>3, <1>7, <2>1, <2>3 DEF Matches
  <2>7. text[from[m]].words \in {<<>>, <<"no">>, <<"auto">>}
    BY <1>1, <2>4 DEF FieldsOf
  <2>8. <<>> # <<"auto">> /\ <<"no">> # <<"auto">> /\ <<"no">>[Len(<<"no">>)] # "auto"
    OBVIOUS
  <2>9. (spoken \notin {<<>>, <<"no">>}) <=>
          (text[from[m]].words = <<"auto">> \/ FoldsOf(text, P, from[m]) # {})
    <3>1. CASE FoldsOf(text, P, from[m]) = {}
      <4>1. spoken = text[from[m]].words
        BY <2>6, <3>1 DEF IsHeader
      <4> QED
        BY <2>7, <2>8, <3>1, <4>1
    <3>2. CASE FoldsOf(text, P, from[m]) # {}
      <4>1. spoken # <<>> /\ spoken[Len(spoken)] = "auto"
        BY <2>6, <3>2 DEF IsHeader
      <4> QED
        BY <2>8, <3>2, <4>1
    <3> QED
      BY <3>1, <3>2
  <2>10. mine # {}
    BY <2>4
  <2> QED
    BY <1>3, <1>4, <2>5, <2>9, <2>10
<1> QED
  BY <1>6, <1>7

LetterInv == part = "text" => LetterIInv

LEMMA NextText == LetterInv /\ [Next]_vars => LetterInv'
<1> SUFFICES ASSUME LetterInv, [Next]_vars, part' = "text"
             PROVE  LetterIInv'
  BY DEF LetterInv
<1>1. part = "text" /\ (Letter!Next \/ UNCHANGED textVars)
  BY DEF Next, vars, InPoll, InPeek, InForward, InAdapters, InMail, InText, InKey
<1> QED
  BY <1>1, NextLetter, StillLetter DEF LetterInv

\* Whatever its lines are and however many: an automatic mail is recognised by
\* its last Auto-Submitted field, continued or not, and no line of a mail ends
\* its transfer early or arrives changed (Headers::parse, dot_stuffed).
THEOREM MailIsReadAndSent == Spec => []MailTextArrives
<1>1. Init => LetterInv
  BY InitLetter DEF Init, LetterInv
<1>2. LetterInv => MailTextArrives
  <2>1. LetterIInv => Letter!AutomaticIsSeen
    BY LastIsFound DEF Letter!AutomaticIsSeen
  <2> QED
    BY <2>1, LinesArrive DEF MailTextArrives, LetterInv
<1> QED
  BY <1>1, <1>2, NextText, PTL DEF Spec

-----------------------------------------------------------------------------
(* Key files *)

\* What the steps rely on.
KeyTypes ==
  /\ file \in [exists : BOOLEAN, key : Nat, written : 0..3, private : BOOLEAN]
  /\ program \in [Programs -> {"off", "read", "secure", "create", "write", "run", "error"}]
  /\ key \in [Programs -> Nat]
  /\ starts \in Nat
  /\ used \subseteq Nat

\* The file a program writes is there, private, and has its key; so there is
\* one writer, as create_new makes a file only once.
WritersOwn ==
  \A x \in Programs : program[x] = "write" => /\ file.exists /\ file.private
                                              /\ file.key = key[x]

\* A key that was read or has been used is the one of a file with a whole key.
KeyIsWhole ==
  /\ \A x \in Programs : program[x] = "secure" => /\ file.exists /\ file.written >= 2
                                                  /\ file.key = key[x]
  /\ \A k \in used : file.exists /\ file.written >= 2 /\ file.key = k

KeyIInv == KeyTypes /\ WritersOwn /\ KeyIsWhole /\ KeyFiles!KeyIsPrivate

LEMMA InitKeys == KeyFiles!Init => KeyIInv
<1> SUFFICES ASSUME KeyFiles!Init PROVE KeyIInv
  OBVIOUS
<1> USE DEF KeyFiles!Init
<1>1. /\ file \in [exists : BOOLEAN, key : Nat, written : 0..3, private : BOOLEAN]
      /\ file.key = 0
  <2>1. CASE file = KeyFiles!Absent
    BY <2>1 DEF KeyFiles!Absent
  <2>2. CASE file \in [exists : {TRUE}, key : {0}, written : {2, 3}, private : BOOLEAN]
    <3>1. PICK w \in {2, 3}, b \in BOOLEAN :
            file = [exists |-> TRUE, key |-> 0, written |-> w, private |-> b]
      BY <2>2
    <3> QED
      BY <3>1
  <2> QED
    BY <2>1, <2>2
<1> QED
  BY <1>1 DEF KeyIInv, KeyTypes, WritersOwn, KeyIsWhole, KeyFiles!KeyIsPrivate

\* One lemma per action that touches the file or a key.
LEMMA KeyStarts ==
  ASSUME KeyIInv, NEW x \in Programs, KeyFiles!Start(x)
  PROVE  KeyIInv'
BY DEF KeyIInv, KeyTypes, WritersOwn, KeyIsWhole, KeyFiles!KeyIsPrivate,
  KeyFiles!Start, KeyFiles!Go

\* Who reads the file while it is written finds the key of the writer or an
\* unfinished one.
LEMMA KeyReads ==
  ASSUME KeyIInv, NEW x \in Programs, KeyFiles!Read(x)
  PROVE  KeyIInv'
<1> USE DEF KeyIInv, KeyTypes
<1>1. CASE ~file.exists
  BY <1>1 DEF KeyFiles!Read, KeyFiles!Go, WritersOwn, KeyIsWhole, KeyFiles!KeyIsPrivate
<1>2. CASE file.exists /\ file.written >= 2
  BY <1>2 DEF KeyFiles!Read, KeyFiles!Go, WritersOwn, KeyIsWhole, KeyFiles!KeyIsPrivate
<1>3. CASE file.exists /\ file.written < 2
  BY <1>3 DEF KeyFiles!Read, KeyFiles!Go, WritersOwn, KeyIsWhole, KeyFiles!KeyIsPrivate
<1> QED
  BY <1>1, <1>2, <1>3

LEMMA KeySecures ==
  ASSUME KeyIInv, NEW x \in Programs, KeyFiles!Secure(x)
  PROVE  KeyIInv'
BY DEF KeyIInv, KeyTypes, WritersOwn, KeyIsWhole, KeyFiles!KeyIsPrivate,
  KeyFiles!Secure, KeyFiles!Run, KeyFiles!Go

\* create_new: nobody has used or read a key while there is no file.
LEMMA KeyCreates ==
  ASSUME KeyIInv, NEW x \in Programs, KeyFiles!Create(x)
  PROVE  KeyIInv'
<1> USE DEF KeyIInv, KeyTypes
<1>1. CASE file.exists
  BY <1>1 DEF KeyFiles!Create, KeyFiles!Go, WritersOwn, KeyIsWhole, KeyFiles!KeyIsPrivate
<1>2. CASE ~file.exists
  <2>1. /\ file' = [exists |-> TRUE, key |-> key[x], written |-> 0, private |-> TRUE]
        /\ program' = [program EXCEPT ![x] = "write"]
        /\ UNCHANGED <<key, starts, used>>
    BY <1>2 DEF KeyFiles!Create, KeyFiles!New, KeyFiles!Go
  <2>2. used = {} /\ \A q \in Programs : program[q] \notin {"write", "secure"}
    BY <1>2 DEF WritersOwn, KeyIsWhole
  <2>3. KeyTypes'
    BY <2>1
  <2>4. \A q \in Programs : /\ program'[q] = "write" => q = x
                            /\ program'[q] # "secure"
    BY <2>1, <2>2
  <2>5. (WritersOwn /\ KeyIsWhole /\ KeyFiles!KeyIsPrivate)'
    BY <2>1, <2>2, <2>4 DEF WritersOwn, KeyIsWhole, KeyFiles!KeyIsPrivate
  <2> QED
    BY <2>3, <2>5
<1> QED
  BY <1>1, <1>2

LEMMA KeyWrites ==
  ASSUME KeyIInv, NEW x \in Programs, KeyFiles!Write(x)
  PROVE  KeyIInv'
<1> USE DEF KeyIInv, KeyTypes
<1>1. PICK n \in (file.written + 1)..3 :
        /\ file' = [file EXCEPT !.written = n, !.key = key[x]]
        /\ IF n = 3 THEN KeyFiles!Run(x, key[x]) ELSE UNCHANGED <<program, key, used>>
  BY DEF KeyFiles!Write
<1>2. /\ program[x] = "write" /\ starts' = starts
      /\ file.exists /\ file.private /\ file.key = key[x]
      /\ n \in 0..3 /\ n >= file.written
  BY DEF KeyFiles!Write, WritersOwn
<1>3. file' = [exists |-> TRUE, key |-> key[x], written |-> n, private |-> TRUE]
  BY <1>1, <1>2
<1>4. CASE n = 3
  <2>1. /\ program' = [program EXCEPT ![x] = "run"]
        /\ key' = [key EXCEPT ![x] = key[x]] /\ used' = used \cup {key[x]}
    BY <1>1, <1>4 DEF KeyFiles!Run, KeyFiles!Go
  <2>2. key' = key /\ key[x] \in Nat
    BY <2>1
  <2>3. KeyTypes'
    BY <1>2, <1>3, <2>1, <2>2
  <2>4. \A q \in Programs \ {x} : program'[q] = program[q]
    BY <2>1
  <2>5. (WritersOwn /\ KeyIsWhole /\ KeyFiles!KeyIsPrivate)'
    BY <1>2, <1>3, <1>4, <2>1, <2>2, <2>4 DEF WritersOwn, KeyIsWhole, KeyFiles!KeyIsPrivate
  <2> QED
    BY <2>3, <2>5
<1>5. CASE n # 3
  <2>1. UNCHANGED <<program, key, used>>
    BY <1>1, <1>5
  <2>2. KeyTypes'
    BY <1>2, <1>3, <2>1
  <2>3. (WritersOwn /\ KeyIsWhole /\ KeyFiles!KeyIsPrivate)'
    BY <1>2, <1>3, <2>1 DEF WritersOwn, KeyIsWhole, KeyFiles!KeyIsPrivate
  <2> QED
    BY <2>2, <2>3
<1> QED
  BY <1>4, <1>5

LEMMA KeyFails ==
  ASSUME KeyIInv, NEW x \in Programs, KeyFiles!Fail(x) \/ KeyFiles!Stop(x)
  PROVE  KeyIInv'
<1> USE DEF KeyIInv, KeyTypes, WritersOwn, KeyIsWhole, KeyFiles!KeyIsPrivate
<1>1. CASE KeyFiles!Fail(x)
  BY <1>1 DEF KeyFiles!Fail, KeyFiles!Go
<1>2. CASE KeyFiles!Stop(x)
  BY <1>2 DEF KeyFiles!Stop, KeyFiles!Go
<1> QED
  BY <1>1, <1>2

LEMMA NextKeys == KeyIInv /\ [KeyFiles!Next]_(KeyFiles!vars) => KeyIInv'
<1> SUFFICES ASSUME KeyIInv, [KeyFiles!Next]_(KeyFiles!vars)
             PROVE  KeyIInv'
  OBVIOUS
<1>1. CASE UNCHANGED KeyFiles!vars
  BY <1>1 DEF KeyIInv, KeyTypes, WritersOwn, KeyIsWhole, KeyFiles!KeyIsPrivate, KeyFiles!vars
<1>2. CASE KeyFiles!Rest
  BY <1>1, <1>2 DEF KeyFiles!Rest
<1>3. ASSUME NEW x \in Programs,
             \/ KeyFiles!Start(x) \/ KeyFiles!Read(x) \/ KeyFiles!Secure(x)
             \/ KeyFiles!Create(x) \/ KeyFiles!Write(x) \/ KeyFiles!Fail(x) \/ KeyFiles!Stop(x)
      PROVE  KeyIInv'
  BY <1>3, KeyStarts, KeyReads, KeySecures, KeyCreates, KeyWrites, KeyFails
<1> QED
  BY <1>1, <1>2, <1>3 DEF KeyFiles!Next

KeyInv == part = "key" => KeyIInv

LEMMA NextKey == KeyInv /\ [Next]_vars => KeyInv'
<1> SUFFICES ASSUME KeyInv, [Next]_vars, part' = "key"
             PROVE  KeyIInv'
  BY DEF KeyInv
<1>1. part = "key" /\ (KeyFiles!Next \/ UNCHANGED keyVars)
  BY DEF Next, vars, InPoll, InPeek, InForward, InAdapters, InMail, InText, InKey
<1>2. UNCHANGED keyVars => UNCHANGED KeyFiles!vars
  BY DEF keyVars, KeyFiles!vars
<1> QED
  BY <1>1, <1>2, NextKeys DEF KeyInv

\* On unix programs that share a key file never run with two keys, whichever of
\* them create it at once and whenever one is killed, and nobody else can read
\* the key they run with (private_key, write_new_key_file, secure_key_file).
THEOREM OneKeyIsUsed == Spec => []OnePrivateKey
<1>1. Init => KeyInv
  BY InitKeys DEF Init, KeyInv
<1>2. KeyInv => OnePrivateKey
  BY DEF OnePrivateKey, KeyInv, KeyIInv, KeyIsWhole, KeyFiles!OneKey
<1> QED
  BY <1>1, <1>2, NextKey, PTL DEF Spec
=============================================================================
