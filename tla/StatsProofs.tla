----------------------------- MODULE StatsProofs -----------------------------
(***************************************************************************)
(* The invariant of the parts of MCPages that count, with what a loop over *)
(* a sequence computes.                                                    *)
(***************************************************************************)
EXTENDS MCPages, FiniteSetTheorems, SequenceTheorems, TLAPS

-----------------------------------------------------------------------------
(* Recursion *)

\* Some numbers have a least.
LEMMA LeastNumber ==
  ASSUME NEW S \in SUBSET Nat, S # {}
  PROVE  \E m \in S : \A k \in S : m <= k
<1>1. \E m \in S : \A k \in S : ~ (<<k, m>> \in OpToRel(<, Nat))
  BY WFMin, NatLessThanWellFounded, Zenon
<1>2. \A k, j \in Nat : ~ (<<j, k>> \in OpToRel(<, Nat)) => k <= j
  BY DEF OpToRel
<1> QED
  BY <1>1, <1>2

\* A set of numbers that has zero and with a number the next has all of them.
LEMMA Induction ==
  ASSUME NEW S, 0 \in S, \A n \in Nat : n \in S => n + 1 \in S
  PROVE  \A n \in Nat : n \in S
<1> DEFINE Bad == {n \in Nat : n \notin S}
<1>1. SUFFICES ASSUME Bad # {}
               PROVE  FALSE
  OBVIOUS
<1>2. PICK m \in Bad : \A k \in Bad : m <= k
  <2> HIDE DEF Bad
  <2>1. Bad \in SUBSET Nat
    BY DEF Bad
  <2> QED
    BY <1>1, <2>1, LeastNumber
<1>3. m \in Nat /\ m # 0 /\ m \notin S
  BY <1>2
<1>4. m - 1 \in Nat /\ m - 1 \notin Bad /\ (m - 1) + 1 = m
  BY <1>2, <1>3
<1> QED
  BY <1>3, <1>4

\* The first n values of the recursion that starts at b and goes on by s.
Runs(T, b, s, n) ==
  {g \in [0..n -> T] : g[0] = b /\ \A i \in 0..(n - 1) : g[i + 1] = s[<<i, g[i]>>]}

LEMMA RunsAgree ==
  ASSUME NEW T, NEW b, NEW s, NEW n \in Nat, NEW m \in Nat, n <= m,
         NEW g \in Runs(T, b, s, n), NEW h \in Runs(T, b, s, m)
  PROVE  \A i \in 0..n : g[i] = h[i]
<1> DEFINE S == {i \in Nat : i <= n => g[i] = h[i]}
<1>1. 0 \in S
  BY DEF Runs
<1>2. ASSUME NEW i \in Nat, i \in S
      PROVE  i + 1 \in S
  <2> SUFFICES ASSUME i + 1 <= n
               PROVE  g[i + 1] = h[i + 1]
    OBVIOUS
  <2>1. i \in 0..(n - 1) /\ i \in 0..(m - 1) /\ g[i] = h[i]
    BY <1>2
  <2> QED
    BY <2>1 DEF Runs
<1> HIDE DEF S
<1>3. \A i \in Nat : i \in S
  BY <1>1, <1>2, Induction
<1> QED
  BY <1>3 DEF S

\* The function that starts at b and goes on by s.
Follows(f, T, b, s) == f \in [Nat -> T] /\ f[0] = b /\ \A n \in Nat : f[n + 1] = s[<<n, f[n]>>]

\* Recursion on numbers defines a function.
LEMMA Recursion ==
  ASSUME NEW T, NEW b \in T, NEW s \in [Nat \X T -> T]
  PROVE  \E f : Follows(f, T, b, s)
<1> DEFINE S == {n \in Nat : Runs(T, b, s, n) # {}}
<1>1. 0 \in S
  <2>1. [i \in 0..0 |-> b] \in Runs(T, b, s, 0)
    BY DEF Runs
  <2> QED
    BY <2>1
<1>2. ASSUME NEW n \in Nat, n \in S
      PROVE  n + 1 \in S
  <2>1. PICK g \in Runs(T, b, s, n) : TRUE
    BY <1>2
  <2> DEFINE h == [i \in 0..(n + 1) |-> IF i = n + 1 THEN s[<<n, g[n]>>] ELSE g[i]]
  <2>2. /\ g \in [0..n -> T] /\ g[0] = b
        /\ \A i \in 0..(n - 1) : g[i + 1] = s[<<i, g[i]>>]
    BY DEF Runs
  <2>3. s[<<n, g[n]>>] \in T
    BY <2>2
  <2>4. \A i \in 0..(n + 1) : i = n + 1 \/ i \in 0..n
    OBVIOUS
  <2>5. h \in [0..(n + 1) -> T]
    BY <2>2, <2>3, <2>4
  <2>6. h[0] = b
    BY <2>2
  <2>7. ASSUME NEW i \in 0..((n + 1) - 1)
        PROVE  h[i + 1] = s[<<i, h[i]>>]
    <3>1. CASE i = n
      <4>1. n \in 0..(n + 1) /\ n + 1 \in 0..(n + 1) /\ n # n + 1
        OBVIOUS
      <4>2. h[n + 1] = s[<<n, g[n]>>] /\ h[n] = g[n]
        BY <4>1
      <4> QED
        BY <3>1, <4>2
    <3>2. CASE i # n
      <4>1. i \in 0..(n - 1) /\ i + 1 \in 0..(n + 1) /\ i + 1 # n + 1 /\ i \in 0..(n + 1) /\ i # n + 1
        BY <3>2
      <4>2. h[i + 1] = g[i + 1] /\ h[i] = g[i]
        BY <4>1
      <4> QED
        BY <2>2, <4>1, <4>2
    <3> QED
      BY <3>1, <3>2
  <2> HIDE DEF h
  <2>8. h \in Runs(T, b, s, n + 1)
    BY <2>5, <2>6, <2>7 DEF Runs
  <2> QED
    BY <2>8
<1>3. \A n \in Nat : Runs(T, b, s, n) # {}
  <2> HIDE DEF S
  <2>1. \A n \in Nat : n \in S
    BY <1>1, <1>2, Induction
  <2> QED
    BY <2>1 DEF S
<1> DEFINE Run(n) == CHOOSE g \in Runs(T, b, s, n) : TRUE
           f == [n \in Nat |-> Run(n)[n]]
<1>4. \A n \in Nat : Run(n) \in Runs(T, b, s, n)
  BY <1>3
<1> HIDE DEF Run
<1>5. ASSUME NEW n \in Nat
      PROVE  Run(n)[n] \in T /\ Run(n)[0] = b
  BY <1>4 DEF Runs
<1>6. f[0] = b
  BY <1>5
<1>7. ASSUME NEW n \in Nat
      PROVE  f[n + 1] = s[<<n, f[n]>>]
  <2>1. Run(n + 1) \in Runs(T, b, s, n + 1) /\ Run(n) \in Runs(T, b, s, n)
    BY <1>4
  <2>2. Run(n)[n] = Run(n + 1)[n]
    BY <2>1, RunsAgree
  <2>3. Run(n + 1)[n + 1] = s[<<n, Run(n + 1)[n]>>]
    BY <2>1 DEF Runs
  <2> QED
    BY <2>2, <2>3
<1>8. f \in [Nat -> T]
  BY <1>5
<1> QED
  BY <1>6, <1>7, <1>8 DEF Follows

\* The results of a loop over q, before each element and at the end.
Results(g, T, b, s, q) ==
  /\ g \in [0..Len(q) -> T] /\ g[0] = b
  /\ \A n \in 1..Len(q) : g[n] = s[<<g[n - 1], q[n]>>]

LEMMA LoopHasResults ==
  ASSUME NEW T, NEW b \in T, NEW P, NEW s \in [T \X P -> T], NEW q \in Seq(P)
  PROVE  \E g : Results(g, T, b, s, q)
<1> DEFINE step == [x \in Nat \X T |-> IF x[1] + 1 \in 1..Len(q) THEN s[<<x[2], q[x[1] + 1]>>] ELSE x[2]]
<1>1. Len(q) \in Nat /\ \A n \in 1..Len(q) : q[n] \in P
  OBVIOUS
<1>2. step \in [Nat \X T -> T]
  <2> SUFFICES ASSUME NEW x \in Nat \X T
               PROVE  (IF x[1] + 1 \in 1..Len(q) THEN s[<<x[2], q[x[1] + 1]>>] ELSE x[2]) \in T
    OBVIOUS
  <2>1. x[2] \in T
    OBVIOUS
  <2>2. x[1] + 1 \in 1..Len(q) => <<x[2], q[x[1] + 1]>> \in T \X P
    BY <1>1, <2>1
  <2> QED
    BY <2>1, <2>2
<1>3. \A n \in Nat, t \in T : n + 1 \in 1..Len(q) => step[<<n, t>>] = s[<<t, q[n + 1]>>]
  OBVIOUS
<1> HIDE DEF step
<1>4. PICK f : Follows(f, T, b, step)
  BY <1>2, Recursion
<1>5. f \in [Nat -> T] /\ f[0] = b /\ \A n \in Nat : f[n + 1] = step[<<n, f[n]>>]
  BY <1>4 DEF Follows
<1> DEFINE g == [n \in 0..Len(q) |-> f[n]]
<1>6. g \in [0..Len(q) -> T] /\ g[0] = b
  BY <1>1, <1>5
<1>7. ASSUME NEW n \in 1..Len(q)
      PROVE  g[n] = s[<<g[n - 1], q[n]>>]
  <2>1. n - 1 \in Nat /\ (n - 1) + 1 = n /\ n \in 0..Len(q) /\ n - 1 \in 0..Len(q)
    BY <1>1
  <2>2. f[n] = step[<<n - 1, f[n - 1]>>] /\ f[n - 1] \in T
    BY <1>5, <2>1
  <2>3. step[<<n - 1, f[n - 1]>>] = s[<<f[n - 1], q[n]>>]
    BY <1>3, <2>1, <2>2
  <2> QED
    BY <2>1, <2>2, <2>3
<1> HIDE DEF g
<1>8. Results(g, T, b, s, q)
  BY <1>6, <1>7 DEF Results
<1> QED
  BY <1>8

\* Functions that start alike and go on alike are alike.
GoOnAlike(g, h, L) == g[0] = h[0] /\ \A n \in 1..L : g[n - 1] = h[n - 1] => g[n] = h[n]
AreAlike(g, h, L) == \A n \in 0..L : g[n] = h[n]

LEMMA Alike ==
  ASSUME NEW L \in Nat, NEW g, NEW h, GoOnAlike(g, h, L)
  PROVE  AreAlike(g, h, L)
<1> DEFINE S == {n \in Nat : n <= L => g[n] = h[n]}
<1>1. 0 \in S
  BY DEF GoOnAlike
<1>2. ASSUME NEW n \in Nat, n \in S
      PROVE  n + 1 \in S
  <2> SUFFICES ASSUME n + 1 <= L
               PROVE  g[n + 1] = h[n + 1]
    OBVIOUS
  <2>1. n + 1 \in 1..L /\ (n + 1) - 1 = n /\ g[n] = h[n]
    BY <1>2
  <2> QED
    BY <2>1 DEF GoOnAlike
<1> HIDE DEF S
<1>3. \A n \in Nat : n \in S
  BY <1>1, <1>2, Induction
<1> QED
  BY <1>3 DEF S, AreAlike

-----------------------------------------------------------------------------
(* Statistics: sums over buckets *)

\* The bounds of the statistics.
LEMMA StatConstants ==
  /\ IsFiniteSet(StatServers)
  /\ StatKinds \in Seq(STRING) /\ StatKinds # <<>>
  /\ \A i, j \in DOMAIN StatKinds : StatKinds[i] = StatKinds[j] => i = j
  /\ \A i \in DOMAIN StatKinds : StatKinds[i] # "Inbox" /\ StatKinds[i] \notin StatMembers
  /\ StatQueue \in Nat \ {0} /\ StatBatch \in Nat \ {0}
  /\ StatHours \in Nat \ {0} /\ StatDays \in Nat \ {0}
  /\ StatHour \in Nat \ {0} /\ \E m \in 1..StatDay : StatDay = m * StatHour
  /\ (StatHours - 1) * StatHour <= (StatDays - 1) * StatDay
  /\ StatClock \in Nat /\ StatLoads \in Nat
<1>1. \A S : Counting!IsFiniteSet(S) <=> IsFiniteSet(S)
  BY DEF Counting!IsFiniteSet, IsFiniteSet
<1>2. \A i \in DOMAIN StatKinds : StatKinds[i] \in Counting!ToSet(StatKinds)
  BY DEF Counting!ToSet
<1>3. Counting!StatsAssumption
  BY PartsAssumption DEF PartsAssumption
<1>4. \A i, j \in DOMAIN StatKinds : StatKinds[i] = StatKinds[j] => i = j
  BY <1>3 DEF Counting!StatsAssumption, Counting!IsInjective
<1> QED
  BY <1>1, <1>2, <1>3, <1>4 DEF Counting!StatsAssumption

LEMMA StatCardinality == \A S : Counting!Cardinality(S) = Cardinality(S)
BY DEF Counting!Cardinality, Cardinality

\* The number in a bucket, or none.
Val(rows, n) == IF n \in DOMAIN rows THEN rows[n] ELSE 0
Numbers(rows) == \A b \in DOMAIN rows : rows[b] \in Nat
\* The sums of the first buckets.
Partial(P, rows) ==
  /\ P \in [Nat -> Nat] /\ P[0] = 0
  /\ \A n \in Nat : P[n + 1] = P[n] + Val(rows, n)
SumsTo(P, rows) == Partial(P, rows) /\ Counting!Sum(rows) = P[StatClock + 1]

LEMMA SumIsPartial ==
  ASSUME NEW rows, Numbers(rows)
  PROVE  \E P : SumsTo(P, rows)
<1> DEFINE s == [x \in Nat \X Nat |-> x[2] + Val(rows, x[1])]
           L == StatClock + 1
           R(g) == g = [n \in 0..L |->
                          IF n = 0 THEN 0
                          ELSE g[n - 1] + (IF n - 1 \in DOMAIN rows THEN rows[n - 1] ELSE 0)]
           c == CHOOSE g : R(g)
<1>1. \A n \in Nat : Val(rows, n) \in Nat
  BY DEF Val, Numbers
<1>2. s \in [Nat \X Nat -> Nat] /\ \A n, x \in Nat : s[<<n, x>>] = x + Val(rows, n)
  BY <1>1
<1> HIDE DEF s
<1>3. PICK f : Follows(f, Nat, 0, s)
  BY <1>2, Recursion
<1>4. Partial(f, rows)
  BY <1>2, <1>3 DEF Follows, Partial
<1>5. /\ L \in Nat /\ L \in 0..L /\ 0 \in 0..L
      /\ \A n \in 1..L : n - 1 \in 0..L /\ n - 1 \in Nat /\ (n - 1) + 1 = n /\ n # 0 /\ n \in 0..L
      /\ \A n \in 0..L : n = 0 \/ n \in 1..L
  BY StatConstants
<1> DEFINE h == [n \in 0..L |-> f[n]]
<1>6. R(h)
  <2>1. \A n \in 1..L : f[n] = f[n - 1] + (IF n - 1 \in DOMAIN rows THEN rows[n - 1] ELSE 0)
    BY <1>4, <1>5 DEF Partial, Val
  <2>2. \A n \in 0..L : h[n] = IF n = 0 THEN 0
                               ELSE h[n - 1] + (IF n - 1 \in DOMAIN rows THEN rows[n - 1] ELSE 0)
    BY <1>4, <1>5, <2>1 DEF Partial
  <2> QED
    BY <2>2
<1>7. R(c)
  <2> HIDE DEF R, h
  <2> QED
    BY <1>6, Zenon
<1>8. c[L] = f[L]
  <2> HIDE DEF c
  <2>1. \A n \in 0..L : c[n] = IF n = 0 THEN 0
                               ELSE c[n - 1] + (IF n - 1 \in DOMAIN rows THEN rows[n - 1] ELSE 0)
    BY <1>7
  <2>2. \A n \in 1..L : f[n] = f[n - 1] + (IF n - 1 \in DOMAIN rows THEN rows[n - 1] ELSE 0)
    BY <1>4, <1>5 DEF Partial, Val
  <2>3. c[0] = f[0] /\ \A n \in 1..L : c[n - 1] = f[n - 1] => c[n] = f[n]
    BY <1>4, <1>5, <2>1, <2>2 DEF Partial
  <2>4. GoOnAlike(c, f, L)
    BY <2>3 DEF GoOnAlike
  <2>5. AreAlike(c, f, L)
    BY <1>5, <2>4, Alike
  <2> QED
    BY <1>5, <2>5 DEF AreAlike
<1>9. Counting!Sum(rows) = c[L]
  BY DEF Counting!Sum
<1> QED
  BY <1>4, <1>8, <1>9 DEF SumsTo

LEMMA SumNat ==
  ASSUME NEW rows, Numbers(rows)
  PROVE  Counting!Sum(rows) \in Nat
<1>1. PICK P : SumsTo(P, rows)
  BY SumIsPartial
<1>2. StatClock + 1 \in Nat
  BY StatConstants
<1> QED
  BY <1>1, <1>2 DEF SumsTo, Partial

\* What is at least as much in each bucket is at least as much in all.
LEMMA SumMonotone ==
  ASSUME NEW rows, Numbers(rows), NEW more, Numbers(more),
         \A n \in 0..StatClock : Val(rows, n) <= Val(more, n)
  PROVE  Counting!Sum(rows) <= Counting!Sum(more)
<1>1. PICK P : SumsTo(P, rows)
  BY SumIsPartial
<1>2. PICK Q : SumsTo(Q, more)
  BY SumIsPartial
<1> DEFINE S == {n \in Nat : n <= StatClock + 1 => P[n] <= Q[n]}
<1>3. 0 \in S
  BY <1>1, <1>2 DEF SumsTo, Partial
<1>4. ASSUME NEW n \in Nat, n \in S
      PROVE  n + 1 \in S
  <2> SUFFICES ASSUME n + 1 <= StatClock + 1
               PROVE  P[n + 1] <= Q[n + 1]
    OBVIOUS
  <2>1. n \in 0..StatClock /\ P[n] <= Q[n]
    BY <1>4, StatConstants
  <2>2. Val(rows, n) <= Val(more, n) /\ Val(rows, n) \in Nat /\ Val(more, n) \in Nat
    BY <2>1 DEF Val, Numbers
  <2> QED
    BY <1>1, <1>2, <2>1, <2>2 DEF SumsTo, Partial
<1> HIDE DEF S
<1>5. \A n \in Nat : n \in S
  BY <1>3, <1>4, Induction
<1>6. StatClock + 1 \in S /\ StatClock + 1 \in Nat
  BY <1>5, StatConstants
<1> QED
  BY <1>1, <1>2, <1>6 DEF S, SumsTo

\* Sums of sums of buckets.
LEMMA SumPlus ==
  ASSUME NEW rows, Numbers(rows), NEW more, Numbers(more), NEW all, Numbers(all),
         \A n \in 0..StatClock : Val(all, n) = Val(rows, n) + Val(more, n)
  PROVE  Counting!Sum(all) = Counting!Sum(rows) + Counting!Sum(more)
<1>1. PICK P : SumsTo(P, rows)
  BY SumIsPartial
<1>2. PICK Q : SumsTo(Q, more)
  BY SumIsPartial
<1>3. PICK A : SumsTo(A, all)
  BY SumIsPartial
<1> DEFINE S == {n \in Nat : n <= StatClock + 1 => A[n] = P[n] + Q[n]}
<1>4. 0 \in S
  BY <1>1, <1>2, <1>3 DEF SumsTo, Partial
<1>5. ASSUME NEW n \in Nat, n \in S
      PROVE  n + 1 \in S
  <2> SUFFICES ASSUME n + 1 <= StatClock + 1
               PROVE  A[n + 1] = P[n + 1] + Q[n + 1]
    OBVIOUS
  <2>1. n \in 0..StatClock /\ A[n] = P[n] + Q[n]
    BY <1>5, StatConstants
  <2>2. /\ Val(all, n) = Val(rows, n) + Val(more, n)
        /\ Val(rows, n) \in Nat /\ Val(more, n) \in Nat
    BY <2>1 DEF Val, Numbers
  <2> QED
    BY <1>1, <1>2, <1>3, <2>1, <2>2 DEF SumsTo, Partial
<1> HIDE DEF S
<1>6. \A n \in Nat : n \in S
  BY <1>4, <1>5, Induction
<1>7. StatClock + 1 \in S /\ StatClock + 1 \in Nat
  BY <1>6, StatConstants
<1> QED
  BY <1>1, <1>2, <1>3, <1>7 DEF S, SumsTo

\* One bucket that is not empty.
LEMMA SumOne ==
  ASSUME NEW rows, Numbers(rows), NEW h \in 0..StatClock, NEW x \in Nat,
         \A n \in 0..StatClock : Val(rows, n) = IF n = h THEN x ELSE 0
  PROVE  Counting!Sum(rows) = x
<1>1. PICK P : SumsTo(P, rows)
  BY SumIsPartial
<1> DEFINE S == {n \in Nat : n <= StatClock + 1 => P[n] = IF n > h THEN x ELSE 0}
<1>2. 0 \in S
  BY <1>1 DEF SumsTo, Partial
<1>3. ASSUME NEW n \in Nat, n \in S
      PROVE  n + 1 \in S
  <2> SUFFICES ASSUME n + 1 <= StatClock + 1
               PROVE  P[n + 1] = IF n + 1 > h THEN x ELSE 0
    OBVIOUS
  <2>1. n \in 0..StatClock /\ P[n] = IF n > h THEN x ELSE 0
    BY <1>3, StatConstants
  <2>2. P[n + 1] = P[n] + Val(rows, n)
    BY <1>1 DEF SumsTo, Partial
  <2> QED
    BY <2>1, <2>2
<1> HIDE DEF S
<1>4. \A n \in Nat : n \in S
  BY <1>2, <1>3, Induction
<1>5. StatClock + 1 \in S /\ StatClock + 1 \in Nat /\ StatClock + 1 > h
  BY <1>4, StatConstants
<1> QED
  BY <1>1, <1>5 DEF S, SumsTo
-----------------------------------------------------------------------------
(* Statistics: events in sequences *)

\* Sets that correspond have as many elements.
LEMMA SameSize ==
  ASSUME NEW S, IsFiniteSet(S), NEW T, NEW f \in [S -> T],
         \A t \in T : \E s \in S : f[s] = t, \A a, b \in S : f[a] = f[b] => a = b
  PROVE  IsFiniteSet(T) /\ Cardinality(T) = Cardinality(S)
<1>1. f \in Surjection(S, T) /\ f \in Injection(S, T)
  BY DEF Surjection, Injection, IsInjective
<1> QED
  BY <1>1, FS_Surjection

\* Sets without a common element add up.
LEMMA Apart ==
  ASSUME NEW S, IsFiniteSet(S), NEW T, IsFiniteSet(T), S \cap T = {}
  PROVE  IsFiniteSet(S \cup T) /\ Cardinality(S \cup T) = Cardinality(S) + Cardinality(T)
<1>1. Cardinality(S \cap T) = 0
  BY FS_EmptySet
<1>2. Cardinality(S) \in Nat /\ Cardinality(T) \in Nat
  BY FS_CardinalityType
<1>3. /\ IsFiniteSet(S \cup T)
      /\ Cardinality(S \cup T) = Cardinality(S) + Cardinality(T) - Cardinality(S \cap T)
  BY FS_Union
<1> QED
  BY <1>1, <1>2, <1>3

Places(seq, e) == {n \in DOMAIN seq : seq[n] = e}

LEMMA PlacesFinite ==
  ASSUME NEW V, NEW seq \in Seq(V), NEW e
  PROVE  /\ IsFiniteSet(Places(seq, e)) /\ Cardinality(Places(seq, e)) \in Nat
         /\ Counting!Of(seq, e) = Cardinality(Places(seq, e))
<1>1. DOMAIN seq = 1..Len(seq) /\ Len(seq) \in Nat
  OBVIOUS
<1>2. IsFiniteSet(1..Len(seq))
  BY <1>1, FS_Interval
<1>3. Places(seq, e) \in SUBSET (1..Len(seq))
  BY <1>1 DEF Places
<1>4. IsFiniteSet(Places(seq, e))
  BY <1>2, <1>3, FS_Subset
<1> QED
  BY <1>4, FS_CardinalityType, StatCardinality DEF Counting!Of, Places

LEMMA OfNone ==
  ASSUME NEW V, NEW seq \in Seq(V), NEW e
  PROVE  /\ Counting!Of(seq, e) \in Nat
         /\ Counting!Of(seq, e) = 0 <=> \A n \in DOMAIN seq : seq[n] # e
<1>1. Counting!Of(seq, e) \in Nat
  BY PlacesFinite
<1>2. Counting!Of(seq, e) = 0 <=> Places(seq, e) = {}
  BY PlacesFinite, FS_EmptySet
<1> QED
  BY <1>1, <1>2 DEF Places

\* One sequence behind another.
LEMMA OfBoth ==
  ASSUME NEW V, NEW b \in Seq(V), NEW q \in Seq(V), NEW e
  PROVE  Counting!Of(b \o q, e) = Counting!Of(b, e) + Counting!Of(q, e)
<1> DEFINE r == b \o q  L == Len(b)
           T == {n \in DOMAIN r : r[n] = e /\ n > L}
           f == [n \in Places(q, e) |-> n + L]
<1>1. /\ L \in Nat /\ Len(q) \in Nat /\ r \in Seq(V)
      /\ DOMAIN b = 1..L /\ DOMAIN q = 1..Len(q) /\ DOMAIN r = 1..(L + Len(q))
      /\ \A n \in 1..L : r[n] = b[n]
      /\ \A n \in 1..Len(q) : r[n + L] = q[n]
  OBVIOUS
<1> HIDE DEF r, L
<1>2. \A n \in 1..(L + Len(q)) : n > L => n - L \in 1..Len(q) /\ (n - L) + L = n
  BY <1>1
<1>3. \A n \in 1..Len(q) : n + L \in 1..(L + Len(q)) /\ n + L > L
  BY <1>1
<1>4. f \in [Places(q, e) -> T]
  BY <1>1, <1>3 DEF Places
<1>5. \A t \in T : \E n \in Places(q, e) : f[n] = t
  <2> SUFFICES ASSUME NEW t \in T
               PROVE  \E n \in Places(q, e) : f[n] = t
    OBVIOUS
  <2>1. t - L \in Places(q, e) /\ (t - L) + L = t
    BY <1>1, <1>2 DEF Places
  <2> QED
    BY <2>1
<1>6. \A n, m \in Places(q, e) : f[n] = f[m] => n = m
  BY <1>1 DEF Places
<1> HIDE DEF T, f
<1>7. IsFiniteSet(T) /\ Cardinality(T) = Cardinality(Places(q, e))
  BY <1>4, <1>5, <1>6, PlacesFinite, SameSize
<1>8. Places(r, e) = Places(b, e) \cup T /\ Places(b, e) \cap T = {}
  <2>1. \A n \in 1..(L + Len(q)) : n > L \/ n \in 1..L
    BY <1>1
  <2>2. \A n \in 1..L : n \in 1..(L + Len(q)) /\ ~ (n > L)
    BY <1>1
  <2> QED
    BY <1>1, <2>1, <2>2 DEF Places, T
<1>9. Cardinality(Places(r, e)) = Cardinality(Places(b, e)) + Cardinality(T)
  BY <1>7, <1>8, PlacesFinite, Apart
<1> QED
  BY <1>1, <1>7, <1>9, PlacesFinite DEF r

\* A sequence of one.
LEMMA OfOne ==
  ASSUME NEW V, NEW x \in V, NEW e
  PROVE  Counting!Of(<<x>>, e) = IF x = e THEN 1 ELSE 0
<1>1. Places(<<x>>, e) = IF x = e THEN {1} ELSE {}
  BY DEF Places
<1>2. <<x>> \in Seq(V)
  OBVIOUS
<1>3. Cardinality({1}) = 1 /\ Cardinality({}) = 0
  BY FS_EmptySet, FS_Singleton
<1>4. Counting!Of(<<x>>, e) = Cardinality(Places(<<x>>, e))
  BY <1>2, PlacesFinite
<1> QED
  BY <1>1, <1>3, <1>4

\* What is picked of a sequence, and from where.
PickedAt(p, seq, S, at, L) ==
  /\ at \in [1..Len(p) -> 1..L]
  /\ \A i \in 1..Len(p) : p[i] = seq[at[i]] /\ seq[at[i]] \in S
  /\ \A i, j \in 1..Len(p) : i < j => at[i] < at[j]
  /\ \A n \in 1..L : seq[n] \in S => \E i \in 1..Len(p) : at[i] = n

LEMMA PickedMore ==
  ASSUME NEW V, NEW p \in Seq(V), NEW seq, NEW S, NEW L \in Nat, NEW at, PickedAt(p, seq, S, at, L),
         seq[L + 1] \in V, NEW q, q = IF seq[L + 1] \in S THEN Append(p, seq[L + 1]) ELSE p
  PROVE  \E to : PickedAt(q, seq, S, to, L + 1)
<1>1. /\ at \in [1..Len(p) -> 1..L] /\ Len(p) \in Nat
      /\ \A i \in 1..Len(p) : p[i] = seq[at[i]] /\ seq[at[i]] \in S
      /\ \A i, j \in 1..Len(p) : i < j => at[i] < at[j]
      /\ \A n \in 1..L : seq[n] \in S => \E i \in 1..Len(p) : at[i] = n
  BY DEF PickedAt
<1>2. \A n \in 1..(L + 1) : n = L + 1 \/ n \in 1..L
  OBVIOUS
<1>3. CASE seq[L + 1] \in S
  <2> DEFINE k == Len(p) + 1
             to == [i \in 1..k |-> IF i = k THEN L + 1 ELSE at[i]]
  <2>1. /\ Len(q) = k /\ q[k] = seq[L + 1] /\ \A i \in 1..Len(p) : q[i] = p[i]
    BY <1>3
  <2>2. /\ k \in 1..k /\ \A i \in 1..k : i = k \/ i \in 1..Len(p)
        /\ \A i \in 1..Len(p) : i \in 1..k /\ i # k
    BY <1>1
  <2>3. to[k] = L + 1 /\ \A i \in 1..Len(p) : to[i] = at[i]
    BY <2>2
  <2>4. to \in [1..k -> 1..(L + 1)]
    <3>1. \A i \in 1..Len(p) : at[i] \in 1..(L + 1)
      BY <1>1
    <3>2. L + 1 \in 1..(L + 1)
      OBVIOUS
    <3> QED
      BY <2>2, <3>1, <3>2
  <2> HIDE DEF k, to
  <2>5. \A i \in 1..k : q[i] = seq[to[i]] /\ seq[to[i]] \in S
    BY <1>1, <1>3, <2>1, <2>2, <2>3
  <2>6. \A i, j \in 1..k : i < j => to[i] < to[j]
    <3> SUFFICES ASSUME NEW i \in 1..k, NEW j \in 1..k, i < j
                 PROVE  to[i] < to[j]
      OBVIOUS
    <3>1. i \in 1..Len(p)
      BY <1>1 DEF k
    <3>2. CASE j = k
      BY <1>1, <2>3, <3>1, <3>2
    <3>3. CASE j # k
      BY <1>1, <2>2, <2>3, <3>1, <3>3
    <3> QED
      BY <3>2, <3>3
  <2>7. \A n \in 1..(L + 1) : seq[n] \in S => \E i \in 1..k : to[i] = n
    <3> SUFFICES ASSUME NEW n \in 1..(L + 1), seq[n] \in S
                 PROVE  \E i \in 1..k : to[i] = n
      OBVIOUS
    <3>1. CASE n = L + 1
      BY <2>2, <2>3, <3>1
    <3>2. CASE n \in 1..L
      BY <1>1, <2>2, <2>3, <3>2
    <3> QED
      BY <1>2, <3>1, <3>2
  <2>8. PickedAt(q, seq, S, to, L + 1)
    BY <2>1, <2>4, <2>5, <2>6, <2>7 DEF PickedAt
  <2> QED
    BY <2>8
<1>4. CASE seq[L + 1] \notin S
  <2>1. at \in [1..Len(p) -> 1..(L + 1)]
    BY <1>1
  <2>2. \A n \in 1..(L + 1) : seq[n] \in S => \E i \in 1..Len(p) : at[i] = n
    BY <1>1, <1>2, <1>4
  <2>3. PickedAt(q, seq, S, at, L + 1)
    BY <1>1, <1>4, <2>1, <2>2 DEF PickedAt
  <2> QED
    BY <2>3
<1> QED
  BY <1>3, <1>4

LEMMA PickedInOrder ==
  ASSUME NEW V, NEW seq \in Seq(V), NEW S
  PROVE  /\ Counting!Picked(seq, S) \in Seq(V)
         /\ \E at : PickedAt(Counting!Picked(seq, S), seq, S, at, Len(seq))
<1> DEFINE Pick(p, x) == IF x \in S THEN Append(p, x) ELSE p
           s == [x \in Seq(V) \X V |-> Pick(x[1], x[2])]
           L == Len(seq)
           R(g) == g = [n \in 0..L |->
                          IF n = 0 THEN <<>>
                          ELSE IF seq[n] \in S THEN Append(g[n - 1], seq[n]) ELSE g[n - 1]]
           c == CHOOSE g : R(g)
<1>1. s \in [Seq(V) \X V -> Seq(V)] /\ \A p \in Seq(V), x \in V : s[<<p, x>>] = Pick(p, x)
  OBVIOUS
<1>2. /\ <<>> \in Seq(V) /\ L \in Nat /\ 0 \in 0..L /\ L \in 0..L
      /\ \A n \in 1..L : seq[n] \in V /\ n - 1 \in 0..L /\ n \in 0..L /\ n # 0
      /\ \A n \in 0..L : n = 0 \/ n \in 1..L
  OBVIOUS
<1> HIDE DEF s
<1>3. PICK h : Results(h, Seq(V), <<>>, s, seq)
  BY <1>1, <1>2, LoopHasResults
<1>4. /\ h \in [0..L -> Seq(V)] /\ h[0] = <<>>
      /\ \A n \in 1..L : h[n] = Pick(h[n - 1], seq[n])
  <2>1. \A n \in 1..L : h[n] = s[<<h[n - 1], seq[n]>>] /\ h[n - 1] \in Seq(V)
    BY <1>2, <1>3 DEF Results
  <2> HIDE DEF Pick
  <2>2. \A n \in 1..L : h[n] = Pick(h[n - 1], seq[n])
    BY <1>1, <1>2, <2>1
  <2> QED
    BY <1>3, <2>2 DEF Results
<1>5. R(h)
  <2>1. \A n \in 0..L : h[n] = IF n = 0 THEN <<>> ELSE
                               IF seq[n] \in S THEN Append(h[n - 1], seq[n]) ELSE h[n - 1]
    BY <1>2, <1>4
  <2> QED
    BY <1>4, <2>1
<1>6. R(c)
  <2> HIDE DEF R
  <2> QED
    BY <1>5, Zenon
<1>7. c[L] = h[L]
  <2> HIDE DEF c
  <2>1. \A n \in 0..L : c[n] = IF n = 0 THEN <<>> ELSE
                               IF seq[n] \in S THEN Append(c[n - 1], seq[n]) ELSE c[n - 1]
    BY <1>6
  <2>2. \A n \in 1..L : c[n] = Pick(c[n - 1], seq[n])
    BY <1>2, <2>1
  <2>3. c[0] = h[0]
    BY <1>2, <1>4, <2>1
  <2> HIDE DEF Pick
  <2>4. \A n \in 1..L : c[n - 1] = h[n - 1] => c[n] = h[n]
    BY <1>4, <2>2
  <2>5. GoOnAlike(c, h, L)
    BY <2>3, <2>4 DEF GoOnAlike
  <2>6. AreAlike(c, h, L)
    BY <1>2, <2>5, Alike
  <2> QED
    BY <1>2, <2>6 DEF AreAlike
<1>8. Counting!Picked(seq, S) = c[L]
  BY DEF Counting!Picked
<1> HIDE DEF c, R
<1> DEFINE I == {n \in Nat : n <= L => \E at : PickedAt(h[n], seq, S, at, n)}
<1>9. 0 \in I
  <2>1. PickedAt(h[0], seq, S, [i \in 1..0 |-> 0], 0)
    BY <1>4 DEF PickedAt
  <2> QED
    BY <2>1
<1>10. ASSUME NEW n \in Nat, n \in I
       PROVE  n + 1 \in I
  <2> SUFFICES ASSUME n + 1 <= L
               PROVE  \E at : PickedAt(h[n + 1], seq, S, at, n + 1)
    OBVIOUS
  <2>1. n \in 0..L /\ n + 1 \in 1..L /\ (n + 1) - 1 = n
    BY <1>2
  <2>2. PICK at : PickedAt(h[n], seq, S, at, n)
    BY <1>2, <1>10
  <2>3. h[n] \in Seq(V) /\ seq[n + 1] \in V /\ h[n + 1] = Pick(h[n], seq[n + 1])
    BY <1>2, <1>4, <2>1
  <2> QED
    BY <2>2, <2>3, PickedMore
<1> HIDE DEF I
<1>11. \A n \in Nat : n \in I
  BY <1>9, <1>10, Induction
<1>12. \E at : PickedAt(h[L], seq, S, at, L)
  BY <1>2, <1>11 DEF I
<1> QED
  BY <1>2, <1>4, <1>7, <1>8, <1>12

-----------------------------------------------------------------------------
(* Statistics: what waits *)

Room == StatBatch + StatQueue
\* Where an event waits, if p says what each server has to record.
Wait(p, e) == {w \in StatServers \X (1..Room) : w[2] \in DOMAIN p[w[1]] /\ p[w[1]][w[2]] = e}
WaitAt(p, e, s) == {w \in Wait(p, e) : w[1] = s}

LEMMA WaitsFinite ==
  ASSUME NEW p, NEW e
  PROVE  IsFiniteSet(Wait(p, e)) /\ Cardinality(Wait(p, e)) \in Nat
<1>1. Room \in Nat
  BY StatConstants DEF Room
<1>2. IsFiniteSet(StatServers) /\ IsFiniteSet(1..Room)
  BY <1>1, StatConstants, FS_Interval
<1>3. IsFiniteSet(StatServers \X (1..Room))
  BY <1>2, FS_Product
<1>4. Wait(p, e) \in SUBSET (StatServers \X (1..Room))
  BY DEF Wait
<1> QED
  BY <1>3, <1>4, FS_Subset, FS_CardinalityType

LEMMA WaitsAt ==
  ASSUME NEW V, NEW p, NEW e, NEW s \in StatServers, p[s] \in Seq(V), Len(p[s]) <= Room
  PROVE  /\ IsFiniteSet(WaitAt(p, e, s))
         /\ Cardinality(WaitAt(p, e, s)) = Counting!Of(p[s], e)
<1> DEFINE f == [n \in Places(p[s], e) |-> <<s, n>>]
           T == WaitAt(p, e, s)
<1>1. DOMAIN p[s] = 1..Len(p[s]) /\ Len(p[s]) \in Nat /\ Room \in Nat
  BY StatConstants DEF Room
<1>2. \A n \in 1..Len(p[s]) : n \in 1..Room
  BY <1>1
<1>3. f \in [Places(p[s], e) -> T]
  <2>1. \A n \in Places(p[s], e) : <<s, n>> \in T
    BY <1>1, <1>2 DEF Places, WaitAt, Wait
  <2> QED
    BY <2>1
<1>4. \A t \in T : \E n \in Places(p[s], e) : f[n] = t
  <2> SUFFICES ASSUME NEW t \in T
               PROVE  \E n \in Places(p[s], e) : f[n] = t
    OBVIOUS
  <2>1. t = <<s, t[2]>> /\ t[2] \in Places(p[s], e)
    BY DEF WaitAt, Wait, Places
  <2> QED
    BY <2>1
<1>5. \A n, m \in Places(p[s], e) : f[n] = f[m] => n = m
  OBVIOUS
<1> HIDE DEF f, T
<1>6. IsFiniteSet(T) /\ Cardinality(T) = Cardinality(Places(p[s], e))
  BY <1>3, <1>4, <1>5, PlacesFinite, SameSize
<1> QED
  BY <1>6, PlacesFinite DEF T

\* A change at one server.
LEMMA WaitingMoves ==
  ASSUME NEW V, NEW p \in [StatServers -> Seq(V)], NEW q \in [StatServers -> Seq(V)],
         NEW e, NEW s \in StatServers, Len(p[s]) <= Room, Len(q[s]) <= Room,
         \A o \in StatServers : o # s => p[o] = q[o]
  PROVE  Cardinality(Wait(p, e)) + Counting!Of(q[s], e)
           = Cardinality(Wait(q, e)) + Counting!Of(p[s], e)
<1> DEFINE Rest(x) == {w \in Wait(x, e) : w[1] # s}
<1>1. Rest(p) = Rest(q)
  BY DEF Wait
<1>2. \A x : /\ Wait(x, e) = WaitAt(x, e, s) \cup Rest(x) /\ WaitAt(x, e, s) \cap Rest(x) = {}
             /\ Rest(x) \in SUBSET Wait(x, e)
  BY DEF WaitAt
<1> HIDE DEF Rest
<1>3. IsFiniteSet(Rest(p)) /\ IsFiniteSet(Rest(q)) /\ Cardinality(Rest(p)) \in Nat
  BY <1>2, WaitsFinite, FS_Subset, FS_CardinalityType
<1>4. /\ IsFiniteSet(WaitAt(p, e, s)) /\ Cardinality(WaitAt(p, e, s)) = Counting!Of(p[s], e)
      /\ IsFiniteSet(WaitAt(q, e, s)) /\ Cardinality(WaitAt(q, e, s)) = Counting!Of(q[s], e)
  BY WaitsAt
<1>5. Cardinality(Wait(p, e)) = Counting!Of(p[s], e) + Cardinality(Rest(p))
  BY <1>2, <1>3, <1>4, Apart
<1>6. Cardinality(Wait(q, e)) = Counting!Of(q[s], e) + Cardinality(Rest(q))
  BY <1>2, <1>3, <1>4, Apart
<1>7. Counting!Of(p[s], e) \in Nat /\ Counting!Of(q[s], e) \in Nat
  BY OfNone
<1> QED
  BY <1>1, <1>3, <1>5, <1>6, <1>7

\* What each server has to record.
Pend == [s \in StatServers |-> batch[s] \o channel[s]]
LEMMA WaitingIs == \A e : Counting!Waiting(e) = Cardinality(Wait(Pend, e))
<1> SUFFICES ASSUME NEW e
             PROVE  Counting!Waiting(e) = Cardinality(Wait(Pend, e))
  OBVIOUS
<1> DEFINE S == {w \in StatServers \X (1 .. StatBatch + StatQueue) :
                 w[2] \in DOMAIN Counting!Pending(w[1]) /\ Counting!Pending(w[1])[w[2]] = e}
<1>1. S = Wait(Pend, e)
  <2>1. \A w \in StatServers \X (1..Room) : Pend[w[1]] = Counting!Pending(w[1])
    BY DEF Pend, Counting!Pending
  <2>2. \A w : w \in S <=> w \in StatServers \X (1..Room) /\ w[2] \in DOMAIN Counting!Pending(w[1])
                            /\ Counting!Pending(w[1])[w[2]] = e
    BY DEF Room
  <2>3. \A w : w \in Wait(Pend, e) <=> w \in StatServers \X (1..Room) /\ w[2] \in DOMAIN Pend[w[1]]
                            /\ Pend[w[1]][w[2]] = e
    BY DEF Wait
  <2> HIDE DEF S
  <2>4. \A w : w \in S <=> w \in Wait(Pend, e)
    BY <2>1, <2>2, <2>3
  <2> QED
    BY <2>4
<1>2. Counting!Waiting(e) = Counting!Cardinality(S)
  BY DEF Counting!Waiting
<1> QED
  BY <1>1, <1>2, StatCardinality

-----------------------------------------------------------------------------
(* Statistics: hours and days *)

LEMMA StatDayIs ==
  /\ StatClock \in Nat /\ StatHour \in Nat \ {0} /\ StatDay \in Nat \ {0}
  /\ \E m \in Nat \ {0} : StatDay = m * StatHour
<1>1. PICK m \in 1..StatDay : StatDay = m * StatHour
  BY StatConstants
<1>2. StatDay \in Int
  BY <1>1
<1> QED
  BY <1>1, StatConstants

LEMMA Division ==
  \A a \in Nat, b \in Nat \ {0} :
    /\ a \div b \in Nat /\ (a \div b) * b \in Nat
    /\ (a \div b) * b <= a /\ a < (a \div b) * b + b /\ a \div b <= a
<1> SUFFICES ASSUME NEW a \in Nat, NEW b \in Nat \ {0}
             PROVE  /\ a \div b \in Nat /\ (a \div b) * b \in Nat
                    /\ (a \div b) * b <= a /\ a < (a \div b) * b + b /\ a \div b <= a
  OBVIOUS
<1>1. a \div b \in Nat /\ (a \div b) * b <= a /\ a < (a \div b) * b + b
  OBVIOUS
<1> DEFINE q == a \div b
<1> HIDE DEF q
<1>2. \A x, y \in Nat : y # 0 => x * y >= x /\ x * y \in Nat
  OBVIOUS
<1>3. q \in Nat => q * b >= q /\ q * b \in Nat
  BY <1>2
<1> QED
  BY <1>1, <1>3 DEF q

LEMMA Multiples ==
  \A x, y, b \in Nat : /\ x < y => x * b + b <= y * b
                       /\ x <= y => x * b <= y * b
                       /\ x * b < y * b => x < y
<1> SUFFICES ASSUME NEW x \in Nat, NEW y \in Nat, NEW b \in Nat
             PROVE  /\ x < y => x * b + b <= y * b
                    /\ x <= y => x * b <= y * b
                    /\ x * b < y * b => x < y
  OBVIOUS
<1>1. \A u, v \in Nat : u < v => \E d \in Nat : v = u + 1 + d
  <2> SUFFICES ASSUME NEW u \in Nat, NEW v \in Nat, u < v
               PROVE  \E d \in Nat : v = u + 1 + d
    OBVIOUS
  <2>1. v - u - 1 \in Nat /\ v = u + 1 + (v - u - 1)
    OBVIOUS
  <2> QED
    BY <2>1
<1>2. \A u, d \in Nat : (u + 1 + d) * b = u * b + b + d * b /\ d * b \in Nat /\ u * b \in Nat
  OBVIOUS
<1>3. \A u, v \in Nat : u < v => u * b + b <= v * b
  <2> SUFFICES ASSUME NEW u \in Nat, NEW v \in Nat, u < v
               PROVE  u * b + b <= v * b
    OBVIOUS
  <2>1. PICK d \in Nat : v = u + 1 + d
    BY <1>1
  <2> QED
    BY <1>2, <2>1
<1>4. x * b \in Nat /\ y * b \in Nat
  BY <1>2
<1> DEFINE xb == x * b  yb == y * b
<1>5. (x < y => xb + b <= yb) /\ (y < x => yb + b <= xb) /\ (x = y => xb = yb)
  BY <1>3
<1> HIDE DEF xb, yb
<1>6. (x < y => xb + b <= yb) /\ (x <= y => xb <= yb) /\ (xb < yb => x < y)
  BY <1>4, <1>5 DEF xb, yb
<1> QED
  BY <1>6 DEF xb, yb

LEMMA Quotient ==
  ASSUME NEW a \in Nat, NEW b \in Nat \ {0}, NEW q \in Nat, q * b <= a, a < q * b + b
  PROVE  a \div b = q
<1> DEFINE r == a \div b
<1>1. r \in Nat /\ r * b <= a /\ a < r * b + b /\ r * b \in Nat /\ q * b \in Nat
  <2>1. r \in Nat /\ r * b <= a /\ a < r * b + b /\ r * b \in Nat
    BY Division
  <2>2. \A x, y \in Nat : x * y \in Nat
    OBVIOUS
  <2> QED
    BY <2>1, <2>2
<1> HIDE DEF r
<1>2. (q < r => q * b + b <= r * b) /\ (r < q => r * b + b <= q * b)
  BY <1>1, Multiples
<1> DEFINE qb == q * b  rb == r * b
<1>3. qb <= a /\ a < qb + b /\ rb <= a /\ a < rb + b /\ qb \in Nat /\ rb \in Nat
      /\ (q < r => qb + b <= rb) /\ (r < q => rb + b <= qb)
  BY <1>1, <1>2
<1> HIDE DEF qb, rb
<1>4. r = q
  BY <1>1, <1>3
<1> QED
  BY <1>4 DEF r

\* Quotients grow.
LEMMA Quotients ==
  ASSUME NEW a \in Nat, NEW c \in Nat, a <= c, NEW b \in Nat \ {0}
  PROVE  a \div b <= c \div b
<1> DEFINE q == a \div b  r == c \div b
<1>1. q \in Nat /\ r \in Nat /\ q * b <= a /\ c < r * b + b /\ q * b \in Nat /\ r * b \in Nat
  BY Division
<1> HIDE DEF q, r
<1>2. r < q => r * b + b <= q * b
  BY <1>1, Multiples
<1>3. q <= r
  <2> DEFINE qb == q * b  rb == r * b
  <2>1. qb <= a /\ c < rb + b /\ qb \in Nat /\ rb \in Nat /\ (r < q => rb + b <= qb)
    BY <1>1, <1>2
  <2> HIDE DEF qb, rb
  <2> QED
    BY <1>1, <2>1
<1> QED
  BY <1>3 DEF q, r

\* The day of an hour.
DayOf(h) == (h * StatHour) \div StatDay

\* The hours and days of a moment are within those of the clock.
LEMMA BucketsFit ==
  /\ Counting!Bucket("Hour", StatClock) \in 0..StatClock
  /\ Counting!Bucket("Day", StatClock) \in 0..StatClock
  /\ \A t \in 0..StatClock :
       /\ Counting!Bucket("Hour", t) \in 0..Counting!Bucket("Hour", StatClock)
       /\ Counting!Bucket("Day", t) \in 0..Counting!Bucket("Day", StatClock)
<1>1. Counting!Bucket("Hour", StatClock) = StatClock \div StatHour
      /\ Counting!Bucket("Day", StatClock) = StatClock \div StatDay
      /\ \A t : Counting!Bucket("Hour", t) = t \div StatHour /\ Counting!Bucket("Day", t) = t \div StatDay
  BY DEF Counting!Bucket, Counting!Length
<1>2. StatClock \in Nat /\ StatHour \in Nat \ {0} /\ StatDay \in Nat \ {0}
  BY StatDayIs
<1>3. /\ StatClock \div StatHour \in Nat /\ StatClock \div StatHour <= StatClock
      /\ StatClock \div StatDay \in Nat /\ StatClock \div StatDay <= StatClock
  BY <1>2, Division
<1>4. ASSUME NEW t \in 0..StatClock
      PROVE  /\ t \div StatHour \in Nat /\ t \div StatHour <= StatClock \div StatHour
             /\ t \div StatDay \in Nat /\ t \div StatDay <= StatClock \div StatDay
  BY <1>2, Division, Quotients
<1> DEFINE H(t) == t \div StatHour  D(t) == t \div StatDay
<1>5. H(StatClock) \in 0..StatClock /\ D(StatClock) \in 0..StatClock
      /\ \A t \in 0..StatClock : H(t) \in 0..H(StatClock) /\ D(t) \in 0..D(StatClock)
  <2> HIDE DEF H, D
  <2>1. /\ H(StatClock) \in Nat /\ D(StatClock) \in Nat /\ H(StatClock) <= StatClock
        /\ D(StatClock) <= StatClock
    BY <1>3 DEF H, D
  <2>2. \A t \in 0..StatClock : /\ H(t) \in Nat /\ H(t) <= H(StatClock)
                                /\ D(t) \in Nat /\ D(t) <= D(StatClock)
    BY <1>4 DEF H, D
  <2> QED
    BY <1>2, <2>1, <2>2
<1> QED
  BY <1>1, <1>5

\* The hour of a moment is of its day.
LEMMA HourInDay ==
  ASSUME NEW t \in Nat
  PROVE  DayOf(Counting!Bucket("Hour", t)) = Counting!Bucket("Day", t)
<1> DEFINE h == t \div StatHour  d == t \div StatDay
<1>1. StatHour \in Nat \ {0} /\ StatDay \in Nat \ {0}
  BY StatDayIs
<1>2. PICK m \in Nat \ {0} : StatDay = m * StatHour
  BY StatDayIs
<1>3. /\ h \in Nat /\ h * StatHour \in Nat /\ h * StatHour <= t /\ t < h * StatHour + StatHour
      /\ d \in Nat /\ d * StatDay \in Nat /\ d * StatDay <= t /\ t < d * StatDay + StatDay
  BY <1>1, Division
<1> HIDE DEF h, d
<1>4. d * StatDay = (d * m) * StatHour /\ d * m \in Nat
  BY <1>1, <1>2, <1>3
<1>5. d * m <= h
  <2>1. (h < d * m) => h * StatHour + StatHour <= (d * m) * StatHour
    BY <1>1, <1>3, <1>4, Multiples
  <2> DEFINE a == h * StatHour  b == (d * m) * StatHour  dm == d * m
  <2>2. /\ a \in Nat /\ b <= t /\ t < a + StatHour /\ (h < dm => a + StatHour <= b)
        /\ b \in Nat /\ dm \in Nat
    BY <1>3, <1>4, <2>1
  <2> HIDE DEF a, b, dm
  <2>3. dm <= h
    BY <1>1, <1>3, <2>2
  <2> QED
    BY <2>3 DEF dm
<1>6. d * StatDay <= h * StatHour
  BY <1>1, <1>3, <1>4, <1>5, Multiples
<1>7. h * StatHour < d * StatDay + StatDay
  <2> DEFINE a == h * StatHour  b == d * StatDay
  <2>1. a \in Nat /\ b \in Nat /\ a <= t /\ t < b + StatDay
    BY <1>3
  <2> HIDE DEF a, b
  <2>2. a < b + StatDay
    BY <1>1, <2>1
  <2> QED
    BY <2>2 DEF a, b
<1>8. (h * StatHour) \div StatDay = d
  BY <1>1, <1>3, <1>6, <1>7, Quotient
<1> QED
  BY <1>8 DEF DayOf, h, d, Counting!Bucket, Counting!Length

LEMMA WindowsFit ==
  ASSUME NEW t \in 0..StatClock
  PROVE  /\ Counting!Window("Hour", t) \subseteq 0..Counting!Bucket("Hour", t)
         /\ Counting!Window("Day", t) \subseteq 0..Counting!Bucket("Day", t)
         /\ \A h \in Counting!Window("Hour", t) : DayOf(h) \in Counting!Window("Day", t)
<1> DEFINE th == t \div StatHour  td == t \div StatDay
<1>1. /\ StatHour \in Nat \ {0} /\ StatDay \in Nat \ {0} /\ t \in Nat
      /\ StatHours \in Nat \ {0} /\ StatDays \in Nat \ {0}
  BY StatDayIs, StatConstants
<1>2. Counting!Bucket("Hour", t) = th /\ Counting!Bucket("Day", t) = td
  BY DEF Counting!Bucket, Counting!Length
<1>3. /\ th \in Nat /\ th * StatHour \in Nat /\ th * StatHour <= t
      /\ td \in Nat /\ td * StatDay \in Nat /\ td * StatDay <= t
  BY <1>1, Division
<1>4. (th * StatHour) \div StatDay = td
  BY <1>1, <1>2, HourInDay DEF DayOf
<1>5. td * StatDay <= th * StatHour
  BY <1>1, <1>3, <1>4, Division
<1> HIDE DEF th, td
<1>6. /\ Counting!Window("Hour", t) = (IF th < StatHours - 1 THEN 0 ELSE th - (StatHours - 1))..th
      /\ Counting!Window("Day", t) = (IF td < StatDays - 1 THEN 0 ELSE td - (StatDays - 1))..td
  BY <1>2 DEF Counting!Window, Counting!Recent
<1>7. ASSUME NEW h \in Nat, h <= th, h >= th - (StatHours - 1)
      PROVE  /\ DayOf(h) \in Nat /\ DayOf(h) <= td
             /\ DayOf(h) >= td - (StatDays - 1)
  <2>1. h * StatHour \in Nat /\ h * StatHour <= th * StatHour
    BY <1>1, <1>3, <1>7, Multiples
  <2>2. DayOf(h) \in Nat /\ DayOf(h) * StatDay <= h * StatHour
        /\ h * StatHour < DayOf(h) * StatDay + StatDay /\ DayOf(h) * StatDay \in Nat
    BY <1>1, <2>1, Division DEF DayOf
  <2>3. DayOf(h) <= td
    BY <1>1, <1>3, <1>4, <2>1, Quotients DEF DayOf
  <2>4. th * StatHour <= h * StatHour + (StatHours - 1) * StatHour
        /\ (StatHours - 1) * StatHour \in Nat
    <3>1. h + (StatHours - 1) \in Nat /\ th <= h + (StatHours - 1) /\ StatHours - 1 \in Nat
      BY <1>1, <1>3, <1>7
    <3>2. th * StatHour <= (h + (StatHours - 1)) * StatHour
      BY <1>1, <1>3, <3>1, Multiples
    <3>3. \A x, y, z \in Nat : (x + y) * z = x * z + y * z /\ y * z \in Nat
      OBVIOUS
    <3>4. (h + (StatHours - 1)) * StatHour = h * StatHour + (StatHours - 1) * StatHour
          /\ (StatHours - 1) * StatHour \in Nat
      BY <1>1, <3>1, <3>3
    <3> QED
      BY <3>2, <3>4
  <2>5. (StatHours - 1) * StatHour <= (StatDays - 1) * StatDay
    BY StatConstants
  <2>6. DayOf(h) + (StatDays - 1) + 1 \in Nat
        /\ (DayOf(h) + (StatDays - 1) + 1) * StatDay
             = DayOf(h) * StatDay + (StatDays - 1) * StatDay + StatDay
        /\ (StatDays - 1) * StatDay \in Nat
    <3>1. \A x, y, z \in Nat : (x + y + 1) * z = x * z + y * z + z /\ y * z \in Nat
      OBVIOUS
    <3>2. StatDays - 1 \in Nat
      BY <1>1
    <3> QED
      BY <1>1, <2>2, <3>1, <3>2
  <2> DEFINE a == td * StatDay  b == th * StatHour  c == h * StatHour  e == (StatHours - 1) * StatHour
             f == (StatDays - 1) * StatDay  g == DayOf(h) * StatDay
             k == (DayOf(h) + (StatDays - 1) + 1) * StatDay
  <2>7. /\ a \in Nat /\ b \in Nat /\ c \in Nat /\ e \in Nat /\ f \in Nat /\ g \in Nat
        /\ a <= b /\ b <= c + e /\ e <= f /\ c < g + StatDay /\ k = g + f + StatDay
    BY <1>3, <1>5, <2>1, <2>2, <2>4, <2>5, <2>6
  <2>8. a < k => td < DayOf(h) + (StatDays - 1) + 1
    BY <1>1, <1>3, <2>6, Multiples
  <2> HIDE DEF a, b, c, e, f, g, k
  <2>9. a < k
    BY <1>1, <2>7
  <2>10. td < DayOf(h) + (StatDays - 1) + 1
    BY <2>8, <2>9
  <2> QED
    BY <1>1, <1>3, <2>2, <2>3, <2>10
<1>8. \A h \in Counting!Window("Hour", t) : h \in Nat /\ h <= th /\ h >= th - (StatHours - 1)
  BY <1>1, <1>3, <1>6
<1>9. \A d \in Nat : d <= td /\ d >= td - (StatDays - 1) => d \in Counting!Window("Day", t)
  BY <1>1, <1>3, <1>6
<1>10. \A h \in Counting!Window("Hour", t) : DayOf(h) \in Counting!Window("Day", t)
  BY <1>7, <1>8, <1>9
<1>11. \A d \in Counting!Window("Day", t) : d \in 0..td
  BY <1>1, <1>3, <1>6
<1> QED
  BY <1>2, <1>3, <1>8, <1>10, <1>11

-----------------------------------------------------------------------------
(* Statistics: rows and figures *)

CountedKinds == {"Redirect", "Message"}
LEMMA KindsAre ==
  /\ Counting!ToSet(StatKinds) = CountedKinds /\ Counting!Kinds = CountedKinds \cup {"Inbox"}
  /\ "Inbox" \notin CountedKinds
  /\ Counting!ToSet(Counting!Periods) = {"Hour", "Day"}
  /\ Counting!Events = CountedKinds \cup StatMembers
  /\ CountedKinds \cap StatMembers = {}
<1>1. Counting!ToSet(StatKinds) = CountedKinds
  <2>1. DOMAIN StatKinds = {1, 2} /\ StatKinds[1] = "Redirect" /\ StatKinds[2] = "Message"
    BY DEF StatKinds
  <2> QED
    BY <2>1 DEF Counting!ToSet, CountedKinds
<1>2. Counting!ToSet(Counting!Periods) = {"Hour", "Day"}
  <2>1. DOMAIN Counting!Periods = {1, 2} /\ Counting!Periods[1] = "Hour" /\ Counting!Periods[2] = "Day"
    BY DEF Counting!Periods
  <2> QED
    BY <2>1 DEF Counting!ToSet
<1>3. CountedKinds \cap StatMembers = {}
  <2>1. DOMAIN StatKinds = {1, 2} /\ StatKinds[1] = "Redirect" /\ StatKinds[2] = "Message"
    BY DEF StatKinds
  <2> QED
    BY <2>1, StatConstants DEF CountedKinds
<1>4. "Inbox" \notin CountedKinds
  BY DEF CountedKinds
<1> QED
  BY <1>1, <1>2, <1>3, <1>4 DEF Counting!Kinds, Counting!Events

LEMMA RowsAre ==
  /\ \A p \in {"Hour", "Day"}, k \in Counting!Kinds, b \in 0..StatClock : <<p, k, b>> \in Counting!Rows
  /\ \A r \in Counting!Rows : /\ r = <<r[1], r[2], r[3]>>
                              /\ r[1] \in {"Hour", "Day"} /\ r[2] \in Counting!Kinds
                              /\ r[3] \in 0..StatClock
BY KindsAre DEF Counting!Rows

\* What a row of a kind can hold.
Holds(k, x) == IF k = "Inbox" THEN x \in SUBSET StatMembers ELSE x \in Nat
Typed(tab) == DOMAIN tab = Counting!Rows /\ \A r \in Counting!Rows : Holds(r[2], tab[r])
In(tab, p, k, S) == [b \in S |-> tab[<<p, k, b>>]]

LEMMA InTable ==
  ASSUME NEW tab, Typed(tab), NEW p \in {"Hour", "Day"}, NEW k \in CountedKinds,
         NEW S \in SUBSET (0..StatClock)
  PROVE  /\ Numbers(In(tab, p, k, S)) /\ Counting!Sum(In(tab, p, k, S)) \in Nat
         /\ \A n : Val(In(tab, p, k, S), n) = IF n \in S THEN tab[<<p, k, n>>] ELSE 0
         /\ \A n \in 0..StatClock : tab[<<p, k, n>>] \in Nat
<1>1. \A n \in 0..StatClock : tab[<<p, k, n>>] \in Nat
  <2>1. \A n \in 0..StatClock : <<p, k, n>> \in Counting!Rows /\ <<p, k, n>>[2] = k
    BY KindsAre, RowsAre
  <2>2. k # "Inbox"
    BY KindsAre
  <2> QED
    BY <2>1, <2>2 DEF Typed, Holds
<1>2. Numbers(In(tab, p, k, S))
  BY <1>1 DEF Numbers, In
<1> QED
  BY <1>1, <1>2, SumNat DEF Val, In

\* A table of which one bucket of a kind has more.
Raised(tab, new, p, k, h, x) ==
  \A n \in 0..StatClock : /\ n = h => new[<<p, k, n>>] = tab[<<p, k, n>>] + x
                          /\ n # h => new[<<p, k, n>>] = tab[<<p, k, n>>]

LEMMA RaisedSum ==
  ASSUME NEW tab, Typed(tab), NEW new, Typed(new), NEW p \in {"Hour", "Day"}, NEW k \in CountedKinds,
         NEW S \in SUBSET (0..StatClock), NEW h \in 0..StatClock, NEW x \in Nat,
         Raised(tab, new, p, k, h, x)
  PROVE  /\ h \in S => Counting!Sum(In(new, p, k, S)) = Counting!Sum(In(tab, p, k, S)) + x
         /\ h \notin S => Counting!Sum(In(new, p, k, S)) = Counting!Sum(In(tab, p, k, S))
<1> DEFINE y == IF h \in S THEN x ELSE 0
           more == [n \in S |-> IF n = h THEN x ELSE 0]
<1>1. y \in Nat /\ Numbers(more)
      /\ \A n \in 0..StatClock : Val(more, n) = IF n = h THEN y ELSE 0
  BY DEF Numbers, Val
<1>2. \A n \in 0..StatClock : Val(more, n) = IF n \in S /\ n = h THEN x ELSE 0
  BY DEF Val
<1> HIDE DEF y, more
<1>3. Counting!Sum(more) = y
  BY <1>1, SumOne
<1> DEFINE a == In(tab, p, k, S)  b == In(new, p, k, S)
<1>4. /\ Numbers(a) /\ Numbers(b)
      /\ \A n : Val(a, n) = IF n \in S THEN tab[<<p, k, n>>] ELSE 0
      /\ \A n : Val(b, n) = IF n \in S THEN new[<<p, k, n>>] ELSE 0
      /\ \A n \in 0..StatClock : tab[<<p, k, n>>] \in Nat
  BY InTable
<1> HIDE DEF a, b
<1>5. ASSUME NEW n \in 0..StatClock
      PROVE  Val(b, n) = Val(a, n) + Val(more, n)
  <2>1. CASE n \notin S
    <3>1. Val(b, n) = 0 /\ Val(a, n) = 0 /\ Val(more, n) = 0
      BY <1>2, <1>4, <2>1
    <3> QED
      BY <3>1
  <2>2. CASE n \in S
    <3> DEFINE i == tab[<<p, k, n>>]  j == new[<<p, k, n>>]
    <3>1. Val(b, n) = j /\ Val(a, n) = i /\ i \in Nat
      BY <1>4, <2>2
    <3>2. (n = h => j = i + x) /\ (n # h => j = i)
      BY DEF Raised
    <3>3. Val(more, n) = IF n = h THEN x ELSE 0
      BY <1>2, <2>2
    <3> HIDE DEF i, j
    <3> QED
      BY <3>1, <3>2, <3>3
  <2> QED
    BY <2>1, <2>2
<1>6. Counting!Sum(b) = Counting!Sum(a) + Counting!Sum(more)
  BY <1>1, <1>4, <1>5, SumPlus
<1>7. Counting!Sum(a) \in Nat
  BY <1>4, SumNat
<1> QED
  BY <1>3, <1>6, <1>7 DEF a, b, y

Grew(tab, new) ==
  \A r \in Counting!Rows : Counting!Within(r[2], tab[r], new[r])

\* The figures of a table that has grown.
LEMMA FigureGrows ==
  ASSUME NEW tab, Typed(tab), NEW new, Typed(new), Grew(tab, new),
         NEW p \in {"Hour", "Day"}, NEW k \in Counting!Kinds, NEW S \in SUBSET (0..StatClock)
  PROVE  /\ Holds(k, Counting!Figure(k, In(tab, p, k, S)))
         /\ Holds(k, Counting!Figure(k, In(new, p, k, S)))
         /\ Counting!Within(k, Counting!Figure(k, In(tab, p, k, S)), Counting!Figure(k, In(new, p, k, S)))
<1>1. \A n \in 0..StatClock : Counting!Within(k, tab[<<p, k, n>>], new[<<p, k, n>>])
  <2>1. \A n \in 0..StatClock : <<p, k, n>> \in Counting!Rows /\ <<p, k, n>>[2] = k
    BY RowsAre
  <2> QED
    BY <2>1 DEF Grew
<1>2. CASE k = "Inbox"
  <2>1. \A n \in S : <<p, k, n>> \in Counting!Rows /\ <<p, k, n>>[2] = k
    BY RowsAre
  <2>2. \A n \in S : tab[<<p, k, n>>] \in SUBSET StatMembers /\ new[<<p, k, n>>] \in SUBSET StatMembers
    BY <1>2, <2>1 DEF Typed, Holds
  <2>3. \A n \in S : tab[<<p, k, n>>] \subseteq new[<<p, k, n>>]
    BY <1>1, <1>2 DEF Counting!Within
  <2> DEFINE a == In(tab, p, k, S)  b == In(new, p, k, S)
  <2>4. /\ DOMAIN a = S /\ DOMAIN b = S
        /\ \A n \in S : a[n] \subseteq b[n] /\ b[n] \subseteq StatMembers
    BY <2>2, <2>3 DEF In
  <2> HIDE DEF a, b
  <2> DEFINE A == UNION {a[n] : n \in DOMAIN a}  B == UNION {b[n] : n \in DOMAIN b}
  <2>5. \A m \in A : m \in B
    BY <2>4
  <2>6. \A m \in B : m \in StatMembers
    BY <2>4
  <2>7. Counting!Figure(k, a) = A /\ Counting!Figure(k, b) = B
    BY <1>2 DEF Counting!Figure
  <2> HIDE DEF A, B
  <2>8. A \subseteq B /\ B \subseteq StatMembers
    BY <2>5, <2>6
  <2> QED
    BY <1>2, <2>7, <2>8 DEF Holds, Counting!Within, a, b
<1>3. CASE k # "Inbox"
  <2>1. k \in CountedKinds
    BY <1>3, KindsAre
  <2> DEFINE a == In(tab, p, k, S)  b == In(new, p, k, S)
  <2>2. /\ Numbers(a) /\ Numbers(b) /\ Counting!Sum(a) \in Nat /\ Counting!Sum(b) \in Nat
        /\ \A n : Val(a, n) = IF n \in S THEN tab[<<p, k, n>>] ELSE 0
        /\ \A n : Val(b, n) = IF n \in S THEN new[<<p, k, n>>] ELSE 0
    BY <2>1, InTable
  <2> HIDE DEF a, b
  <2>3. \A n \in 0..StatClock : tab[<<p, k, n>>] <= new[<<p, k, n>>]
    BY <1>1, <1>3 DEF Counting!Within
  <2>4. ASSUME NEW n \in 0..StatClock
        PROVE  Val(a, n) <= Val(b, n)
    <3>1. CASE n \notin S
      <4>1. Val(a, n) = 0 /\ Val(b, n) = 0
        BY <2>2, <3>1
      <4> QED
        BY <4>1
    <3>2. CASE n \in S
      <4>1. Val(a, n) = tab[<<p, k, n>>] /\ Val(b, n) = new[<<p, k, n>>]
        BY <2>2, <3>2
      <4> QED
        BY <2>3, <4>1
    <3> QED
      BY <3>1, <3>2
  <2>5. Counting!Sum(a) <= Counting!Sum(b)
    BY <2>2, <2>4, SumMonotone
  <2> QED
    BY <1>3, <2>2, <2>5 DEF Holds, Counting!Within, Counting!Figure, a, b
<1> QED
  BY <1>2, <1>3

HoursOf(d) == {h \in 0..Counting!Bucket("Hour", StatClock) : DayOf(h) = d}
\* A day has what its hours have.
DaysAgree(tab) ==
  \A d \in 0..Counting!Bucket("Day", StatClock), k \in Counting!Kinds :
    tab[<<"Day", k, d>>] = Counting!Figure(k, In(tab, "Hour", k, HoursOf(d)))

\* The hours of some days, as many as these.
LEMMA HoursOfDays ==
  ASSUME NEW tab, Typed(tab), DaysAgree(tab), NEW k \in CountedKinds,
         NEW W \in SUBSET (0..Counting!Bucket("Day", StatClock))
  PROVE  Counting!Sum(In(tab, "Day", k, W))
           = Counting!Sum(In(tab, "Hour", k, {h \in 0..Counting!Bucket("Hour", StatClock) : DayOf(h) \in W}))
<1> DEFINE BH == Counting!Bucket("Hour", StatClock)
           H(n) == {h \in 0..BH : DayOf(h) \in W /\ DayOf(h) < n}
           rows == In(tab, "Day", k, W)
           hours(n) == In(tab, "Hour", k, H(n))
<1>1. /\ StatClock \in Nat /\ 0..BH \subseteq 0..StatClock
      /\ 0..Counting!Bucket("Day", StatClock) \subseteq 0..StatClock
  <2>1. BH \in 0..StatClock /\ Counting!Bucket("Day", StatClock) \in 0..StatClock
    BY BucketsFit
  <2> HIDE DEF BH
  <2> QED
    BY <2>1, StatConstants
<1>2. \A w \in W : w \in 0..StatClock
  BY <1>1
<1>3. W \in SUBSET (0..StatClock) /\ \A n : H(n) \in SUBSET (0..StatClock)
  BY <1>1, <1>2
<1>4. Numbers(rows) /\ \A n : Val(rows, n) = IF n \in W THEN tab[<<"Day", k, n>>] ELSE 0
  BY <1>3, InTable
<1>5. \A n : /\ Numbers(hours(n)) /\ Counting!Sum(hours(n)) \in Nat
             /\ \A h : Val(hours(n), h) = IF h \in H(n) THEN tab[<<"Hour", k, h>>] ELSE 0
  BY <1>3, InTable
<1>6. \A h \in 0..StatClock : tab[<<"Hour", k, h>>] \in Nat
  BY <1>3, InTable
<1>7. PICK P : SumsTo(P, rows)
  BY <1>4, SumIsPartial
<1> HIDE DEF BH, rows
<1> DEFINE S == {n \in Nat : n <= StatClock + 1 => P[n] = Counting!Sum(hours(n))}
<1>8. 0 \in S
  <2>1. H(0) = {}
    <3>1. \A w \in W : ~ (w < 0)
      BY <1>2
    <3> QED
      BY <3>1
  <2> HIDE DEF H
  <2>2. \A h \in 0..StatClock : Val(hours(0), h) = IF h = 0 THEN 0 ELSE 0
    BY <1>5, <2>1
  <2>3. 0 \in 0..StatClock /\ 0 \in Nat /\ Numbers(hours(0))
    BY <1>1, <1>5
  <2> HIDE DEF hours
  <2>4. Counting!Sum(hours(0)) = 0
    BY <2>2, <2>3, SumOne
  <2>5. P[0] = 0
    BY <1>7 DEF SumsTo, Partial
  <2> QED
    BY <2>4, <2>5
<1>9. ASSUME NEW n \in Nat, n \in S
      PROVE  n + 1 \in S
  <2> SUFFICES ASSUME n + 1 <= StatClock + 1
               PROVE  P[n + 1] = Counting!Sum(hours(n + 1))
    OBVIOUS
  <2>1. n \in 0..StatClock /\ P[n] = Counting!Sum(hours(n))
    BY <1>1, <1>9
  <2>2. P[n + 1] = P[n] + Val(rows, n)
    BY <1>7 DEF SumsTo, Partial
  <2>3. CASE n \notin W
    <3>1. \A w \in W : w < n + 1 <=> w < n
      BY <1>2, <2>3
    <3>2. H(n + 1) = H(n)
      BY <3>1
    <3>3. Val(rows, n) = 0 /\ Counting!Sum(hours(n)) \in Nat
      BY <1>4, <1>5, <2>3
    <3> HIDE DEF H
    <3>4. hours(n + 1) = hours(n)
      BY <3>2
    <3> HIDE DEF hours
    <3> QED
      BY <2>1, <2>2, <3>3, <3>4
  <2>4. CASE n \in W
    <3> DEFINE more == In(tab, "Hour", k, HoursOf(n))
    <3>1. HoursOf(n) \in SUBSET (0..StatClock)
      BY <1>1 DEF HoursOf, BH
    <3>2. Numbers(more) /\ Counting!Sum(more) \in Nat
          /\ \A h : Val(more, h) = IF h \in HoursOf(n) THEN tab[<<"Hour", k, h>>] ELSE 0
      BY <3>1, InTable
    <3>3. Val(rows, n) = Counting!Sum(more)
      <4>1. k \in Counting!Kinds /\ k # "Inbox" /\ n \in 0..Counting!Bucket("Day", StatClock)
        BY <2>4, KindsAre
      <4>2. tab[<<"Day", k, n>>] = Counting!Figure(k, more)
        BY <4>1 DEF DaysAgree
      <4> HIDE DEF more
      <4> QED
        BY <1>4, <2>4, <4>1, <4>2 DEF Counting!Figure
    <3>4. \A w \in W : w < n + 1 <=> (w < n \/ w = n)
      BY <1>2
    <3>5. \A h : /\ h \in H(n + 1) <=> h \in H(n) \/ h \in HoursOf(n)
                 /\ ~ (h \in H(n) /\ h \in HoursOf(n))
      <4> SUFFICES ASSUME NEW h
                   PROVE  /\ h \in H(n + 1) <=> h \in H(n) \/ h \in HoursOf(n)
                          /\ ~ (h \in H(n) /\ h \in HoursOf(n))
        OBVIOUS
      <4>1. /\ h \in H(n + 1) <=> h \in 0..BH /\ DayOf(h) \in W /\ DayOf(h) < n + 1
            /\ h \in H(n) <=> h \in 0..BH /\ DayOf(h) \in W /\ DayOf(h) < n
        OBVIOUS
      <4>2. h \in HoursOf(n) <=> h \in 0..BH /\ DayOf(h) = n
        BY DEF HoursOf, BH
      <4>3. DayOf(h) \in W => /\ DayOf(h) < n + 1 <=> (DayOf(h) < n \/ DayOf(h) = n)
                              /\ ~ (DayOf(h) < n /\ DayOf(h) = n)
        <5>1. \A w \in W : /\ w < n + 1 <=> (w < n \/ w = n)
                          /\ ~ (w < n /\ w = n)
          BY <1>2
        <5> DEFINE w == DayOf(h)
        <5> HIDE DEF w
        <5>2. w \in W => /\ w < n + 1 <=> (w < n \/ w = n)
                         /\ ~ (w < n /\ w = n)
          BY <5>1
        <5> QED
          BY <5>2 DEF w
      <4> HIDE DEF H
      <4> QED
        BY <2>4, <4>1, <4>2, <4>3
    <3> HIDE DEF more, H
    <3>6. ASSUME NEW h \in 0..StatClock
          PROVE  Val(hours(n + 1), h) = Val(hours(n), h) + Val(more, h)
      <4> DEFINE x == tab[<<"Hour", k, h>>]
      <4>1. x \in Nat
        BY <1>6
      <4>2. /\ Val(hours(n + 1), h) = IF h \in H(n + 1) THEN x ELSE 0
            /\ Val(hours(n), h) = IF h \in H(n) THEN x ELSE 0
            /\ Val(more, h) = IF h \in HoursOf(n) THEN x ELSE 0
        BY <1>5, <3>2
      <4> HIDE DEF x, hours
      <4>3. CASE h \in H(n)
        <5>1. Val(hours(n + 1), h) = x /\ Val(hours(n), h) = x /\ Val(more, h) = 0
          BY <3>5, <4>2, <4>3
        <5> QED
          BY <4>1, <5>1
      <4>4. CASE h \in HoursOf(n)
        <5>1. Val(hours(n + 1), h) = x /\ Val(hours(n), h) = 0 /\ Val(more, h) = x
          BY <3>5, <4>2, <4>4
        <5> QED
          BY <4>1, <5>1
      <4>5. CASE h \notin H(n + 1)
        <5>1. Val(hours(n + 1), h) = 0 /\ Val(hours(n), h) = 0 /\ Val(more, h) = 0
          BY <3>5, <4>2, <4>5
        <5> QED
          BY <5>1
      <4> QED
        BY <3>5, <4>3, <4>4, <4>5
    <3>7. Numbers(hours(n)) /\ Numbers(hours(n + 1))
      BY <1>5
    <3> HIDE DEF hours
    <3>8. Counting!Sum(hours(n + 1)) = Counting!Sum(hours(n)) + Counting!Sum(more)
      BY <3>2, <3>6, <3>7, SumPlus
    <3> QED
      BY <2>1, <2>2, <3>3, <3>8
  <2> QED
    BY <2>3, <2>4
<1> HIDE DEF S
<1>10. \A n \in Nat : n \in S
  BY <1>8, <1>9, Induction
<1>11. StatClock + 1 \in S
  BY <1>1, <1>10
<1>12. P[StatClock + 1] = Counting!Sum(hours(StatClock + 1))
  BY <1>1, <1>11 DEF S
<1>13. H(StatClock + 1) = {h \in 0..BH : DayOf(h) \in W}
  <2>1. \A w \in W : w < StatClock + 1
    BY <1>1, <1>2
  <2> QED
    BY <2>1
<1> QED
  BY <1>7, <1>12, <1>13 DEF SumsTo, rows, BH

\* The hours that are listed have no more than the days.
LEMMA HoursWithinDays ==
  ASSUME NEW tab, Typed(tab), DaysAgree(tab), NEW k \in Counting!Kinds, NEW t \in 0..StatClock
  PROVE  Counting!Within(k, Counting!Figure(k, In(tab, "Hour", k, Counting!Window("Hour", t))),
                            Counting!Figure(k, In(tab, "Day", k, Counting!Window("Day", t))))
<1> DEFINE BH == Counting!Bucket("Hour", StatClock)  BD == Counting!Bucket("Day", StatClock)
           V == Counting!Window("Hour", t)  W == Counting!Window("Day", t)
           H == {h \in 0..BH : DayOf(h) \in W}
<1>1. /\ BH \in 0..StatClock /\ BD \in 0..StatClock
      /\ Counting!Bucket("Hour", t) \in 0..BH /\ Counting!Bucket("Day", t) \in 0..BD
  BY BucketsFit
<1>2. /\ V \subseteq 0..Counting!Bucket("Hour", t) /\ W \subseteq 0..Counting!Bucket("Day", t)
      /\ \A h \in V : DayOf(h) \in W
  BY WindowsFit
<1> HIDE DEF BH, BD, V, W
<1>3. /\ \A h \in V : h \in 0..BH /\ h \in 0..StatClock
      /\ \A d \in W : d \in 0..BD /\ d \in 0..StatClock
      /\ \A h \in 0..BH : h \in 0..StatClock
  <2> DEFINE bh == Counting!Bucket("Hour", t)  bd == Counting!Bucket("Day", t)
  <2>1. /\ BH \in 0..StatClock /\ BD \in 0..StatClock /\ bh \in 0..BH /\ bd \in 0..BD
    BY <1>1
  <2>2. \A h \in V : h \in 0..bh
    BY <1>2
  <2>3. \A d \in W : d \in 0..bd
    BY <1>2
  <2>4. StatClock \in Nat
    BY StatConstants
  <2> HIDE DEF bh, bd
  <2>5. \A h \in 0..bh : h \in 0..BH /\ h \in 0..StatClock
    BY <2>1, <2>4
  <2>6. \A d \in 0..bd : d \in 0..BD /\ d \in 0..StatClock
    BY <2>1, <2>4
  <2>7. \A h \in 0..BH : h \in 0..StatClock
    BY <2>1, <2>4
  <2> QED
    BY <2>2, <2>3, <2>5, <2>6, <2>7
<1>4. V \in SUBSET (0..StatClock) /\ W \in SUBSET (0..BD) /\ H \in SUBSET (0..StatClock)
      /\ \A h \in V : h \in H
  BY <1>2, <1>3
<1>5. CASE k = "Inbox"
  <2> DEFINE a == In(tab, "Hour", k, V)  b == In(tab, "Day", k, W)
             A == UNION {a[n] : n \in DOMAIN a}  B == UNION {b[n] : n \in DOMAIN b}
  <2>1. ASSUME NEW m \in A
        PROVE  m \in B
    <3>1. PICK h \in V : m \in tab[<<"Hour", k, h>>]
      BY DEF In
    <3> DEFINE d == DayOf(h)
    <3>2. d \in W /\ d \in 0..BD /\ h \in HoursOf(d)
      BY <1>2, <1>3, <3>1 DEF HoursOf, BH
    <3> HIDE DEF d
    <3>3. tab[<<"Day", k, d>>] = Counting!Figure(k, In(tab, "Hour", k, HoursOf(d)))
      BY <3>2 DEF DaysAgree, BD
    <3>4. m \in Counting!Figure(k, In(tab, "Hour", k, HoursOf(d)))
      BY <1>5, <3>1, <3>2 DEF Counting!Figure, In
    <3>5. d \in DOMAIN b /\ b[d] = tab[<<"Day", k, d>>]
      BY <3>2 DEF In
    <3> QED
      BY <3>3, <3>4, <3>5
  <2>2. Counting!Figure(k, a) = A /\ Counting!Figure(k, b) = B
    BY <1>5 DEF Counting!Figure
  <2> HIDE DEF A, B, a, b
  <2>3. A \subseteq B
    BY <2>1
  <2> QED
    BY <1>5, <2>2, <2>3 DEF Counting!Within, a, b, V, W
<1>6. CASE k # "Inbox"
  <2>1. k \in CountedKinds
    BY <1>6, KindsAre
  <2>2. Counting!Sum(In(tab, "Day", k, W)) = Counting!Sum(In(tab, "Hour", k, H))
    BY <1>4, <2>1, HoursOfDays DEF BD, BH
  <2> DEFINE a == In(tab, "Hour", k, V)  b == In(tab, "Hour", k, H)
  <2>3. /\ Numbers(a) /\ \A n : Val(a, n) = IF n \in V THEN tab[<<"Hour", k, n>>] ELSE 0
        /\ Numbers(b) /\ \A n : Val(b, n) = IF n \in H THEN tab[<<"Hour", k, n>>] ELSE 0
        /\ \A n \in 0..StatClock : tab[<<"Hour", k, n>>] \in Nat
    BY <1>4, <2>1, InTable
  <2> HIDE DEF a, b, H
  <2>4. ASSUME NEW n \in 0..StatClock
        PROVE  Val(a, n) <= Val(b, n)
    <3> DEFINE x == tab[<<"Hour", k, n>>]
    <3>1. /\ x \in Nat /\ Val(a, n) = IF n \in V THEN x ELSE 0
          /\ Val(b, n) = IF n \in H THEN x ELSE 0
      BY <2>3
    <3> HIDE DEF x
    <3>2. CASE n \in V
      <4>1. Val(a, n) = x /\ Val(b, n) = x
        BY <1>4, <3>1, <3>2
      <4> QED
        BY <3>1, <4>1
    <3>3. CASE n \notin V
      <4>1. Val(a, n) = 0 /\ Val(b, n) \in Nat
        BY <3>1, <3>3
      <4> QED
        BY <4>1
    <3> QED
      BY <3>2, <3>3
  <2>5. Counting!Sum(a) <= Counting!Sum(b)
    BY <2>3, <2>4, SumMonotone
  <2> QED
    BY <1>6, <2>2, <2>5 DEF Counting!Within, Counting!Figure, a, b, V, W
<1> QED
  BY <1>5, <1>6

-----------------------------------------------------------------------------
(* Statistics: the statements of a batch *)

Statement == {x \in [row : Counting!Rows, add : Nat \cup SUBSET StatMembers] : Holds(x.row[2], x.add)}
Group(r) == <<r[1], r[2]>>
Rank(g) ==
  (IF g[1] = "Day" THEN 3 ELSE 0) + (IF g[2] = "Redirect" THEN 1 ELSE IF g[2] = "Message" THEN 2 ELSE 3)
RowAt(g, t) == <<g[1], g[2], Counting!Bucket(g[1], t)>>

\* The statements of a batch for some periods and kinds.
StatementFits(x, b, t, K) ==
  /\ x.row = RowAt(Group(x.row), t) /\ Group(x.row) \in K
  /\ x.row[2] # "Inbox" => x.add = Counting!Of(b, x.row[2])
  /\ x.row[2] = "Inbox" => \E m \in StatMembers : Counting!Of(b, m) # 0 /\ x.add = {m}
Before(x, y) == \/ Rank(Group(x.row)) < Rank(Group(y.row))
                \/ x.row = y.row /\ x.row[2] = "Inbox"
HasCount(st, b, t, g) ==
  g[2] # "Inbox" /\ Counting!Of(b, g[2]) # 0 => \E i \in 1..Len(st) : st[i].row = RowAt(g, t)
HasMembers(st, b, t, g) ==
  g[2] = "Inbox" => \A m \in StatMembers : Counting!Of(b, m) # 0 =>
    \E i \in 1..Len(st) : st[i].row = RowAt(g, t) /\ st[i].add = {m}
Orderly(st, b, t, K) ==
  /\ st \in Seq(Statement)
  /\ \A i \in 1..Len(st) : StatementFits(st[i], b, t, K)
  /\ \A i, j \in 1..Len(st) : i < j => Before(st[i], st[j])
  /\ \A g \in K : HasCount(st, b, t, g) /\ HasMembers(st, b, t, g)

LEMMA IsSequence ==
  ASSUME NEW V, NEW n \in Nat, NEW s, s = [i \in DOMAIN s |-> s[i]], DOMAIN s = 1..n,
         \A i \in 1..n : s[i] \in V
  PROVE  s \in Seq(V) /\ Len(s) = n
<1>1. s \in [1..n -> V]
  OBVIOUS
<1>2. \A q \in [1..n -> V] : q \in Seq(V) /\ Len(q) = n
  OBVIOUS
<1> QED
  BY <1>1, <1>2

LEMMA ConcatIs ==
  ASSUME NEW V, NEW a \in Seq(V), NEW c \in Seq(V)
  PROVE  /\ a \o c \in Seq(V) /\ Len(a) \in Nat /\ Len(c) \in Nat /\ Len(a \o c) = Len(a) + Len(c)
         /\ \A i \in 1..Len(a) : i \in 1..Len(a \o c) /\ (a \o c)[i] = a[i]
         /\ \A i \in 1..Len(c) : Len(a) + i \in 1..Len(a \o c) /\ (a \o c)[Len(a) + i] = c[i]
         /\ \A i \in 1..Len(a \o c) : i \in 1..Len(a) \/ (i - Len(a) \in 1..Len(c) /\ i = Len(a) + (i - Len(a)))
OBVIOUS

LEMMA OrderlyBoth ==
  ASSUME NEW b, NEW t, NEW K, NEW L, NEW x, NEW y, Orderly(x, b, t, K), Orderly(y, b, t, L),
         \A g \in K, h \in L : Rank(g) < Rank(h)
  PROVE  Orderly(x \o y, b, t, K \cup L)
<1> DEFINE r == x \o y
<1>1. /\ r \in Seq(Statement) /\ Len(x) \in Nat /\ Len(y) \in Nat /\ Len(r) = Len(x) + Len(y)
      /\ \A i \in 1..Len(x) : i \in 1..Len(r) /\ r[i] = x[i]
      /\ \A i \in 1..Len(y) : Len(x) + i \in 1..Len(r) /\ r[Len(x) + i] = y[i]
      /\ \A i \in 1..Len(r) : i \in 1..Len(x) \/ (i - Len(x) \in 1..Len(y) /\ i = Len(x) + (i - Len(x)))
  <2>1. x \in Seq(Statement) /\ y \in Seq(Statement)
    BY DEF Orderly
  <2> QED
    BY <2>1, ConcatIs
<1>2. /\ \A i \in 1..Len(x) : StatementFits(x[i], b, t, K)
      /\ \A i, j \in 1..Len(x) : i < j => Before(x[i], x[j])
      /\ \A g \in K : HasCount(x, b, t, g) /\ HasMembers(x, b, t, g)
  BY DEF Orderly
<1>3. /\ \A i \in 1..Len(y) : StatementFits(y[i], b, t, L)
      /\ \A i, j \in 1..Len(y) : i < j => Before(y[i], y[j])
      /\ \A g \in L : HasCount(y, b, t, g) /\ HasMembers(y, b, t, g)
  BY DEF Orderly
<1> HIDE DEF r
<1>4. ASSUME NEW i \in 1..Len(r)
      PROVE  StatementFits(r[i], b, t, K \cup L)
  <2>1. CASE i \in 1..Len(x)
    <3>1. StatementFits(x[i], b, t, K)
      BY <1>2, <2>1
    <3> QED
      BY <1>1, <2>1, <3>1 DEF StatementFits
  <2>2. CASE i - Len(x) \in 1..Len(y) /\ i = Len(x) + (i - Len(x))
    <3>1. StatementFits(y[i - Len(x)], b, t, L)
      BY <1>3, <2>2
    <3>2. r[i] = y[i - Len(x)]
      BY <1>1, <2>2
    <3> QED
      BY <3>1, <3>2 DEF StatementFits
  <2> QED
    BY <1>1, <2>1, <2>2
<1>5. ASSUME NEW i \in 1..Len(r), NEW j \in 1..Len(r), i < j
      PROVE  Before(r[i], r[j])
  <2>1. CASE i \in 1..Len(x) /\ j \in 1..Len(x)
    BY <1>1, <1>2, <1>5, <2>1
  <2>2. CASE i - Len(x) \in 1..Len(y) /\ j - Len(x) \in 1..Len(y)
    <3>1. r[i] = y[i - Len(x)] /\ r[j] = y[j - Len(x)] /\ i - Len(x) < j - Len(x)
      BY <1>1, <1>5, <2>2
    <3> QED
      BY <1>3, <2>2, <3>1
  <2>3. CASE i \in 1..Len(x) /\ j - Len(x) \in 1..Len(y)
    <3>1. r[i] = x[i] /\ r[j] = y[j - Len(x)]
      BY <1>1, <2>3
    <3>2. StatementFits(x[i], b, t, K) /\ StatementFits(y[j - Len(x)], b, t, L)
      BY <1>2, <1>3, <2>3
    <3>3. Group(r[i].row) \in K /\ Group(r[j].row) \in L
      BY <3>1, <3>2 DEF StatementFits
    <3> QED
      BY <3>3 DEF Before
  <2>4. ~ (i - Len(x) \in 1..Len(y) /\ j \in 1..Len(x))
    BY <1>1, <1>5
  <2> QED
    BY <1>1, <2>1, <2>2, <2>3, <2>4
<1>8. /\ \A i \in 1..Len(x) : \E j \in 1..Len(r) : r[j] = x[i]
      /\ \A i \in 1..Len(y) : \E j \in 1..Len(r) : r[j] = y[i]
  BY <1>1
<1>6. ASSUME NEW g \in K
      PROVE  HasCount(r, b, t, g) /\ HasMembers(r, b, t, g)
  <2>1. HasCount(x, b, t, g) /\ HasMembers(x, b, t, g)
    BY <1>2
  <2>2. HasCount(r, b, t, g)
    BY <1>8, <2>1 DEF HasCount
  <2>3. ASSUME NEW m \in StatMembers, g[2] = "Inbox", Counting!Of(b, m) # 0
        PROVE  \E j \in 1..Len(r) : r[j].row = RowAt(g, t) /\ r[j].add = {m}
    <3>1. PICK i \in 1..Len(x) : x[i].row = RowAt(g, t) /\ x[i].add = {m}
      BY <2>1, <2>3 DEF HasMembers
    <3>2. PICK j \in 1..Len(r) : r[j] = x[i]
      BY <1>8
    <3> QED
      BY <3>1, <3>2
  <2>4. HasMembers(r, b, t, g)
    BY <2>3 DEF HasMembers
  <2> QED
    BY <2>2, <2>4
<1>7. ASSUME NEW g \in L
      PROVE  HasCount(r, b, t, g) /\ HasMembers(r, b, t, g)
  <2>1. HasCount(y, b, t, g) /\ HasMembers(y, b, t, g)
    BY <1>3
  <2>2. HasCount(r, b, t, g)
    BY <1>8, <2>1 DEF HasCount
  <2>3. ASSUME NEW m \in StatMembers, g[2] = "Inbox", Counting!Of(b, m) # 0
        PROVE  \E j \in 1..Len(r) : r[j].row = RowAt(g, t) /\ r[j].add = {m}
    <3>1. PICK i \in 1..Len(y) : y[i].row = RowAt(g, t) /\ y[i].add = {m}
      BY <2>1, <2>3 DEF HasMembers
    <3>2. PICK j \in 1..Len(r) : r[j] = y[i]
      BY <1>8
    <3> QED
      BY <3>1, <3>2
  <2>4. HasMembers(r, b, t, g)
    BY <2>3 DEF HasMembers
  <2> QED
    BY <2>2, <2>4
<1> QED
  BY <1>1, <1>4, <1>5, <1>6, <1>7 DEF Orderly, r

\* What is in a sequence.
LEMMA OfSome ==
  ASSUME NEW V, NEW b \in Seq(V), NEW e
  PROVE  e \in Counting!ToSet(b) <=> Counting!Of(b, e) # 0
BY OfNone DEF Counting!ToSet

LEMMA CountsOrderly ==
  ASSUME NEW b \in Seq(Counting!Events), NEW p \in {"Hour", "Day"}, NEW t \in 0..StatClock
  PROVE  Orderly(Counting!CountStatements(b, p, t), b, t, {<<p, k>> : k \in CountedKinds})
<1> DEFINE kinds == Counting!Picked(StatKinds, Counting!ToSet(b))
           K == {<<p, k>> : k \in CountedKinds}
           st == [i \in DOMAIN kinds |-> [row |-> <<p, kinds[i], Counting!Bucket(p, t)>>,
                                          add |-> Counting!Of(b, kinds[i])]]
<1>1. Counting!CountStatements(b, p, t) = st
  BY DEF Counting!CountStatements
<1>2. /\ StatKinds \in Seq(CountedKinds) /\ Len(StatKinds) = 2
      /\ StatKinds[1] = "Redirect" /\ StatKinds[2] = "Message"
  BY DEF StatKinds, CountedKinds
<1>3. kinds \in Seq(CountedKinds) /\ \E at : PickedAt(kinds, StatKinds, Counting!ToSet(b), at, 2)
  BY <1>2, PickedInOrder
<1> HIDE DEF kinds
<1>4. PICK at : PickedAt(kinds, StatKinds, Counting!ToSet(b), at, 2)
  BY <1>3
<1>5. /\ DOMAIN kinds = 1..Len(kinds) /\ Len(kinds) \in Nat
      /\ \A i \in 1..Len(kinds) : kinds[i] \in CountedKinds
  BY <1>3
<1>6. Counting!Bucket(p, t) \in 0..StatClock
  <2>1. /\ Counting!Bucket(p, StatClock) \in 0..StatClock
        /\ Counting!Bucket(p, t) \in 0..Counting!Bucket(p, StatClock)
    BY BucketsFit
  <2> DEFINE x == Counting!Bucket(p, t)  y == Counting!Bucket(p, StatClock)
  <2> HIDE DEF x, y
  <2>2. y \in 0..StatClock /\ x \in 0..y
    BY <2>1 DEF x, y
  <2>3. x \in 0..StatClock
    BY <2>2, StatConstants
  <2> QED
    BY <2>3 DEF x
<1>7. ASSUME NEW i \in 1..Len(kinds)
      PROVE  /\ st[i].row = <<p, kinds[i], Counting!Bucket(p, t)>> /\ st[i].row \in Counting!Rows
             /\ st[i].add = Counting!Of(b, kinds[i]) /\ st[i].add \in Nat
             /\ st[i].row[1] = p /\ st[i].row[2] = kinds[i] /\ kinds[i] # "Inbox"
             /\ st[i] \in Statement
  <2> DEFINE which == <<p, kinds[i], Counting!Bucket(p, t)>>  add == Counting!Of(b, kinds[i])
  <2>1. st[i] = [row |-> which, add |-> add]
    BY <1>5
  <2>2. kinds[i] \in Counting!Kinds /\ kinds[i] # "Inbox"
    BY <1>5, KindsAre
  <2>3. which \in Counting!Rows
    BY <1>6, <2>2, RowsAre
  <2>4. add \in Nat
    BY OfNone
  <2>5. which[1] = p /\ which[2] = kinds[i]
    OBVIOUS
  <2> HIDE DEF which, add, st
  <2>6. st[i].row = which /\ st[i].add = add
    BY <2>1
  <2>7. st[i] \in Statement
    BY <2>1, <2>2, <2>3, <2>4, <2>5 DEF Statement, Holds
  <2> QED
    BY <2>2, <2>3, <2>4, <2>5, <2>6, <2>7 DEF which, add
<1>8. Len(st) = Len(kinds) /\ st \in Seq(Statement)
  <2>1. DOMAIN st = 1..Len(kinds) /\ st = [i \in DOMAIN st |-> st[i]]
    BY <1>5
  <2> HIDE DEF st
  <2>2. \A i \in 1..Len(kinds) : st[i] \in Statement
    BY <1>7
  <2> QED
    BY <1>5, <2>1, <2>2, IsSequence
<1> HIDE DEF st
<1>9. \A i \in 1..Len(st) : StatementFits(st[i], b, t, K)
  BY <1>5, <1>7, <1>8 DEF StatementFits, RowAt, Group
<1>10. ASSUME NEW i \in 1..Len(st), NEW j \in 1..Len(st), i < j
       PROVE  Before(st[i], st[j])
  <2>1. at[i] \in 1..2 /\ at[j] \in 1..2 /\ at[i] < at[j]
        /\ kinds[i] = StatKinds[at[i]] /\ kinds[j] = StatKinds[at[j]]
    BY <1>4, <1>8, <1>10 DEF PickedAt
  <2>2. at[i] = 1 /\ at[j] = 2
    BY <2>1
  <2>3. kinds[i] = "Redirect" /\ kinds[j] = "Message"
    BY <1>2, <2>1, <2>2
  <2>4. /\ st[i].row[1] = p /\ st[i].row[2] = "Redirect"
        /\ st[j].row[1] = p /\ st[j].row[2] = "Message"
    BY <1>7, <1>8, <2>3
  <2> QED
    BY <2>4 DEF Before, Rank, Group
<1>11. ASSUME NEW k \in CountedKinds
       PROVE  HasCount(st, b, t, <<p, k>>) /\ HasMembers(st, b, t, <<p, k>>)
  <2>1. k # "Inbox"
    BY KindsAre
  <2>2. ASSUME Counting!Of(b, k) # 0
        PROVE  \E i \in 1..Len(st) : st[i].row = <<p, k, Counting!Bucket(p, t)>>
    <3>1. k \in Counting!ToSet(b)
      BY <2>2, OfSome
    <3>2. PICK n \in 1..2 : StatKinds[n] = k
      BY <1>2 DEF CountedKinds
    <3>3. PICK i \in 1..Len(kinds) : at[i] = n
      BY <1>4, <3>1, <3>2 DEF PickedAt
    <3>4. kinds[i] = k
      BY <1>4, <3>2, <3>3 DEF PickedAt
    <3> QED
      BY <1>7, <1>8, <3>4
  <2> QED
    BY <2>1, <2>2 DEF HasCount, HasMembers, RowAt
<1>12. \A g \in K : HasCount(st, b, t, g) /\ HasMembers(st, b, t, g)
  BY <1>11
<1> QED
  BY <1>1, <1>8, <1>9, <1>10, <1>12 DEF Orderly

LEMMA MembersOrderly ==
  ASSUME NEW b \in Seq(Counting!Events), NEW p \in {"Hour", "Day"}, NEW t \in 0..StatClock
  PROVE  Orderly(Counting!UniqueStatements(b, p, t), b, t, {<<p, "Inbox">>})
<1> DEFINE members == Counting!Picked(b, StatMembers)
           K == {<<p, "Inbox">>}
           st == [i \in DOMAIN members |-> [row |-> <<p, "Inbox", Counting!Bucket(p, t)>>,
                                            add |-> {members[i]}]]
<1>1. Counting!UniqueStatements(b, p, t) = st
  BY DEF Counting!UniqueStatements
<1>2. PICK at : PickedAt(members, b, StatMembers, at, Len(b))
  BY PickedInOrder
<1>3. members \in Seq(Counting!Events)
  BY PickedInOrder
<1> HIDE DEF members
<1>4. DOMAIN members = 1..Len(members) /\ Len(members) \in Nat
  BY <1>3
<1>5. ASSUME NEW i \in 1..Len(members)
      PROVE  members[i] \in StatMembers /\ Counting!Of(b, members[i]) # 0
  <2>1. members[i] = b[at[i]] /\ b[at[i]] \in StatMembers /\ at[i] \in 1..Len(b)
    BY <1>2 DEF PickedAt
  <2>2. members[i] \in Counting!ToSet(b)
    BY <2>1 DEF Counting!ToSet
  <2> QED
    BY <2>1, <2>2, OfSome
<1>6. Counting!Bucket(p, t) \in 0..StatClock
  <2>1. /\ Counting!Bucket(p, StatClock) \in 0..StatClock
        /\ Counting!Bucket(p, t) \in 0..Counting!Bucket(p, StatClock)
    BY BucketsFit
  <2> DEFINE x == Counting!Bucket(p, t)  y == Counting!Bucket(p, StatClock)
  <2> HIDE DEF x, y
  <2>2. y \in 0..StatClock /\ x \in 0..y
    BY <2>1 DEF x, y
  <2>3. x \in 0..StatClock
    BY <2>2, StatConstants
  <2> QED
    BY <2>3 DEF x
<1>7. ASSUME NEW i \in 1..Len(members)
      PROVE  /\ st[i].row = <<p, "Inbox", Counting!Bucket(p, t)>> /\ st[i].row \in Counting!Rows
             /\ st[i].add = {members[i]}
             /\ st[i].row[1] = p /\ st[i].row[2] = "Inbox"
             /\ st[i] \in Statement
  <2> DEFINE which == <<p, "Inbox", Counting!Bucket(p, t)>>  add == {members[i]}
  <2>1. st[i] = [row |-> which, add |-> add]
    BY <1>4
  <2>2. "Inbox" \in Counting!Kinds
    BY KindsAre
  <2>3. which \in Counting!Rows
    BY <1>6, <2>2, RowsAre
  <2>4. add \in SUBSET StatMembers
    BY <1>5
  <2>5. which[1] = p /\ which[2] = "Inbox"
    OBVIOUS
  <2> HIDE DEF which, add, st
  <2>6. st[i].row = which /\ st[i].add = add
    BY <2>1
  <2>7. st[i] \in Statement
    BY <2>1, <2>2, <2>3, <2>4, <2>5 DEF Statement, Holds
  <2> QED
    BY <2>2, <2>3, <2>4, <2>5, <2>6, <2>7 DEF which, add
<1>8. Len(st) = Len(members) /\ st \in Seq(Statement)
  <2>1. DOMAIN st = 1..Len(members) /\ st = [i \in DOMAIN st |-> st[i]]
    BY <1>4
  <2> HIDE DEF st
  <2>2. \A i \in 1..Len(members) : st[i] \in Statement
    BY <1>7
  <2> QED
    BY <1>4, <2>1, <2>2, IsSequence
<1> HIDE DEF st
<1>9. ASSUME NEW i \in 1..Len(st)
      PROVE  StatementFits(st[i], b, t, K)
  <2>1. /\ st[i].row = <<p, "Inbox", Counting!Bucket(p, t)>> /\ st[i].add = {members[i]}
        /\ st[i].row[1] = p /\ st[i].row[2] = "Inbox"
    BY <1>7, <1>8, <1>9
  <2>2. members[i] \in StatMembers /\ Counting!Of(b, members[i]) # 0
    BY <1>5, <1>8, <1>9
  <2> QED
    BY <2>1, <2>2 DEF StatementFits, RowAt, Group
<1>10. \A i, j \in 1..Len(st) : i < j => Before(st[i], st[j])
  BY <1>7, <1>8 DEF Before
<1>11. HasCount(st, b, t, <<p, "Inbox">>)
  BY DEF HasCount
<1>12. ASSUME NEW m \in StatMembers, Counting!Of(b, m) # 0
       PROVE  \E i \in 1..Len(st) : st[i].row = <<p, "Inbox", Counting!Bucket(p, t)>> /\ st[i].add = {m}
  <2>1. PICK n \in 1..Len(b) : b[n] = m
    BY <1>12, OfSome DEF Counting!ToSet
  <2>2. PICK i \in 1..Len(members) : at[i] = n
    BY <1>2, <2>1 DEF PickedAt
  <2>3. members[i] = m
    BY <1>2, <2>1, <2>2 DEF PickedAt
  <2> QED
    BY <1>7, <1>8, <2>3
<1>13. HasMembers(st, b, t, <<p, "Inbox">>)
  BY <1>12 DEF HasMembers, RowAt
<1> QED
  BY <1>1, <1>8, <1>9, <1>10, <1>11, <1>13 DEF Orderly

Groups == {"Hour", "Day"} \X Counting!Kinds

LEMMA StatementsOrderly ==
  ASSUME NEW b \in Seq(Counting!Events), NEW t \in 0..StatClock
  PROVE  Orderly(Counting!Statements(b, t), b, t, Groups)
<1> DEFINE C(p) == {<<p, k>> : k \in CountedKinds}  M(p) == {<<p, "Inbox">>}
<1>1. ASSUME NEW p \in {"Hour", "Day"}
      PROVE  Orderly(Counting!OfPeriod(b, p, t), b, t, C(p) \cup M(p))
  <2>1. Orderly(Counting!CountStatements(b, p, t), b, t, C(p))
    BY CountsOrderly
  <2>2. Orderly(Counting!UniqueStatements(b, p, t), b, t, M(p))
    BY MembersOrderly
  <2>3. \A g \in C(p), h \in M(p) : Rank(g) < Rank(h)
    BY DEF Rank, CountedKinds
  <2> HIDE DEF C, M
  <2> QED
    BY <2>1, <2>2, <2>3, OrderlyBoth DEF Counting!OfPeriod
<1> DEFINE P(p) == C(p) \cup M(p)
<1>2. \A g \in P("Hour") : Rank(g) \in 1..3
  BY DEF Rank
<1>3. \A g \in P("Day") : Rank(g) \in 4..6
  BY DEF Rank
<1>4. P("Hour") \cup P("Day") = Groups
  BY KindsAre DEF Groups
<1> HIDE DEF C, M
<1>5. /\ Orderly(Counting!OfPeriod(b, "Hour", t), b, t, P("Hour"))
      /\ Orderly(Counting!OfPeriod(b, "Day", t), b, t, P("Day"))
  BY <1>1
<1> HIDE DEF P
<1>6. \A g \in P("Hour"), h \in P("Day") : Rank(g) < Rank(h)
  BY <1>2, <1>3
<1>7. Orderly(Counting!OfPeriod(b, "Hour", t) \o Counting!OfPeriod(b, "Day", t), b, t,
              P("Hour") \cup P("Day"))
  BY <1>5, <1>6, OrderlyBoth
<1> QED
  BY <1>4, <1>7 DEF Counting!Statements

-----------------------------------------------------------------------------
(* Statistics: what a transaction writes *)

Tables == {x \in [Counting!Rows -> Nat \cup SUBSET StatMembers] : Typed(x)}

LEMMA TablesAreTyped == Typed(table) /\ table = [r \in Counting!Rows |-> table[r]] => table \in Tables
BY DEF Typed, Holds, Tables

LEMMA UpsertIs ==
  ASSUME NEW tab \in Tables, NEW x \in Statement
  PROVE  /\ Counting!Upsert(tab, x) \in Tables
         /\ \A r \in Counting!Rows : r # x.row => Counting!Upsert(tab, x)[r] = tab[r]
         /\ x.row[2] = "Inbox" => Counting!Upsert(tab, x)[x.row] = tab[x.row] \cup x.add
         /\ x.row[2] # "Inbox" => Counting!Upsert(tab, x)[x.row] = tab[x.row] + x.add
<1> DEFINE w == x.row  add == x.add  new == Counting!Upsert(tab, x)
           y == Counting!Add(w[2], tab[w], add)
<1>1. w \in Counting!Rows /\ Holds(w[2], add) /\ Holds(w[2], tab[w])
      /\ tab \in [Counting!Rows -> Nat \cup SUBSET StatMembers]
  BY DEF Statement, Tables, Typed
<1>2. new = [tab EXCEPT ![w] = y]
  BY DEF Counting!Upsert
<1> HIDE DEF w, add, new
<1>3. (w[2] = "Inbox" => y = tab[w] \cup add) /\ (w[2] # "Inbox" => y = tab[w] + add)
  BY DEF Counting!Add
<1>4. Holds(w[2], y)
  BY <1>1, <1>3 DEF Holds
<1> HIDE DEF y
<1>5. y \in Nat \cup SUBSET StatMembers
  BY <1>4 DEF Holds
<1>6. /\ new \in [Counting!Rows -> Nat \cup SUBSET StatMembers] /\ new[w] = y
      /\ \A r \in Counting!Rows : r # w => new[r] = tab[r]
  BY <1>1, <1>2, <1>5
<1>7. Typed(new)
  <2>1. \A r \in Counting!Rows : Holds(r[2], tab[r])
    BY DEF Tables, Typed
  <2>2. ASSUME NEW r \in Counting!Rows
        PROVE  Holds(r[2], new[r])
    <3>1. CASE r = w
      BY <1>4, <1>6, <3>1
    <3>2. CASE r # w
      BY <1>6, <2>1, <3>2
    <3> QED
      BY <3>1, <3>2
  <2> QED
    BY <1>6, <2>2 DEF Typed
<1> QED
  BY <1>3, <1>6, <1>7 DEF Tables, w, add, new

\* The table after each statement.
Writes(h, st) ==
  /\ h \in [0..Len(st) -> Tables] /\ h[0] = table
  /\ \A n \in 1..Len(st) : h[n] = Counting!Upsert(h[n - 1], st[n])

LEMMA ApplyWrites ==
  ASSUME NEW st \in Seq(Statement), table \in Tables
  PROVE  \E h : Writes(h, st) /\ Counting!Apply(st) = h[Len(st)]
<1> DEFINE s == [x \in Tables \X Statement |-> Counting!Upsert(x[1], x[2])]
           L == Len(st)
           R(g) == g = [n \in 0..L |-> IF n = 0 THEN table ELSE Counting!Upsert(g[n - 1], st[n])]
           c == CHOOSE g : R(g)
<1>1. s \in [Tables \X Statement -> Tables]
      /\ \A tab \in Tables, x \in Statement : s[<<tab, x>>] = Counting!Upsert(tab, x)
  BY UpsertIs
<1>2. /\ L \in Nat /\ 0 \in 0..L /\ L \in 0..L
      /\ \A n \in 1..L : st[n] \in Statement /\ n - 1 \in 0..L /\ n \in 0..L /\ n # 0
      /\ \A n \in 0..L : n = 0 \/ n \in 1..L
  OBVIOUS
<1> HIDE DEF s
<1>3. PICK h : Results(h, Tables, table, s, st)
  BY <1>1, <1>2, LoopHasResults
<1>4. Writes(h, st)
  <2>1. \A n \in 1..L : h[n] = s[<<h[n - 1], st[n]>>] /\ h[n - 1] \in Tables
    BY <1>2, <1>3 DEF Results
  <2>2. \A n \in 1..L : h[n] = Counting!Upsert(h[n - 1], st[n])
    BY <1>1, <1>2, <2>1
  <2> QED
    BY <1>3, <2>2 DEF Results, Writes
<1>5. R(h)
  <2>1. \A n \in 0..L : h[n] = IF n = 0 THEN table ELSE Counting!Upsert(h[n - 1], st[n])
    BY <1>2, <1>4 DEF Writes
  <2> QED
    BY <1>4, <2>1 DEF Writes
<1>6. R(c)
  <2> HIDE DEF R
  <2> QED
    BY <1>5, Zenon
<1>7. c[L] = h[L]
  <2> HIDE DEF c
  <2>1. \A n \in 0..L : c[n] = IF n = 0 THEN table ELSE Counting!Upsert(c[n - 1], st[n])
    BY <1>6
  <2>2. \A n \in 1..L : c[n] = Counting!Upsert(c[n - 1], st[n])
    BY <1>2, <2>1
  <2>3. c[0] = h[0]
    BY <1>2, <1>4, <2>1 DEF Writes
  <2>4. \A n \in 1..L : c[n - 1] = h[n - 1] => c[n] = h[n]
    BY <1>4, <2>2 DEF Writes
  <2>5. GoOnAlike(c, h, L)
    BY <2>3, <2>4 DEF GoOnAlike
  <2>6. AreAlike(c, h, L)
    BY <1>2, <2>5, Alike
  <2> QED
    BY <1>2, <2>6 DEF AreAlike
<1>8. Counting!Apply(st) = c[L]
  BY DEF Counting!Apply
<1> HIDE DEF c, R
<1> QED
  BY <1>4, <1>7, <1>8

\* A table that has what a batch of some moment counts besides.
Recorded(b, t, new) ==
  /\ new \in Tables
  /\ \A r \in Counting!Rows : r # RowAt(Group(r), t) => new[r] = table[r]
  /\ \A r \in Counting!Rows : r = RowAt(Group(r), t) /\ r[2] # "Inbox" =>
       new[r] = table[r] + Counting!Of(b, r[2])
  /\ \A r \in Counting!Rows : r = RowAt(Group(r), t) /\ r[2] = "Inbox" =>
       \A m \in StatMembers : m \in new[r] <=> m \in table[r] \/ Counting!Of(b, m) # 0

LEMMA BatchIsRecorded ==
  ASSUME NEW b \in Seq(Counting!Events), NEW t \in 0..StatClock, table \in Tables,
         NEW st, Orderly(st, b, t, Groups)
  PROVE  Recorded(b, t, Counting!Apply(st))
<1> DEFINE L == Len(st)
<1>1. st \in Seq(Statement) /\ L \in Nat /\ \A n \in 1..L : st[n] \in Statement
  BY DEF Orderly
<1>2. PICK h : Writes(h, st) /\ Counting!Apply(st) = h[L]
  BY <1>1, ApplyWrites
<1>3. /\ h \in [0..L -> Tables] /\ h[0] = table
      /\ \A n \in 1..L : h[n] = Counting!Upsert(h[n - 1], st[n])
  BY <1>2 DEF Writes
<1>4. /\ \A n \in 1..L : StatementFits(st[n], b, t, Groups)
      /\ \A i, j \in 1..L : i < j => Before(st[i], st[j])
      /\ \A g \in Groups : HasCount(st, b, t, g) /\ HasMembers(st, b, t, g)
  BY DEF Orderly
<1>5. \A n \in Nat : n + 1 <= L =>
        /\ n + 1 \in 1..L /\ n \in 0..L /\ n + 1 \in 0..L /\ h[n] \in Tables
        /\ h[n + 1] = Counting!Upsert(h[n], st[n + 1]) /\ st[n + 1] \in Statement
  <2> SUFFICES ASSUME NEW n \in Nat, n + 1 <= L
               PROVE  /\ n + 1 \in 1..L /\ n \in 0..L /\ n + 1 \in 0..L /\ h[n] \in Tables
                      /\ h[n + 1] = Counting!Upsert(h[n], st[n + 1]) /\ st[n + 1] \in Statement
    OBVIOUS
  <2> HIDE DEF L
  <2>1. n + 1 \in 1..L /\ n \in 0..L /\ n + 1 \in 0..L /\ (n + 1) - 1 = n
    BY <1>1
  <2>2. h[n + 1] = Counting!Upsert(h[(n + 1) - 1], st[n + 1])
    BY <1>3, <2>1
  <2> QED
    BY <1>1, <1>3, <2>1, <2>2
<1> HIDE DEF L
<1>6. ASSUME NEW r \in Counting!Rows, \A i \in 1..L : st[i].row # r
      PROVE  h[L][r] = table[r]
  <2> DEFINE S == {n \in Nat : n <= L => h[n][r] = table[r]}
  <2>1. 0 \in S
    BY <1>3
  <2>2. ASSUME NEW n \in Nat, n \in S
        PROVE  n + 1 \in S
    <3> SUFFICES ASSUME n + 1 <= L
                 PROVE  h[n + 1][r] = table[r]
      OBVIOUS
    <3>1. h[n][r] = table[r]
      BY <1>1, <2>2
    <3>2. Counting!Upsert(h[n], st[n + 1])[r] = h[n][r]
      BY <1>5, <1>6, UpsertIs
    <3> QED
      BY <1>5, <3>1, <3>2
  <2> HIDE DEF S
  <2>3. \A n \in Nat : n \in S
    BY <2>1, <2>2, Induction
  <2> QED
    BY <1>1, <2>3 DEF S
<1>7. ASSUME NEW r \in Counting!Rows, r[2] # "Inbox", NEW i \in 1..L, st[i].row = r
      PROVE  h[L][r] = table[r] + Counting!Of(b, r[2])
  <2> DEFINE x == Counting!Of(b, r[2])
             S == {n \in Nat : n <= L => h[n][r] = IF i <= n THEN table[r] + x ELSE table[r]}
  <2>1. 0 \in S
    BY <1>3
  <2>2. ASSUME NEW n \in Nat, n \in S
        PROVE  n + 1 \in S
    <3> SUFFICES ASSUME n + 1 <= L
                 PROVE  h[n + 1][r] = IF i <= n + 1 THEN table[r] + x ELSE table[r]
      OBVIOUS
    <3>1. h[n][r] = IF i <= n THEN table[r] + x ELSE table[r]
      BY <1>1, <2>2
    <3>2. CASE i = n + 1
      <4>1. st[n + 1].add = x
        BY <1>4, <1>7, <3>2 DEF StatementFits
      <4>2. Counting!Upsert(h[n], st[n + 1])[r] = h[n][r] + x
        BY <1>5, <1>7, <3>2, <4>1, UpsertIs
      <4>3. h[n][r] = table[r]
        BY <3>1, <3>2
      <4> HIDE DEF x
      <4> QED
        BY <1>5, <3>2, <4>2, <4>3
    <3>3. CASE i # n + 1
      <4>1. st[n + 1].row # r
        <5>1. SUFFICES ASSUME st[n + 1].row = r
                       PROVE  FALSE
          OBVIOUS
        <5>2. n + 1 \in 1..L /\ (i < n + 1 \/ n + 1 < i)
          BY <1>5, <3>3
        <5>3. Before(st[i], st[n + 1]) \/ Before(st[n + 1], st[i])
          BY <1>4, <5>2
        <5>4. Rank(Group(r)) < Rank(Group(r))
          BY <1>7, <5>1, <5>3 DEF Before
        <5>5. Rank(Group(r)) \in Nat
          BY DEF Rank
        <5> QED
          BY <5>4, <5>5
      <4>2. Counting!Upsert(h[n], st[n + 1])[r] = h[n][r]
        BY <1>5, <4>1, UpsertIs
      <4>3. i <= n <=> i <= n + 1
        BY <3>3
      <4> HIDE DEF x
      <4> QED
        BY <1>5, <3>1, <4>2, <4>3
    <3> QED
      BY <3>2, <3>3
  <2> HIDE DEF S
  <2>3. \A n \in Nat : n \in S
    BY <2>1, <2>2, Induction
  <2>4. L \in S /\ i <= L
    BY <1>1, <2>3
  <2> QED
    BY <1>1, <2>4 DEF S
<1>8. ASSUME NEW r \in Counting!Rows, r[2] = "Inbox", NEW m \in StatMembers
      PROVE  m \in h[L][r] <=> m \in table[r] \/ \E i \in 1..L : st[i].row = r /\ m \in st[i].add
  <2> DEFINE S == {n \in Nat : n <= L =>
                     (m \in h[n][r] <=> m \in table[r] \/ \E i \in 1..n : st[i].row = r /\ m \in st[i].add)}
  <2>1. 0 \in S
    BY <1>3
  <2>2. ASSUME NEW n \in Nat, n \in S
        PROVE  n + 1 \in S
    <3> SUFFICES ASSUME n + 1 <= L
                 PROVE  m \in h[n + 1][r] <=>
                          m \in table[r] \/ \E i \in 1..(n + 1) : st[i].row = r /\ m \in st[i].add
      OBVIOUS
    <3>1. m \in h[n][r] <=> m \in table[r] \/ \E i \in 1..n : st[i].row = r /\ m \in st[i].add
      BY <1>1, <2>2
    <3>2. (\E i \in 1..(n + 1) : st[i].row = r /\ m \in st[i].add) <=>
             \/ \E i \in 1..n : st[i].row = r /\ m \in st[i].add
             \/ st[n + 1].row = r /\ m \in st[n + 1].add
      <4>1. \A i \in 1..(n + 1) : i = n + 1 \/ i \in 1..n
        OBVIOUS
      <4>2. (n + 1 \in 1..(n + 1)) /\ \A i \in 1..n : i \in 1..(n + 1)
        OBVIOUS
      <4> QED
        BY <4>1, <4>2
    <3>3. m \in Counting!Upsert(h[n], st[n + 1])[r] <=>
             m \in h[n][r] \/ (st[n + 1].row = r /\ m \in st[n + 1].add)
      <4>1. CASE st[n + 1].row = r
        <5>1. Counting!Upsert(h[n], st[n + 1])[r] = h[n][r] \cup st[n + 1].add
          BY <1>5, <1>8, <4>1, UpsertIs
        <5> QED
          BY <4>1, <5>1
      <4>2. CASE st[n + 1].row # r
        <5>1. Counting!Upsert(h[n], st[n + 1])[r] = h[n][r]
          BY <1>5, <4>2, UpsertIs
        <5> QED
          BY <4>2, <5>1
      <4> QED
        BY <4>1, <4>2
    <3> QED
      BY <1>5, <3>1, <3>2, <3>3
  <2> HIDE DEF S
  <2>3. \A n \in Nat : n \in S
    BY <2>1, <2>2, Induction
  <2> QED
    BY <1>1, <2>3 DEF S
<1>9. h[L] \in Tables
  BY <1>1, <1>3
<1>10. ASSUME NEW r \in Counting!Rows
       PROVE  /\ Group(r) \in Groups /\ Group(r)[1] = r[1] /\ Group(r)[2] = r[2]
              /\ \A i \in 1..L : st[i].row = r => r = RowAt(Group(r), t)
  BY <1>4, RowsAre DEF Groups, Group, StatementFits
<1>11. ASSUME NEW r \in Counting!Rows, r # RowAt(Group(r), t)
       PROVE  h[L][r] = table[r]
  BY <1>6, <1>10, <1>11
<1>12. ASSUME NEW r \in Counting!Rows, r = RowAt(Group(r), t), r[2] # "Inbox"
       PROVE  h[L][r] = table[r] + Counting!Of(b, r[2])
  <2>1. CASE \E i \in 1..L : st[i].row = r
    BY <1>7, <1>12, <2>1
  <2>2. CASE ~ \E i \in 1..L : st[i].row = r
    <3>1. HasCount(st, b, t, Group(r))
      BY <1>4, <1>10
    <3>2. Counting!Of(b, r[2]) = 0
      BY <1>10, <1>12, <2>2, <3>1 DEF HasCount, L
    <3>3. h[L][r] = table[r]
      BY <1>6, <2>2
    <3>4. table[r] \in Nat
      BY <1>12 DEF Tables, Typed, Holds
    <3> QED
      BY <3>2, <3>3, <3>4
  <2> QED
    BY <2>1, <2>2
<1>13. ASSUME NEW r \in Counting!Rows, r = RowAt(Group(r), t), r[2] = "Inbox", NEW m \in StatMembers
       PROVE  m \in h[L][r] <=> m \in table[r] \/ Counting!Of(b, m) # 0
  <2>1. ASSUME NEW i \in 1..L, st[i].row = r, m \in st[i].add
        PROVE  Counting!Of(b, m) # 0
    <3>1. StatementFits(st[i], b, t, Groups)
      BY <1>4
    <3> QED
      BY <1>13, <2>1, <3>1 DEF StatementFits
  <2>2. ASSUME Counting!Of(b, m) # 0
        PROVE  \E i \in 1..L : st[i].row = r /\ m \in st[i].add
    <3>1. HasMembers(st, b, t, Group(r))
      BY <1>4, <1>10
    <3>2. \E i \in 1..L : st[i].row = RowAt(Group(r), t) /\ st[i].add = {m}
      BY <1>10, <1>13, <2>2, <3>1 DEF HasMembers, L
    <3> QED
      BY <1>13, <3>2
  <2> QED
    BY <1>8, <1>13, <2>1, <2>2
<1> QED
  BY <1>2, <1>9, <1>11, <1>12, <1>13 DEF Recorded

-----------------------------------------------------------------------------
(* Statistics: the invariant *)

Sequences == Seq(Counting!Events)
StatTypes ==
  /\ clock \in 0..StatClock /\ loads \in 0..StatLoads
  /\ channel \in [StatServers -> Sequences] /\ \A s \in StatServers : Len(channel[s]) <= StatQueue
  /\ batch \in [StatServers -> Sequences] /\ \A s \in StatServers : Len(batch[s]) <= StatBatch
  /\ statements \in [StatServers -> Seq(Statement)] /\ done \in [StatServers -> Seq(Statement)]
  /\ table \in Tables
  /\ sent \in [Counting!Events -> Nat] /\ lost \in [Counting!Events -> Nat]

\* A transaction is at some place of the statements of its batch.
Transaction(s) ==
  /\ batch[s] = <<>> => statements[s] = <<>> /\ done[s] = <<>>
  /\ batch[s] # <<>> =>
       \E t \in 0..StatClock : done[s] \o statements[s] = Counting!Statements(batch[s], t)
Transactions == \A s \in StatServers : Transaction(s)

\* No row is locked twice.
LocksApart ==
  \A s, o \in StatServers : s # o =>
    \A i \in 1..Len(done[s]), j \in 1..Len(done[o]) : done[s][i].row # done[o][j].row

\* What a transaction has locked comes before what it locks next.
LEMMA LocksAscend ==
  ASSUME StatTypes, Transactions, NEW s \in StatServers, statements[s] # <<>>
  PROVE  /\ Head(statements[s]) \in Statement
         /\ \A i \in 1..Len(done[s]) : done[s][i] \in Statement /\ Before(done[s][i], Head(statements[s]))
<1> DEFINE x == done[s]  y == statements[s]
<1>1. x \in Seq(Statement) /\ y \in Seq(Statement) /\ y # <<>> /\ batch[s] \in Sequences
  BY DEF StatTypes
<1>2. PICK t \in 0..StatClock : x \o y = Counting!Statements(batch[s], t)
  BY <1>1 DEF Transactions, Transaction
<1>3. Orderly(x \o y, batch[s], t, Groups)
  BY <1>1, <1>2, StatementsOrderly DEF Sequences
<1> HIDE DEF x, y
<1>4. 1 \in 1..Len(y) /\ Head(y) = y[1] /\ Head(y) \in Statement
  BY <1>1
<1>5. /\ Len(x) \in Nat /\ Len(x) + 1 \in 1..Len(x \o y) /\ (x \o y)[Len(x) + 1] = Head(y)
      /\ \A i \in 1..Len(x) : i \in 1..Len(x \o y) /\ (x \o y)[i] = x[i] /\ x[i] \in Statement
  BY <1>1, <1>4, ConcatIs
<1>6. ASSUME NEW i \in 1..Len(x)
      PROVE  x[i] \in Statement /\ Before(x[i], Head(y))
  <2>1. i < Len(x) + 1
    BY <1>5
  <2>2. Before((x \o y)[i], (x \o y)[Len(x) + 1])
    BY <1>3, <1>5, <2>1 DEF Orderly
  <2> QED
    BY <1>5, <2>2
<1> QED
  BY <1>4, <1>6 DEF x, y

LEMMA BlocksIs ==
  ASSUME StatTypes, NEW o \in StatServers, NEW s \in StatServers
  PROVE  Counting!Blocks(o, s) <=>
           /\ statements[s] # <<>> /\ o # s
           /\ \E i \in 1..Len(done[o]) : done[o][i].row = Head(statements[s]).row
<1>1. DOMAIN done[o] = 1..Len(done[o])
  BY DEF StatTypes
<1>2. Counting!Held(o) = {done[o][i].row : i \in 1..Len(done[o])}
  BY <1>1 DEF Counting!Held
<1> QED
  BY <1>2 DEF Counting!Blocks

LEMMA NobodyWaitsInCircles ==
  ASSUME StatTypes, Transactions, LocksApart
  PROVE  Counting!NoLockCycle
<1> SUFFICES ASSUME NEW ring \in (SUBSET StatServers) \ {{}}
             PROVE  \E s \in ring : \A o \in ring : ~ Counting!Blocks(o, s)
  BY Zenon DEF Counting!NoLockCycle
<1>0. ring \in SUBSET StatServers /\ ring # {}
  OBVIOUS
<1>1. CASE \E s \in ring : statements[s] = <<>>
  <2>1. PICK s \in ring : statements[s] = <<>>
    BY <1>1
  <2>2. \A o \in ring : ~ Counting!Blocks(o, s)
    BY <2>1 DEF Counting!Blocks
  <2> QED
    BY <2>1, <2>2
<1>2. CASE \A s \in ring : statements[s] # <<>>
  <2> DEFINE N(s) == Rank(Group(Head(statements[s]).row))
             S == {6 - N(s) : s \in ring}
  <2>1. \A s \in ring : N(s) \in 1..6
    BY DEF Rank
  <2> HIDE DEF N
  <2>2. S \in SUBSET Nat /\ S # {}
    <3>1. \A s \in ring : 6 - N(s) \in Nat
      BY <2>1
    <3> QED
      BY <1>0, <3>1
  <2>3. PICK m \in S : \A k \in S : m <= k
    BY <2>2, LeastNumber
  <2>4. PICK s \in ring : m = 6 - N(s)
    BY <2>3
  <2>5. \A o \in ring : N(o) <= N(s)
    <3> SUFFICES ASSUME NEW o \in ring
                 PROVE  N(o) <= N(s)
      OBVIOUS
    <3>1. 6 - N(o) \in S
      OBVIOUS
    <3>2. 6 - N(s) <= 6 - N(o)
      BY <2>3, <2>4, <3>1
    <3> QED
      BY <2>1, <3>2
  <2>6. CASE \A o \in ring : ~ Counting!Blocks(o, s)
    BY <2>6
  <2>7. CASE \E o \in ring : Counting!Blocks(o, s)
    <3>1. PICK o \in ring : Counting!Blocks(o, s)
      BY <2>7
    <3>2. PICK i \in 1..Len(done[o]) : done[o][i].row = Head(statements[s]).row
      BY <1>0, <3>1, BlocksIs
    <3>3. Before(done[o][i], Head(statements[o]))
      BY <1>0, <1>2, LocksAscend
    <3>4. N(s) = Rank(Group(done[o][i].row)) /\ N(o) = Rank(Group(Head(statements[o]).row))
      BY <3>2 DEF N
    <3>5. ~ (N(s) < N(o))
      BY <2>1, <2>5
    <3>6. done[o][i].row = Head(statements[o]).row
      BY <3>3, <3>4, <3>5 DEF Before
    <3>7. ASSUME NEW p \in ring, Counting!Blocks(p, o)
          PROVE  FALSE
      <4>1. p # o /\ \E j \in 1..Len(done[p]) : done[p][j].row = Head(statements[o]).row
        BY <1>0, <3>7, BlocksIs
      <4> QED
        BY <1>0, <3>6, <4>1 DEF LocksApart
    <3> QED
      BY <3>7
  <2> QED
    BY <2>6, <2>7
<1> QED
  BY <1>1, <1>2

\* What the workers rely on.
WorkerFits == StatTypes /\ Transactions /\ LocksApart

LEMMA NoStatements == <<>> \in Seq(Statement) /\ <<>> \in Sequences /\ Len(<<>>) = 0
BY DEF Sequences

LEMMA RecordFits ==
  ASSUME WorkerFits, NEW s \in StatServers, NEW e \in Counting!Events, Counting!Record(s, e)
  PROVE  WorkerFits'
<1>1. StatTypes /\ Transactions /\ LocksApart
  BY DEF WorkerFits
<1>2. /\ sent' = [sent EXCEPT ![e] = @ + 1]
      /\ UNCHANGED <<clock, batch, statements, done, table, loads>>
      /\ \/ Len(channel[s]) < StatQueue /\ channel' = [channel EXCEPT ![s] = Append(@, e)] /\ lost' = lost
         \/ channel' = channel /\ lost' = [x \in Counting!Events |-> lost[x] + Counting!Of(<<e>>, x)]
  BY DEF Counting!Record, Counting!Lose, Counting!writer, Counting!reading
<1>3. sent' \in [Counting!Events -> Nat]
  <2>1. sent[e] + 1 \in Nat /\ sent \in [Counting!Events -> Nat]
    BY <1>1 DEF StatTypes
  <2> QED
    BY <1>2, <2>1
<1>4. lost' \in [Counting!Events -> Nat]
  <2>1. lost \in [Counting!Events -> Nat]
    BY <1>1 DEF StatTypes
  <2>2. <<e>> \in Sequences
    BY DEF Sequences
  <2>3. \A x \in Counting!Events : lost[x] + Counting!Of(<<e>>, x) \in Nat
    <3>1. \A x : Counting!Of(<<e>>, x) \in Nat
      BY <2>2, OfNone DEF Sequences
    <3> QED
      BY <2>1, <3>1
  <2> QED
    BY <1>2, <2>1, <2>3
<1>5. channel' \in [StatServers -> Sequences] /\ \A o \in StatServers : Len(channel'[o]) <= StatQueue
  <2>1. channel \in [StatServers -> Sequences] /\ \A o \in StatServers : Len(channel[o]) <= StatQueue
    BY <1>1 DEF StatTypes
  <2>2. CASE Len(channel[s]) < StatQueue /\ channel' = [channel EXCEPT ![s] = Append(@, e)]
    <3>1. channel[s] \in Sequences
      BY <2>1
    <3>2. Append(channel[s], e) \in Sequences /\ Len(Append(channel[s], e)) = Len(channel[s]) + 1
          /\ Len(channel[s]) \in Nat
      BY <3>1 DEF Sequences
    <3>3. Len(Append(channel[s], e)) <= StatQueue
      BY <2>2, <3>2, StatConstants
    <3> QED
      BY <2>1, <2>2, <3>2, <3>3
  <2> QED
    BY <1>2, <2>1, <2>2
<1>6. StatTypes'
  BY <1>1, <1>2, <1>3, <1>4, <1>5 DEF StatTypes
<1>7. Transactions'
  BY <1>1, <1>2 DEF Transactions, Transaction
<1>8. LocksApart'
  BY <1>1, <1>2 DEF LocksApart
<1> QED
  BY <1>6, <1>7, <1>8 DEF WorkerFits

\* What a worker takes.
LEMMA TakeIs ==
  ASSUME StatTypes, NEW s \in StatServers, Counting!Take(s)
  PROVE  /\ batch[s] = <<>> /\ batch'[s] # <<>> /\ batch'[s] \in Sequences
         /\ Len(batch'[s]) <= StatBatch
         /\ channel'[s] \in Sequences /\ Len(channel'[s]) <= StatQueue
         /\ channel[s] = batch'[s] \o channel'[s]
         /\ batch' = [batch EXCEPT ![s] = batch'[s]] /\ channel' = [channel EXCEPT ![s] = channel'[s]]
         /\ statements' = [statements EXCEPT ![s] = Counting!Statements(batch'[s], clock)]
         /\ UNCHANGED <<clock, done, table, figures, loads, sent, lost>>
<1> DEFINE q == channel[s]  n == Counting!Min({Len(q), StatBatch})
           b == SubSeq(q, 1, n)  r == SubSeq(q, Len(b) + 1, Len(q))
<1>1. /\ batch[s] = <<>> /\ b # <<>>
      /\ channel' = [channel EXCEPT ![s] = r]
      /\ batch' = [batch EXCEPT ![s] = b]
      /\ statements' = [statements EXCEPT ![s] = Counting!Statements(b, clock)]
      /\ UNCHANGED <<clock, done, table, figures, loads, sent, lost>>
  BY DEF Counting!Take, Counting!reading
<1>2. q \in Sequences /\ Len(q) \in Nat /\ Len(q) <= StatQueue /\ StatBatch \in Nat /\ StatQueue \in Nat
  BY StatConstants DEF StatTypes, Sequences
<1>3. n \in {Len(q), StatBatch} /\ n <= Len(q) /\ n <= StatBatch
  <2> DEFINE S == {Len(q), StatBatch}
             P(x) == x \in S /\ \A y \in S : x <= y
  <2>1. \E x : P(x)
    BY <1>2
  <2>2. P(CHOOSE x : P(x))
    <3> HIDE DEF P
    <3> QED
      BY <2>1, Zenon
  <2>3. n = CHOOSE x : P(x)
    BY DEF Counting!Min
  <2> HIDE DEF n
  <2> QED
    BY <2>2, <2>3
<1> HIDE DEF n
<1>4. n \in Nat /\ n <= Len(q) /\ n <= StatBatch
  BY <1>2, <1>3
<1>5. b \in Sequences /\ Len(b) = n /\ \A i \in 1..n : b[i] = q[i]
  BY <1>2, <1>4 DEF Sequences
<1>6. r \in Sequences /\ Len(r) = Len(q) - n /\ \A i \in 1..(Len(q) - n) : r[i] = q[i + n]
  <2>1. \A i \in 1..(Len(q) - n) : (n + 1) + i - 1 = i + n
    BY <1>2, <1>4
  <2> HIDE DEF q, b
  <2> QED
    BY <1>2, <1>4, <1>5, <2>1 DEF Sequences
<1> HIDE DEF q, b, r
<1>7. q = b \o r
  <2>1. b \o r \in Sequences /\ Len(b \o r) = Len(q)
    BY <1>2, <1>4, <1>5, <1>6 DEF Sequences
  <2>2. ASSUME NEW i \in 1..Len(q)
        PROVE  (b \o r)[i] = q[i]
    <3>1. CASE i <= n
      <4>1. i \in 1..n
        BY <1>4, <3>1
      <4>2. (b \o r)[i] = b[i]
        BY <1>2, <1>4, <1>5, <1>6, <4>1 DEF Sequences
      <4> QED
        BY <1>5, <4>1, <4>2
    <3>2. CASE i > n
      <4>1. i - n \in 1..(Len(q) - n) /\ (i - n) + n = i
        BY <1>2, <1>4, <3>2
      <4>2. (b \o r)[i] = r[i - n]
        BY <1>2, <1>4, <1>5, <1>6, <3>2 DEF Sequences
      <4> QED
        BY <1>6, <4>1, <4>2
    <3>3. i <= n \/ i > n
      BY <1>2, <1>4
    <3> QED
      BY <3>1, <3>2, <3>3
  <2>3. \A u, v \in Sequences : Len(u) = Len(v) /\ (\A i \in 1..Len(v) : u[i] = v[i]) => v = u
    BY DEF Sequences
  <2> QED
    BY <1>2, <2>1, <2>2, <2>3
<1>8. batch'[s] = b /\ channel'[s] = r
  BY <1>1 DEF StatTypes
<1>9. Len(b) <= StatBatch /\ Len(r) <= StatQueue
  BY <1>2, <1>4, <1>5, <1>6
<1> QED
  BY <1>1, <1>5, <1>6, <1>7, <1>8, <1>9 DEF q

LEMMA TakeFits ==
  ASSUME WorkerFits, NEW s \in StatServers, Counting!Take(s)
  PROVE  WorkerFits'
<1>1. StatTypes /\ Transactions /\ LocksApart
  BY DEF WorkerFits
<1> DEFINE b == batch'[s]  st == Counting!Statements(b, clock)
<1>2. /\ batch[s] = <<>> /\ b # <<>> /\ b \in Sequences /\ Len(b) <= StatBatch
      /\ channel'[s] \in Sequences /\ Len(channel'[s]) <= StatQueue
      /\ batch' = [batch EXCEPT ![s] = b] /\ channel' = [channel EXCEPT ![s] = channel'[s]]
      /\ statements' = [statements EXCEPT ![s] = st]
      /\ UNCHANGED <<clock, done, table, figures, loads, sent, lost>>
  BY <1>1, TakeIs
<1> HIDE DEF b
<1>3. /\ channel \in [StatServers -> Sequences] /\ batch \in [StatServers -> Sequences]
      /\ statements \in [StatServers -> Seq(Statement)] /\ done \in [StatServers -> Seq(Statement)]
      /\ clock \in 0..StatClock
  BY <1>1 DEF StatTypes
<1>4. st \in Seq(Statement)
  <2>1. Orderly(st, b, clock, Groups)
    BY <1>2, <1>3, StatementsOrderly DEF Sequences
  <2> QED
    BY <2>1 DEF Orderly
<1> HIDE DEF st
<1>5. /\ channel' \in [StatServers -> Sequences] /\ \A o \in StatServers : Len(channel'[o]) <= StatQueue
      /\ batch' \in [StatServers -> Sequences] /\ \A o \in StatServers : Len(batch'[o]) <= StatBatch
  BY <1>1, <1>2, <1>3 DEF StatTypes
<1>6. statements' \in [StatServers -> Seq(Statement)]
  BY <1>2, <1>3, <1>4
<1>7. StatTypes'
  BY <1>1, <1>2, <1>5, <1>6 DEF StatTypes
<1>8. ASSUME NEW o \in StatServers
      PROVE  Transaction(o)'
  <2>1. CASE o = s
    <3>1. /\ done[s] = <<>> /\ done' = done
          /\ statements'[s] = st /\ batch'[s] = b
      BY <1>1, <1>2, <1>3 DEF Transactions, Transaction
    <3>2. <<>> \o st = st
      BY <1>4
    <3>3. done'[s] \o statements'[s] = Counting!Statements(batch'[s], clock)
      BY <3>1, <3>2 DEF st
    <3> QED
      BY <1>2, <1>3, <2>1, <3>1, <3>3 DEF Transaction
  <2>2. CASE o # s
    BY <1>1, <1>2, <1>3, <2>2 DEF Transactions, Transaction
  <2> QED
    BY <2>1, <2>2
<1>9. LocksApart'
  BY <1>1, <1>2 DEF LocksApart
<1> QED
  BY <1>7, <1>8, <1>9 DEF WorkerFits, Transactions

LEMMA HeadMoves ==
  ASSUME NEW V, NEW x \in Seq(V), NEW y \in Seq(V), y # <<>>
  PROVE  /\ Append(x, Head(y)) \in Seq(V) /\ Tail(y) \in Seq(V) /\ Head(y) \in V
         /\ Append(x, Head(y)) \o Tail(y) = x \o y
         /\ Len(Append(x, Head(y))) = Len(x) + 1 /\ Len(x) \in Nat
         /\ \A i \in 1..Len(x) : Append(x, Head(y))[i] = x[i]
         /\ Append(x, Head(y))[Len(x) + 1] = Head(y)
<1>1. /\ Head(y) \in V /\ Tail(y) \in Seq(V) /\ Len(y) \in Nat /\ Len(y) >= 1 /\ Head(y) = y[1]
      /\ Len(Tail(y)) = Len(y) - 1 /\ \A i \in 1..(Len(y) - 1) : Tail(y)[i] = y[i + 1]
  OBVIOUS
<1> DEFINE h == Head(y)  z == Tail(y)  a == Append(x, h)
<1> HIDE DEF h, z
<1>2. /\ a \in Seq(V) /\ Len(a) = Len(x) + 1 /\ Len(x) \in Nat
      /\ \A i \in 1..Len(x) : a[i] = x[i] /\ a[Len(x) + 1] = h
  BY <1>1 DEF h
<1>3. a[Len(x) + 1] = h
  BY <1>1 DEF h
<1> HIDE DEF a
<1>4. a \o z = x \o y
  <2>1. /\ a \o z \in Seq(V) /\ x \o y \in Seq(V) /\ Len(a \o z) = Len(x) + Len(y)
        /\ Len(x \o y) = Len(x) + Len(y)
    BY <1>1, <1>2 DEF z
  <2>2. ASSUME NEW i \in 1..(Len(x) + Len(y))
        PROVE  (a \o z)[i] = (x \o y)[i]
    <3>1. CASE i <= Len(x)
      <4>1. i \in 1..Len(x)
        BY <1>2, <3>1
      <4> QED
        BY <1>1, <1>2, <4>1 DEF z
    <3>2. CASE i = Len(x) + 1
      BY <1>1, <1>2, <1>3, <3>2 DEF h, z
    <3>3. CASE i > Len(x) + 1
      <4>1. i - (Len(x) + 1) \in 1..(Len(y) - 1) /\ i - Len(x) = (i - (Len(x) + 1)) + 1
        BY <1>1, <1>2, <3>3
      <4>2. (a \o z)[i] = z[i - (Len(x) + 1)]
        BY <1>1, <1>2, <3>3, <4>1 DEF z
      <4>3. (x \o y)[i] = y[i - Len(x)]
        BY <1>1, <1>2, <3>3, <4>1
      <4> QED
        BY <1>1, <4>1, <4>2, <4>3 DEF z
    <3>4. i <= Len(x) \/ i = Len(x) + 1 \/ i > Len(x) + 1
      BY <1>1, <1>2
    <3> QED
      BY <3>1, <3>2, <3>3, <3>4
  <2>3. \A u, v \in Seq(V) : Len(u) = Len(v) /\ (\A i \in 1..Len(v) : u[i] = v[i]) => u = v
    OBVIOUS
  <2> QED
    BY <2>1, <2>2, <2>3
<1> QED
  BY <1>1, <1>2, <1>3, <1>4 DEF a, h, z

LEMMA InsertFits ==
  ASSUME WorkerFits, NEW s \in StatServers, Counting!Insert(s)
  PROVE  WorkerFits'
<1>1. StatTypes /\ Transactions /\ LocksApart
  BY DEF WorkerFits
<1> DEFINE x == done[s]  y == statements[s]  a == Append(x, Head(y))  z == Tail(y)
<1>2. /\ y # <<>> /\ \A o \in StatServers : ~ Counting!Blocks(o, s)
      /\ done' = [done EXCEPT ![s] = a] /\ statements' = [statements EXCEPT ![s] = z]
      /\ UNCHANGED <<clock, channel, batch, table, figures, loads, sent, lost>>
  BY DEF Counting!Insert, Counting!reading
<1>3. /\ x \in Seq(Statement) /\ y \in Seq(Statement)
      /\ statements \in [StatServers -> Seq(Statement)] /\ done \in [StatServers -> Seq(Statement)]
  BY <1>1 DEF StatTypes
<1>4. /\ a \in Seq(Statement) /\ z \in Seq(Statement) /\ a \o z = x \o y
      /\ Len(a) = Len(x) + 1 /\ Len(x) \in Nat
      /\ \A i \in 1..Len(x) : a[i] = x[i]
      /\ a[Len(x) + 1] = Head(y)
  BY <1>2, <1>3, HeadMoves
<1>5. \A o \in StatServers : o # s => \A i \in 1..Len(done[o]) : done[o][i].row # Head(y).row
  <2>1. \A o \in StatServers : o # s => ~ \E i \in 1..Len(done[o]) : done[o][i].row = Head(y).row
    BY <1>1, <1>2, BlocksIs
  <2> QED
    BY <2>1
<1> HIDE DEF a, z
<1>6. StatTypes'
  <2>1. statements' \in [StatServers -> Seq(Statement)] /\ done' \in [StatServers -> Seq(Statement)]
    BY <1>2, <1>3, <1>4
  <2> QED
    BY <1>1, <1>2, <2>1 DEF StatTypes
<1>7. ASSUME NEW o \in StatServers
      PROVE  Transaction(o)'
  <2>1. CASE o = s
    <3>1. done'[s] = a /\ statements'[s] = z /\ batch' = batch
      BY <1>2, <1>3
    <3>2. batch[s] # <<>>
      BY <1>1, <1>2 DEF Transactions, Transaction
    <3>3. PICK t \in 0..StatClock : x \o y = Counting!Statements(batch[s], t)
      BY <1>1, <3>2 DEF Transactions, Transaction
    <3>4. done'[s] \o statements'[s] = Counting!Statements(batch'[s], t)
      BY <1>4, <3>1, <3>3
    <3> QED
      BY <2>1, <3>1, <3>2, <3>4 DEF Transaction
  <2>2. CASE o # s
    BY <1>1, <1>2, <1>3, <2>2 DEF Transactions, Transaction
  <2> QED
    BY <2>1, <2>2
<1>8. ASSUME NEW p \in StatServers, NEW o \in StatServers, p # o,
             NEW i \in 1..Len(done'[p]), NEW j \in 1..Len(done'[o])
      PROVE  done'[p][i].row # done'[o][j].row
  <2>1. done'[s] = a /\ \A w \in StatServers : w # s => done'[w] = done[w]
    BY <1>2, <1>3
  <2>2. \A n \in 1..Len(a) : n = Len(x) + 1 \/ n \in 1..Len(x)
    BY <1>4
  <2>3. CASE p # s /\ o # s
    BY <1>1, <1>8, <2>1, <2>3 DEF LocksApart
  <2>4. CASE p = s
    <3>1. o # s /\ done'[o] = done[o] /\ i \in 1..Len(a) /\ j \in 1..Len(done[o])
      BY <1>8, <2>1, <2>4
    <3>2. CASE i = Len(x) + 1
      BY <1>4, <1>5, <2>1, <2>4, <3>1, <3>2
    <3>3. CASE i \in 1..Len(x)
      <4>1. done[s][i].row # done[o][j].row
        BY <1>1, <3>1, <3>3 DEF LocksApart
      <4> QED
        BY <1>4, <2>1, <2>4, <3>1, <3>3, <4>1
    <3> QED
      BY <2>2, <3>1, <3>2, <3>3
  <2>5. CASE o = s
    <3>1. p # s /\ done'[p] = done[p] /\ j \in 1..Len(a) /\ i \in 1..Len(done[p])
      BY <1>8, <2>1, <2>5
    <3>2. CASE j = Len(x) + 1
      BY <1>4, <1>5, <2>1, <2>5, <3>1, <3>2
    <3>3. CASE j \in 1..Len(x)
      <4>1. done[p][i].row # done[s][j].row
        BY <1>1, <3>1, <3>3 DEF LocksApart
      <4> QED
        BY <1>4, <2>1, <2>5, <3>1, <3>3, <4>1
    <3> QED
      BY <2>2, <3>1, <3>2, <3>3
  <2> QED
    BY <2>3, <2>4, <2>5
<1>9. LocksApart'
  BY <1>8 DEF LocksApart
<1> QED
  BY <1>6, <1>7, <1>9 DEF WorkerFits, Transactions

\* The end of a transaction.
LEMMA ReleaseFits ==
  ASSUME WorkerFits, NEW s \in StatServers, Counting!Release(s)
  PROVE  /\ Transactions' /\ LocksApart'
         /\ batch' \in [StatServers -> Sequences] /\ \A o \in StatServers : Len(batch'[o]) <= StatBatch
         /\ statements' \in [StatServers -> Seq(Statement)] /\ done' \in [StatServers -> Seq(Statement)]
         /\ batch'[s] = <<>> /\ \A o \in StatServers : o # s => batch'[o] = batch[o]
<1>1. StatTypes /\ Transactions /\ LocksApart
  BY DEF WorkerFits
<1>2. /\ batch' = [batch EXCEPT ![s] = <<>>] /\ statements' = [statements EXCEPT ![s] = <<>>]
      /\ done' = [done EXCEPT ![s] = <<>>]
  BY DEF Counting!Release
<1>3. /\ batch \in [StatServers -> Sequences] /\ \A o \in StatServers : Len(batch[o]) <= StatBatch
      /\ statements \in [StatServers -> Seq(Statement)] /\ done \in [StatServers -> Seq(Statement)]
  BY <1>1 DEF StatTypes
<1>4. /\ batch'[s] = <<>> /\ statements'[s] = <<>> /\ done'[s] = <<>>
      /\ \A o \in StatServers : o # s => /\ batch'[o] = batch[o] /\ done'[o] = done[o]
                                         /\ statements'[o] = statements[o]
  BY <1>2, <1>3
<1>5. /\ batch' \in [StatServers -> Sequences] /\ statements' \in [StatServers -> Seq(Statement)]
      /\ done' \in [StatServers -> Seq(Statement)]
  BY <1>2, <1>3, NoStatements
<1>6. \A o \in StatServers : Len(batch'[o]) <= StatBatch
  BY <1>3, <1>4, NoStatements, StatConstants
<1>7. Transactions'
  BY <1>1, <1>4 DEF Transactions, Transaction
<1>8. LocksApart'
  BY <1>1, <1>4, NoStatements DEF LocksApart
<1> QED
  BY <1>4, <1>5, <1>6, <1>7, <1>8

\* A batch that is committed is recorded.
LEMMA CommitIs ==
  ASSUME WorkerFits, NEW s \in StatServers, Counting!Commit(s)
  PROVE  /\ batch[s] \in Sequences /\ Counting!Release(s)
         /\ \E t \in 0..StatClock : Recorded(batch[s], t, table')
         /\ UNCHANGED <<clock, channel, figures, loads, sent, lost>>
<1>1. StatTypes /\ Transactions
  BY DEF WorkerFits
<1>2. /\ batch[s] # <<>> /\ statements[s] = <<>> /\ table' = Counting!Apply(done[s])
      /\ Counting!Release(s) /\ UNCHANGED <<clock, channel, figures, loads, sent, lost>>
  BY DEF Counting!Commit, Counting!reading
<1>3. batch[s] \in Sequences /\ done[s] \in Seq(Statement) /\ table \in Tables
  BY <1>1 DEF StatTypes
<1>4. PICK t \in 0..StatClock : done[s] \o <<>> = Counting!Statements(batch[s], t)
  BY <1>1, <1>2 DEF Transactions, Transaction
<1>5. done[s] \o <<>> = done[s]
  BY <1>3
<1>6. Orderly(done[s], batch[s], t, Groups)
  BY <1>3, <1>4, <1>5, StatementsOrderly DEF Sequences
<1>7. Recorded(batch[s], t, table')
  BY <1>2, <1>3, <1>6, BatchIsRecorded DEF Sequences
<1> QED
  BY <1>2, <1>3, <1>7

LEMMA CommitFits ==
  ASSUME WorkerFits, NEW s \in StatServers, Counting!Commit(s)
  PROVE  WorkerFits'
<1>1. /\ Counting!Release(s) /\ UNCHANGED <<clock, channel, figures, loads, sent, lost>>
      /\ \E t \in 0..StatClock : Recorded(batch[s], t, table')
  BY CommitIs
<1>2. table' \in Tables
  BY <1>1 DEF Recorded
<1>3. /\ Transactions' /\ LocksApart'
      /\ batch' \in [StatServers -> Sequences] /\ \A o \in StatServers : Len(batch'[o]) <= StatBatch
      /\ statements' \in [StatServers -> Seq(Statement)] /\ done' \in [StatServers -> Seq(Statement)]
  BY <1>1, ReleaseFits
<1>4. StatTypes'
  BY <1>1, <1>2, <1>3 DEF WorkerFits, StatTypes
<1> QED
  BY <1>3, <1>4 DEF WorkerFits

\* More is lost.
LEMMA LoseFits ==
  ASSUME StatTypes, NEW q \in Sequences, Counting!Lose(q)
  PROVE  /\ lost' \in [Counting!Events -> Nat]
         /\ \A e \in Counting!Events : lost'[e] = lost[e] + Counting!Of(q, e)
<1>1. lost' = [e \in Counting!Events |-> lost[e] + Counting!Of(q, e)]
  BY DEF Counting!Lose
<1>2. \A e : Counting!Of(q, e) \in Nat
  BY OfNone DEF Sequences
<1>3. \A e \in Counting!Events : lost[e] \in Nat
  BY DEF StatTypes
<1> QED
  BY <1>1, <1>2, <1>3

LEMMA FailFits ==
  ASSUME WorkerFits, NEW s \in StatServers, Counting!Fail(s)
  PROVE  WorkerFits'
<1>1. /\ Counting!Lose(batch[s]) /\ Counting!Release(s)
      /\ UNCHANGED <<clock, channel, table, figures, loads, sent>>
  BY DEF Counting!Fail, Counting!reading
<1>2. StatTypes /\ batch[s] \in Sequences
  BY DEF WorkerFits, StatTypes
<1>3. lost' \in [Counting!Events -> Nat]
  BY <1>1, <1>2, LoseFits
<1>4. /\ Transactions' /\ LocksApart'
      /\ batch' \in [StatServers -> Sequences] /\ \A o \in StatServers : Len(batch'[o]) <= StatBatch
      /\ statements' \in [StatServers -> Seq(Statement)] /\ done' \in [StatServers -> Seq(Statement)]
  BY <1>1, ReleaseFits
<1>5. StatTypes'
  BY <1>1, <1>2, <1>3, <1>4 DEF StatTypes
<1> QED
  BY <1>4, <1>5 DEF WorkerFits

LEMMA StopFits ==
  ASSUME WorkerFits, NEW s \in StatServers, Counting!Stop(s)
  PROVE  WorkerFits'
<1>1. /\ Counting!Lose(channel[s] \o batch[s]) /\ Counting!Release(s)
      /\ channel' = [channel EXCEPT ![s] = <<>>]
      /\ UNCHANGED <<clock, table, figures, loads, sent>>
  BY DEF Counting!Stop, Counting!reading
<1>2. StatTypes /\ channel[s] \in Sequences /\ batch[s] \in Sequences
      /\ channel \in [StatServers -> Sequences] /\ \A o \in StatServers : Len(channel[o]) <= StatQueue
  BY DEF WorkerFits, StatTypes
<1>3. lost' \in [Counting!Events -> Nat]
  <2>1. channel[s] \o batch[s] \in Sequences
    BY <1>2 DEF Sequences
  <2> QED
    BY <1>1, <1>2, <2>1, LoseFits
<1>4. /\ Transactions' /\ LocksApart'
      /\ batch' \in [StatServers -> Sequences] /\ \A o \in StatServers : Len(batch'[o]) <= StatBatch
      /\ statements' \in [StatServers -> Seq(Statement)] /\ done' \in [StatServers -> Seq(Statement)]
  BY <1>1, ReleaseFits
<1>5. channel' \in [StatServers -> Sequences] /\ \A o \in StatServers : Len(channel'[o]) <= StatQueue
  BY <1>1, <1>2, NoStatements, StatConstants
<1>6. StatTypes'
  BY <1>1, <1>2, <1>3, <1>4, <1>5 DEF StatTypes
<1> QED
  BY <1>4, <1>6 DEF WorkerFits

\* Who reads changes nothing that a worker relies on, nor does the clock.
Aside == Counting!StartLoad \/ Counting!Ask \/ Counting!Abandon \/ Counting!Tick \/ UNCHANGED statVars

LEMMA AsideIs ==
  ASSUME WorkerFits, Aside
  PROVE  /\ UNCHANGED <<channel, batch, statements, done, table, sent, lost>>
         /\ clock' \in 0..StatClock /\ loads' \in 0..StatLoads
<1>1. clock \in 0..StatClock /\ loads \in 0..StatLoads /\ StatClock \in Nat /\ StatLoads \in Nat
  BY StatConstants DEF WorkerFits, StatTypes
<1>2. CASE Counting!StartLoad
  BY <1>1, <1>2 DEF Counting!StartLoad, Counting!writer
<1>3. CASE Counting!Ask
  BY <1>1, <1>3 DEF Counting!Ask, Counting!writer
<1>4. CASE Counting!Abandon
  BY <1>1, <1>4 DEF Counting!Abandon, Counting!writer
<1>5. CASE Counting!Tick
  BY <1>1, <1>5 DEF Counting!Tick, Counting!writer, Counting!reading
<1>6. CASE UNCHANGED statVars
  BY <1>1, <1>6 DEF statVars
<1> QED
  BY <1>2, <1>3, <1>4, <1>5, <1>6 DEF Aside

LEMMA AsideFits ==
  ASSUME WorkerFits, Aside
  PROVE  WorkerFits'
<1>1. /\ UNCHANGED <<channel, batch, statements, done, table, sent, lost>>
      /\ clock' \in 0..StatClock /\ loads' \in 0..StatLoads
  BY AsideIs
<1>2. StatTypes'
  BY <1>1 DEF WorkerFits, StatTypes
<1>3. Transactions'
  BY <1>1 DEF WorkerFits, Transactions, Transaction
<1>4. LocksApart'
  BY <1>1 DEF WorkerFits, LocksApart
<1> QED
  BY <1>2, <1>3, <1>4 DEF WorkerFits

\* The steps, without the one that rests.
StatSteps ==
  \/ \E s \in StatServers : \/ \E e \in Counting!Events : Counting!Record(s, e)
                            \/ Counting!Take(s) \/ Counting!Insert(s) \/ Counting!Commit(s)
                            \/ Counting!Fail(s) \/ Counting!Stop(s)
  \/ Aside

LEMMA StatStepsAre == Counting!Next \/ UNCHANGED statVars => StatSteps
<1>1. Counting!Rest => UNCHANGED statVars
  BY DEF Counting!Rest, Counting!vars, statVars
<1> QED
  BY <1>1 DEF Counting!Next, StatSteps, Aside

LEMMA WorkersFit ==
  ASSUME WorkerFits, StatSteps
  PROVE  WorkerFits'
BY RecordFits, TakeFits, InsertFits, CommitFits, FailFits, StopFits, AsideFits DEF StatSteps

-----------------------------------------------------------------------------
(* Statistics: the accounts *)

\* What of an event is not recorded, or was lost.
Due(e) == Cardinality(Wait(Pend, e)) + lost[e]

LEMMA DueMoves ==
  ASSUME WorkerFits, WorkerFits', NEW s \in StatServers, NEW e \in Counting!Events,
         \A o \in StatServers : o # s => batch'[o] = batch[o] /\ channel'[o] = channel[o]
  PROVE  /\ Due(e) \in Nat /\ Due(e)' \in Nat
         /\ Due(e)' + Counting!Of(batch[s], e) + Counting!Of(channel[s], e) + lost[e]
              = Due(e) + Counting!Of(batch'[s], e) + Counting!Of(channel'[s], e) + lost'[e]
         /\ Counting!Of(batch[s], e) \in Nat /\ Counting!Of(channel[s], e) \in Nat
         /\ Counting!Of(batch'[s], e) \in Nat /\ Counting!Of(channel'[s], e) \in Nat
         /\ lost[e] \in Nat /\ lost'[e] \in Nat
<1> DEFINE p == [o \in StatServers |-> batch[o] \o channel[o]]
           q == [o \in StatServers |-> batch'[o] \o channel'[o]]
<1>1. /\ \A o \in StatServers : /\ batch[o] \in Sequences /\ channel[o] \in Sequences
                                /\ Len(batch[o]) <= StatBatch /\ Len(channel[o]) <= StatQueue
      /\ lost[e] \in Nat
  BY DEF WorkerFits, StatTypes
<1>2. /\ \A o \in StatServers : /\ batch'[o] \in Sequences /\ channel'[o] \in Sequences
                                /\ Len(batch'[o]) <= StatBatch /\ Len(channel'[o]) <= StatQueue
      /\ lost'[e] \in Nat
  BY DEF WorkerFits, StatTypes
<1>3. \A u, v \in Sequences : Len(u) <= StatBatch /\ Len(v) <= StatQueue =>
        u \o v \in Sequences /\ Len(u \o v) <= Room
  BY StatConstants DEF Sequences, Room
<1>4. p \in [StatServers -> Sequences] /\ q \in [StatServers -> Sequences]
      /\ Len(p[s]) <= Room /\ Len(q[s]) <= Room
  BY <1>1, <1>2, <1>3
<1>5. \A o \in StatServers : o # s => p[o] = q[o]
  OBVIOUS
<1>6. p[s] = batch[s] \o channel[s] /\ q[s] = batch'[s] \o channel'[s]
  OBVIOUS
<1>7. Pend = p /\ Pend' = q
  BY DEF Pend
<1> HIDE DEF p, q
<1>8. Cardinality(Wait(p, e)) + Counting!Of(q[s], e) = Cardinality(Wait(q, e)) + Counting!Of(p[s], e)
  BY <1>4, <1>5, WaitingMoves DEF Sequences
<1>9. /\ Counting!Of(p[s], e) = Counting!Of(batch[s], e) + Counting!Of(channel[s], e)
      /\ Counting!Of(q[s], e) = Counting!Of(batch'[s], e) + Counting!Of(channel'[s], e)
  BY <1>1, <1>2, <1>6, OfBoth DEF Sequences
<1>10. /\ Counting!Of(batch[s], e) \in Nat /\ Counting!Of(channel[s], e) \in Nat
       /\ Counting!Of(batch'[s], e) \in Nat /\ Counting!Of(channel'[s], e) \in Nat
  BY <1>1, <1>2, OfNone DEF Sequences
<1>11. Cardinality(Wait(p, e)) \in Nat /\ Cardinality(Wait(q, e)) \in Nat
  BY WaitsFinite
<1>12. Due(e) = Cardinality(Wait(p, e)) + lost[e]
  BY <1>7 DEF Due
<1>13. Due(e)' = Cardinality(Wait(q, e)) + lost'[e]
  BY <1>7 DEF Due
<1>14. lost[e] \in Nat /\ lost'[e] \in Nat
  BY <1>1, <1>2
<1> DEFINE cp == Cardinality(Wait(p, e))
           cq == Cardinality(Wait(q, e))
           bo == Counting!Of(batch[s], e)
           co == Counting!Of(channel[s], e)
           bn == Counting!Of(batch'[s], e)
           cn == Counting!Of(channel'[s], e)
           lo == lost[e]
           ln == lost'[e]
<1>15. cp + (bn + cn) = cq + (bo + co)
  BY <1>8, <1>9
<1>16. cp \in Nat /\ cq \in Nat /\ bo \in Nat /\ co \in Nat /\ bn \in Nat /\ cn \in Nat
       /\ lo \in Nat /\ ln \in Nat /\ Due(e) = cp + lo /\ Due(e)' = cq + ln
  BY <1>10, <1>11, <1>12, <1>13, <1>14
<1> HIDE DEF cp, cq, bo, co, bn, cn, lo, ln
<1>17. /\ Due(e) \in Nat /\ Due(e)' \in Nat
       /\ Due(e)' + bo + co + lo = Due(e) + bn + cn + ln
  BY <1>15, <1>16
<1> QED
  BY <1>10, <1>14, <1>17 DEF bo, co, bn, cn, lo, ln

LEMMA DueIsNat ==
  ASSUME WorkerFits, NEW e \in Counting!Events
  PROVE  Due(e) \in Nat /\ sent[e] \in Nat
<1>1. lost[e] \in Nat /\ sent[e] \in Nat
  BY DEF WorkerFits, StatTypes
<1> QED
  BY <1>1, WaitsFinite DEF Due

OfEmpty == \A e : Counting!Of(<<>>, e) = 0
LEMMA NothingOf == OfEmpty
<1>1. <<>> \in Sequences
  BY NoStatements
<1>2. ASSUME NEW e
      PROVE  Counting!Of(<<>>, e) = 0
  <2> DEFINE z == <<>>
  <2>1. z \in Seq(Counting!Events) /\ DOMAIN z = {}
    BY <1>1 DEF Sequences
  <2> HIDE DEF z
  <2>2. Counting!Of(z, e) = 0 <=> \A n \in DOMAIN z : z[n] # e
    BY <2>1, OfNone
  <2>3. Counting!Of(z, e) = 0
    BY <2>1, <2>2
  <2> QED
    BY <2>3 DEF z
<1> QED
  BY <1>2 DEF OfEmpty

\* An event that happens is one more that is due.
LEMMA RecordDue ==
  ASSUME WorkerFits, NEW s \in StatServers, NEW x \in Counting!Events, Counting!Record(s, x),
         NEW e \in Counting!Events
  PROVE  Due(e)' = Due(e) + (IF x = e THEN 1 ELSE 0) /\ sent'[e] = sent[e] + (IF x = e THEN 1 ELSE 0)
<1>1. /\ sent' = [sent EXCEPT ![x] = @ + 1] /\ batch' = batch
      /\ \/ channel' = [channel EXCEPT ![s] = Append(@, x)] /\ lost' = lost
         \/ channel' = channel /\ Counting!Lose(<<x>>)
  BY DEF Counting!Record, Counting!writer
<1>2. WorkerFits'
  BY RecordFits
<1>3. /\ channel \in [StatServers -> Sequences] /\ batch \in [StatServers -> Sequences]
      /\ sent \in [Counting!Events -> Nat] /\ <<x>> \in Sequences /\ StatTypes
  BY DEF WorkerFits, StatTypes, Sequences
<1>4. \A o \in StatServers : o # s => batch'[o] = batch[o] /\ channel'[o] = channel[o]
  BY <1>1, <1>3
<1>5. /\ Due(e) \in Nat /\ Due(e)' \in Nat
      /\ Due(e)' + Counting!Of(batch[s], e) + Counting!Of(channel[s], e) + lost[e]
           = Due(e) + Counting!Of(batch'[s], e) + Counting!Of(channel'[s], e) + lost'[e]
      /\ Counting!Of(batch[s], e) \in Nat /\ Counting!Of(channel[s], e) \in Nat
      /\ Counting!Of(batch'[s], e) \in Nat /\ Counting!Of(channel'[s], e) \in Nat
      /\ lost[e] \in Nat /\ lost'[e] \in Nat
  BY <1>2, <1>4, DueMoves
<1>6. Counting!Of(<<x>>, e) = IF x = e THEN 1 ELSE 0
  BY OfOne
<1>7. sent'[e] = sent[e] + (IF x = e THEN 1 ELSE 0)
  <2>1. sent[e] \in Nat
    BY <1>3
  <2> QED
    BY <1>1, <1>3, <2>1
<1>8. CASE channel' = [channel EXCEPT ![s] = Append(@, x)] /\ lost' = lost
  <2>1. channel[s] \in Sequences /\ channel'[s] = channel[s] \o <<x>>
    <3>1. channel'[s] = Append(channel[s], x) /\ channel[s] \in Sequences
      BY <1>3, <1>8
    <3>2. \A c \in Sequences : Append(c, x) = c \o <<x>>
      BY DEF Sequences
    <3> QED
      BY <3>1, <3>2
  <2>2. Counting!Of(channel'[s], e) = Counting!Of(channel[s], e) + Counting!Of(<<x>>, e)
    <3> DEFINE z == <<x>>
    <3>1. z \in Sequences /\ channel'[s] = channel[s] \o z
      BY <1>3, <2>1
    <3> HIDE DEF z
    <3>2. Counting!Of(channel[s] \o z, e) = Counting!Of(channel[s], e) + Counting!Of(z, e)
      BY <2>1, <3>1, OfBoth DEF Sequences
    <3> QED
      BY <3>1, <3>2 DEF z
  <2> QED
    BY <1>1, <1>5, <1>6, <1>7, <1>8, <2>2
<1>9. CASE channel' = channel /\ Counting!Lose(<<x>>)
  <2>1. lost'[e] = lost[e] + Counting!Of(<<x>>, e)
    BY <1>3, <1>9, LoseFits
  <2> QED
    BY <1>1, <1>5, <1>6, <1>7, <1>9, <2>1
<1> QED
  BY <1>1, <1>8, <1>9

LEMMA TakeDue ==
  ASSUME WorkerFits, NEW s \in StatServers, Counting!Take(s), NEW e \in Counting!Events
  PROVE  Due(e)' = Due(e)
<1>1. /\ batch[s] = <<>> /\ batch'[s] \in Sequences /\ channel'[s] \in Sequences
      /\ channel[s] = batch'[s] \o channel'[s]
      /\ batch' = [batch EXCEPT ![s] = batch'[s]] /\ channel' = [channel EXCEPT ![s] = channel'[s]]
      /\ lost' = lost
  BY TakeIs DEF WorkerFits
<1>2. WorkerFits'
  BY TakeFits
<1>3. channel \in [StatServers -> Sequences] /\ batch \in [StatServers -> Sequences]
  BY DEF WorkerFits, StatTypes
<1>4. \A o \in StatServers : o # s => batch'[o] = batch[o] /\ channel'[o] = channel[o]
  BY <1>1, <1>3
<1>5. /\ Due(e) \in Nat /\ Due(e)' \in Nat
      /\ Due(e)' + Counting!Of(batch[s], e) + Counting!Of(channel[s], e) + lost[e]
           = Due(e) + Counting!Of(batch'[s], e) + Counting!Of(channel'[s], e) + lost'[e]
      /\ Counting!Of(batch[s], e) \in Nat /\ Counting!Of(channel[s], e) \in Nat
      /\ Counting!Of(batch'[s], e) \in Nat /\ Counting!Of(channel'[s], e) \in Nat
      /\ lost[e] \in Nat /\ lost'[e] \in Nat
  BY <1>2, <1>4, DueMoves
<1>6. Counting!Of(channel[s], e) = Counting!Of(batch'[s], e) + Counting!Of(channel'[s], e)
  BY <1>1, OfBoth DEF Sequences
<1>7. Counting!Of(batch[s], e) = 0
  BY <1>1, NothingOf DEF OfEmpty
<1> QED
  BY <1>1, <1>5, <1>6, <1>7

\* A batch that ends is due no longer, or lost.
LEMMA EndDue ==
  ASSUME WorkerFits, WorkerFits', NEW s \in StatServers, Counting!Release(s), NEW e \in Counting!Events,
         \A o \in StatServers : o # s => channel'[o] = channel[o]
  PROVE  /\ channel' = channel /\ lost' = lost => Due(e)' + Counting!Of(batch[s], e) = Due(e)
         /\ channel' = channel /\ Counting!Lose(batch[s]) => Due(e)' = Due(e)
         /\ channel'[s] = <<>> /\ Counting!Lose(channel[s] \o batch[s]) => Due(e)' = Due(e)
<1>1. batch'[s] = <<>> /\ \A o \in StatServers : o # s => batch'[o] = batch[o]
  BY ReleaseFits
<1>2. /\ Due(e) \in Nat /\ Due(e)' \in Nat
      /\ Due(e)' + Counting!Of(batch[s], e) + Counting!Of(channel[s], e) + lost[e]
           = Due(e) + Counting!Of(batch'[s], e) + Counting!Of(channel'[s], e) + lost'[e]
      /\ Counting!Of(batch[s], e) \in Nat /\ Counting!Of(channel[s], e) \in Nat
      /\ Counting!Of(batch'[s], e) \in Nat /\ Counting!Of(channel'[s], e) \in Nat
      /\ lost[e] \in Nat /\ lost'[e] \in Nat
  BY <1>1, DueMoves
<1>3. Counting!Of(batch'[s], e) = 0
  BY <1>1, NothingOf DEF OfEmpty
<1>4. StatTypes /\ batch[s] \in Sequences /\ channel[s] \in Sequences
  BY DEF WorkerFits, StatTypes
<1>5. ASSUME channel' = channel, lost' = lost
      PROVE  Due(e)' + Counting!Of(batch[s], e) = Due(e)
  BY <1>2, <1>3, <1>5
<1>6. ASSUME channel' = channel, Counting!Lose(batch[s])
      PROVE  Due(e)' = Due(e)
  <2>1. lost'[e] = lost[e] + Counting!Of(batch[s], e)
    BY <1>4, <1>6, LoseFits
  <2>2. channel'[s] = channel[s]
    BY <1>6
  <2>3. Counting!Of(channel'[s], e) = Counting!Of(channel[s], e)
    BY <2>2
  <2> QED
    BY <1>2, <1>3, <2>1, <2>3
<1>7. ASSUME channel'[s] = <<>>, Counting!Lose(channel[s] \o batch[s])
      PROVE  Due(e)' = Due(e)
  <2>1. channel[s] \o batch[s] \in Sequences
    BY <1>4 DEF Sequences
  <2>2. lost'[e] = lost[e] + Counting!Of(channel[s] \o batch[s], e)
    BY <1>4, <1>7, <2>1, LoseFits
  <2>3. Counting!Of(channel[s] \o batch[s], e) = Counting!Of(channel[s], e) + Counting!Of(batch[s], e)
    BY <1>4, OfBoth DEF Sequences
  <2>4. Counting!Of(channel'[s], e) = 0
    BY <1>7, NothingOf DEF OfEmpty
  <2> QED
    BY <1>2, <1>3, <2>2, <2>3, <2>4
<1> QED
  BY <1>5, <1>6, <1>7

LEMMA BucketFits ==
  ASSUME NEW p \in {"Hour", "Day"}, NEW t \in 0..StatClock
  PROVE  Counting!Bucket(p, t) \in 0..StatClock
<1> DEFINE x == Counting!Bucket(p, t)  y == Counting!Bucket(p, StatClock)
<1>1. y \in 0..StatClock /\ x \in 0..y
  BY BucketsFit
<1> HIDE DEF x, y
<1>2. x \in 0..StatClock
  BY <1>1, StatConstants
<1> QED
  BY <1>2 DEF x

\* A recorded batch, row by row.
RowsOf(b, t, new) ==
  \A p \in {"Hour", "Day"}, n \in 0..StatClock :
    /\ \A k \in CountedKinds :
         /\ n = Counting!Bucket(p, t) => new[<<p, k, n>>] = table[<<p, k, n>>] + Counting!Of(b, k)
         /\ n # Counting!Bucket(p, t) => new[<<p, k, n>>] = table[<<p, k, n>>]
    /\ \A m \in StatMembers :
         m \in new[<<p, "Inbox", n>>]
           <=> m \in table[<<p, "Inbox", n>>] \/ (n = Counting!Bucket(p, t) /\ Counting!Of(b, m) # 0)

LEMMA RowsRecorded ==
  ASSUME NEW b \in Sequences, NEW t \in 0..StatClock, table \in Tables, NEW new, Recorded(b, t, new)
  PROVE  RowsOf(b, t, new)
<1> SUFFICES ASSUME NEW p \in {"Hour", "Day"}, NEW n \in 0..StatClock
             PROVE  /\ \A k \in CountedKinds :
                         /\ n = Counting!Bucket(p, t) => new[<<p, k, n>>] = table[<<p, k, n>>] + Counting!Of(b, k)
                         /\ n # Counting!Bucket(p, t) => new[<<p, k, n>>] = table[<<p, k, n>>]
                    /\ \A m \in StatMembers :
                         m \in new[<<p, "Inbox", n>>]
                           <=> \/ m \in table[<<p, "Inbox", n>>]
                               \/ n = Counting!Bucket(p, t) /\ Counting!Of(b, m) # 0
  BY Zenon DEF RowsOf
<1> DEFINE h == Counting!Bucket(p, t)
<1>1. ASSUME NEW k \in Counting!Kinds
      PROVE  LET r == <<p, k, n>>
             IN r \in Counting!Rows /\ r[2] = k /\ RowAt(Group(r), t) = <<p, k, h>>
  BY RowsAre DEF RowAt, Group
<1> HIDE DEF h
<1>2. ASSUME NEW k \in CountedKinds
      PROVE  /\ n = h => new[<<p, k, n>>] = table[<<p, k, n>>] + Counting!Of(b, k)
             /\ n # h => new[<<p, k, n>>] = table[<<p, k, n>>]
  <2> DEFINE r == <<p, k, n>>
  <2>1. k \in Counting!Kinds /\ k # "Inbox"
    BY KindsAre
  <2>2. r \in Counting!Rows /\ r[2] = k /\ RowAt(Group(r), t) = <<p, k, h>>
    BY <1>1, <2>1
  <2>3. r = <<p, k, h>> <=> n = h
    OBVIOUS
  <2> HIDE DEF r
  <2>4. n = h => new[r] = table[r] + Counting!Of(b, k)
    BY <2>1, <2>2, <2>3 DEF Recorded
  <2>5. n # h => new[r] = table[r]
    BY <2>2, <2>3 DEF Recorded
  <2> QED
    BY <2>4, <2>5 DEF r
<1>3. ASSUME NEW m \in StatMembers
      PROVE  m \in new[<<p, "Inbox", n>>]
               <=> m \in table[<<p, "Inbox", n>>] \/ (n = h /\ Counting!Of(b, m) # 0)
  <2> DEFINE r == <<p, "Inbox", n>>
  <2>1. "Inbox" \in Counting!Kinds
    BY KindsAre
  <2>2. r \in Counting!Rows /\ r[2] = "Inbox" /\ RowAt(Group(r), t) = <<p, "Inbox", h>>
    BY <1>1, <2>1
  <2>3. r = <<p, "Inbox", h>> <=> n = h
    OBVIOUS
  <2> HIDE DEF r
  <2>4. CASE n = h
    <3>1. m \in new[r] <=> m \in table[r] \/ Counting!Of(b, m) # 0
      BY <2>2, <2>3, <2>4 DEF Recorded
    <3> QED
      BY <2>4, <3>1 DEF r
  <2>5. CASE n # h
    <3>1. new[r] = table[r]
      BY <2>2, <2>3, <2>5 DEF Recorded
    <3> QED
      BY <2>5, <3>1 DEF r
  <2> QED
    BY <2>4, <2>5
<1> QED
  BY <1>2, <1>3 DEF h

LEMMA RecordedGrows ==
  ASSUME NEW b \in Sequences, NEW t \in 0..StatClock, table \in Tables, NEW new, Recorded(b, t, new)
  PROVE  Typed(table) /\ Typed(new) /\ Grew(table, new)
<1>1. Typed(table) /\ Typed(new)
  BY DEF Tables, Recorded
<1>3. RowsOf(b, t, new)
  BY RowsRecorded
<1>2. ASSUME NEW r \in Counting!Rows
      PROVE  Counting!Within(r[2], table[r], new[r])
  <2>1. /\ r = <<r[1], r[2], r[3]>> /\ r[1] \in {"Hour", "Day"} /\ r[2] \in Counting!Kinds
        /\ r[3] \in 0..StatClock
    BY RowsAre
  <2>2. CASE r[2] = "Inbox"
    <3>1. table[r] \in SUBSET StatMembers /\ new[r] \in SUBSET StatMembers
      BY <1>1, <2>2 DEF Typed, Holds
    <3>2. \A m \in StatMembers : m \in table[r] => m \in new[r]
      BY <1>3, <2>1, <2>2 DEF RowsOf
    <3> QED
      BY <2>2, <3>1, <3>2 DEF Counting!Within
  <2>3. CASE r[2] # "Inbox"
    <3>1. table[r] \in Nat /\ new[r] \in Nat
      BY <1>1, <2>3 DEF Typed, Holds
    <3>2. r[2] \in CountedKinds
      BY <2>1, <2>3, KindsAre
    <3> DEFINE p == r[1]  k == r[2]  n == r[3]
    <3>6. p \in {"Hour", "Day"} /\ n \in 0..StatClock /\ k \in CountedKinds /\ r = <<p, k, n>>
      BY <2>1, <3>2
    <3> HIDE DEF p, k, n
    <3>7. new[r] = table[r] \/ new[r] = table[r] + Counting!Of(b, r[2])
      <4>1. new[<<p, k, n>>] = table[<<p, k, n>>] \/ new[<<p, k, n>>] = table[<<p, k, n>>] + Counting!Of(b, k)
        BY <1>3, <3>6 DEF RowsOf
      <4>2. r = <<p, k, n>> /\ r[2] = k
        BY <3>6 DEF k
      <4> QED
        BY <4>1, <4>2
    <3>4. Counting!Of(b, r[2]) \in Nat
      BY OfNone DEF Sequences
    <3>5. table[r] <= new[r]
      BY <3>1, <3>4, <3>7
    <3> QED
      BY <2>3, <3>5 DEF Counting!Within
  <2> QED
    BY <2>2, <2>3
<1> QED
  BY <1>1, <1>2 DEF Grew

\* A day has what its hours have, after a batch too.
LEMMA DaysRecorded ==
  ASSUME NEW b \in Sequences, NEW t \in 0..StatClock, table \in Tables, NEW new, Recorded(b, t, new),
         DaysAgree(table)
  PROVE  DaysAgree(new)
<1> DEFINE H == Counting!Bucket("Hour", t)  D == Counting!Bucket("Day", t)
           top == Counting!Bucket("Day", StatClock)
<1>1. /\ H \in 0..StatClock /\ D \in 0..StatClock /\ top \in 0..StatClock /\ DayOf(H) = D
      /\ H \in 0..Counting!Bucket("Hour", StatClock)
      /\ \A d : HoursOf(d) \subseteq 0..Counting!Bucket("Hour", StatClock)
      /\ Counting!Bucket("Hour", StatClock) \in 0..StatClock
  <2>1. t \in Nat
    BY StatConstants
  <2> QED
    BY <2>1, BucketFits, BucketsFit, HourInDay DEF HoursOf
<1>2. \A d : H \in HoursOf(d) <=> d = D
  BY <1>1 DEF HoursOf
<1>3. Typed(table) /\ Typed(new)
  BY DEF Tables, Recorded
<1>5. /\ \A n \in 0..StatClock, k \in CountedKinds :
           /\ n = H => new[<<"Hour", k, n>>] = table[<<"Hour", k, n>>] + Counting!Of(b, k)
           /\ n # H => new[<<"Hour", k, n>>] = table[<<"Hour", k, n>>]
           /\ n = D => new[<<"Day", k, n>>] = table[<<"Day", k, n>>] + Counting!Of(b, k)
           /\ n # D => new[<<"Day", k, n>>] = table[<<"Day", k, n>>]
      /\ \A n \in 0..StatClock, m \in StatMembers :
           /\ m \in new[<<"Hour", "Inbox", n>>]
                <=> m \in table[<<"Hour", "Inbox", n>>] \/ (n = H /\ Counting!Of(b, m) # 0)
           /\ m \in new[<<"Day", "Inbox", n>>]
                <=> m \in table[<<"Day", "Inbox", n>>] \/ (n = D /\ Counting!Of(b, m) # 0)
  <2>1. RowsOf(b, t, new) /\ "Hour" \in {"Hour", "Day"} /\ "Day" \in {"Hour", "Day"}
    BY RowsRecorded
  <2> QED
    BY <2>1 DEF RowsOf
<1>6. \A d : HoursOf(d) \in SUBSET (0..StatClock)
  <2> DEFINE x == Counting!Bucket("Hour", StatClock)
  <2>1. x \in 0..StatClock /\ \A d : HoursOf(d) \subseteq 0..x
    BY <1>1
  <2> HIDE DEF x
  <2>2. 0..x \subseteq 0..StatClock
    BY <2>1, StatConstants
  <2> QED
    BY <2>1, <2>2
<1> HIDE DEF H, D, top
<1>7. ASSUME NEW d \in 0..top, NEW k \in CountedKinds
      PROVE  new[<<"Day", k, d>>] = Counting!Figure(k, In(new, "Hour", k, HoursOf(d)))
  <2> DEFINE x == Counting!Of(b, k)  S == HoursOf(d)
             old == Counting!Sum(In(table, "Hour", k, S))
  <2>1. d \in 0..StatClock /\ k # "Inbox" /\ k \in Counting!Kinds
    BY <1>1, StatConstants, KindsAre
  <2>2. x \in Nat
    BY OfNone DEF Sequences
  <2>3. S \in SUBSET (0..StatClock) /\ (H \in S <=> d = D)
    BY <1>2, <1>6
  <2>4. \A n \in 0..StatClock :
          /\ n = H => new[<<"Hour", k, n>>] = table[<<"Hour", k, n>>] + x
          /\ n # H => new[<<"Hour", k, n>>] = table[<<"Hour", k, n>>]
    BY <1>5
  <2>8. /\ d = D => new[<<"Day", k, d>>] = table[<<"Day", k, d>>] + x
        /\ d # D => new[<<"Day", k, d>>] = table[<<"Day", k, d>>]
    BY <1>5, <2>1
  <2> HIDE DEF x, S
  <2>5. /\ H \in S => Counting!Sum(In(new, "Hour", k, S)) = old + x
        /\ H \notin S => Counting!Sum(In(new, "Hour", k, S)) = old
    <3> DEFINE p == "Hour"
    <3>1. p \in {"Hour", "Day"} /\ Raised(table, new, p, k, H, x)
      BY <2>4 DEF Raised
    <3>2. H \in 0..StatClock /\ S \in SUBSET (0..StatClock)
      BY <1>1, <2>3
    <3> HIDE DEF p
    <3>3. /\ H \in S => Counting!Sum(In(new, p, k, S)) = Counting!Sum(In(table, p, k, S)) + x
          /\ H \notin S => Counting!Sum(In(new, p, k, S)) = Counting!Sum(In(table, p, k, S))
      BY <1>3, <2>2, <3>1, <3>2, RaisedSum
    <3> QED
      BY <3>3 DEF p
  <2>6. table[<<"Day", k, d>>] = Counting!Figure(k, In(table, "Hour", k, S))
    BY <2>1 DEF DaysAgree, S, top
  <2>7. table[<<"Day", k, d>>] = old
    BY <2>1, <2>6 DEF Counting!Figure
  <2>9. new[<<"Day", k, d>>] = Counting!Sum(In(new, "Hour", k, S))
    BY <2>3, <2>5, <2>7, <2>8
  <2> QED
    BY <2>1, <2>9 DEF Counting!Figure, S
<1>8. ASSUME NEW d \in 0..top
      PROVE  new[<<"Day", "Inbox", d>>] = Counting!Figure("Inbox", In(new, "Hour", "Inbox", HoursOf(d)))
  <2> DEFINE S == HoursOf(d)
             A == UNION {In(table, "Hour", "Inbox", S)[n] : n \in DOMAIN In(table, "Hour", "Inbox", S)}
             B == UNION {In(new, "Hour", "Inbox", S)[n] : n \in DOMAIN In(new, "Hour", "Inbox", S)}
  <2>1. /\ d \in 0..StatClock /\ "Inbox" \in Counting!Kinds
        /\ S \in SUBSET (0..StatClock) /\ (H \in S <=> d = D)
    BY <1>1, <1>2, <1>6, StatConstants, KindsAre
  <2>2. table[<<"Day", "Inbox", d>>] = A
    BY <2>1 DEF DaysAgree, Counting!Figure, top
  <2>3. /\ \A m : m \in A <=> \E n \in S : m \in table[<<"Hour", "Inbox", n>>]
        /\ \A m : m \in B <=> \E n \in S : m \in new[<<"Hour", "Inbox", n>>]
    BY DEF In
  <2>4. \A p \in {"Hour", "Day"}, n \in 0..StatClock : new[<<p, "Inbox", n>>] \in SUBSET StatMembers
    BY <1>3, <2>1, RowsAre DEF Typed, Holds
  <2> HIDE DEF A, B, S
  <2>5. ASSUME NEW m \in StatMembers
        PROVE  m \in new[<<"Day", "Inbox", d>>] <=> m \in B
    <3>1. m \in new[<<"Day", "Inbox", d>>]
            <=> (\E n \in S : m \in table[<<"Hour", "Inbox", n>>]) \/ (d = D /\ Counting!Of(b, m) # 0)
      BY <1>5, <2>1, <2>2, <2>3
    <3>2. \A n \in S : m \in new[<<"Hour", "Inbox", n>>]
            <=> m \in table[<<"Hour", "Inbox", n>>] \/ (n = H /\ Counting!Of(b, m) # 0)
      BY <1>5, <2>1
    <3>3. m \in B <=> \E n \in S : m \in table[<<"Hour", "Inbox", n>>] \/ (n = H /\ Counting!Of(b, m) # 0)
      BY <2>3, <3>2
    <3>4. (\E n \in S : n = H /\ Counting!Of(b, m) # 0) <=> (d = D /\ Counting!Of(b, m) # 0)
      BY <2>1
    <3> QED
      BY <3>1, <3>3, <3>4
  <2>6. \A m : m \in B => m \in StatMembers
    BY <2>1, <2>3, <2>4
  <2>7. new[<<"Day", "Inbox", d>>] \in SUBSET StatMembers
    BY <2>1, <2>4
  <2>8. new[<<"Day", "Inbox", d>>] = B
    BY <2>5, <2>6, <2>7
  <2> QED
    BY <2>8 DEF Counting!Figure, B, S
<1>9. ASSUME NEW d \in 0..top, NEW k \in Counting!Kinds
      PROVE  new[<<"Day", k, d>>] = Counting!Figure(k, In(new, "Hour", k, HoursOf(d)))
  <2>1. k \in CountedKinds \/ k = "Inbox"
    BY KindsAre
  <2> QED
    BY <1>7, <1>8, <2>1
<1> QED
  BY <1>9 DEF DaysAgree, top

\* What happened is recorded, or due.
HasRow(tab, m) == \E n \in 0..StatClock : m \in tab[<<"Hour", "Inbox", n>>]
CountOf(tab, k) == Counting!Sum(In(tab, "Hour", k, 0..StatClock))
Balanced(e) ==
  /\ e \in CountedKinds => CountOf(table, e) + Due(e) = sent[e]
  /\ e \in StatMembers => Due(e) <= sent[e] /\ (Due(e) < sent[e] <=> HasRow(table, e))
Balance == \A e \in Counting!Events : Balanced(e)

LEMMA CountIsNat ==
  ASSUME NEW tab, Typed(tab), NEW k \in CountedKinds
  PROVE  CountOf(tab, k) \in Nat
<1> DEFINE p == "Hour"  S == 0..StatClock
<1>1. p \in {"Hour", "Day"} /\ S \in SUBSET (0..StatClock)
  OBVIOUS
<1> HIDE DEF p, S
<1>2. Counting!Sum(In(tab, p, k, S)) \in Nat
  BY <1>1, InTable
<1> QED
  BY <1>2 DEF CountOf, p, S

LEMMA CommitBalance ==
  ASSUME WorkerFits, Balance, NEW s \in StatServers, Counting!Commit(s)
  PROVE  Balance'
<1> SUFFICES ASSUME NEW e \in Counting!Events
             PROVE  Balanced(e)'
  BY DEF Balance
<1>1. /\ batch[s] \in Sequences /\ Counting!Release(s)
      /\ UNCHANGED <<clock, channel, figures, loads, sent, lost>>
  BY CommitIs
<1>2. PICK t \in 0..StatClock : Recorded(batch[s], t, table')
  BY CommitIs
<1>3. WorkerFits' /\ table \in Tables
  BY CommitFits DEF WorkerFits, StatTypes
<1>4. Typed(table) /\ Typed(table')
  BY <1>1, <1>2, <1>3, RecordedGrows
<1>5. RowsOf(batch[s], t, table')
  BY <1>1, <1>2, <1>3, RowsRecorded
<1> DEFINE h == Counting!Bucket("Hour", t)
           x == Counting!Of(batch[s], e)
<1>6. h \in 0..StatClock
  BY BucketFits
<1>7. Due(e) \in Nat /\ sent[e] \in Nat
  BY DueIsNat
<1>8. Due(e)' \in Nat
  <2>1. ASSUME WorkerFits' PROVE Due(e)' \in Nat
    <3>1. lost'[e] \in Nat
      BY <2>1 DEF WorkerFits, StatTypes
    <3> DEFINE p == [o \in StatServers |-> batch'[o] \o channel'[o]]
    <3>2. Pend' = p
      BY DEF Pend
    <3> HIDE DEF p
    <3>3. Due(e)' = Cardinality(Wait(p, e)) + lost'[e]
      BY <3>2 DEF Due
    <3> QED
      BY <3>1, <3>3, WaitsFinite
  <2> QED
    BY <1>3, <2>1
<1>9. Due(e)' + x = Due(e)
  BY <1>1, <1>3, EndDue
<1>10. x \in Nat
  BY <1>1, OfNone DEF Sequences
<1>11. Balanced(e) /\ sent' = sent
  BY <1>1 DEF Balance
<1> HIDE DEF h, x
<1>12. ASSUME e \in CountedKinds
       PROVE  CountOf(table', e) + Due(e)' = sent[e]
  <2> DEFINE p == "Hour"  S == 0..StatClock
             old == CountOf(table, e)
             new == CountOf(table', e)
  <2>1. Raised(table, table', "Hour", e, h, x)
    BY <1>5, <1>12 DEF RowsOf, Raised, h, x
  <2>2. p \in {"Hour", "Day"} /\ S \in SUBSET (0..StatClock) /\ Raised(table, table', p, e, h, x) /\ h \in S
    BY <1>6, <2>1
  <2> HIDE DEF p, S
  <2>3. Counting!Sum(In(table', p, e, S)) = Counting!Sum(In(table, p, e, S)) + x
    BY <1>4, <1>6, <1>10, <1>12, <2>2, RaisedSum
  <2>4. new = old + x
    BY <2>3 DEF CountOf, p, S
  <2>5. old \in Nat /\ old + Due(e) = sent[e]
    BY <1>4, <1>11, <1>12, CountIsNat DEF Balanced
  <2> HIDE DEF old, new
  <2>6. new + Due(e)' = sent[e]
    BY <1>7, <1>8, <1>9, <1>10, <2>4, <2>5
  <2> QED
    BY <2>6 DEF new
<1>13. ASSUME e \in StatMembers
       PROVE  Due(e)' <= sent[e] /\ (Due(e)' < sent[e] <=> HasRow(table', e))
  <2>1. \A n \in 0..StatClock : e \in table'[<<"Hour", "Inbox", n>>]
          <=> e \in table[<<"Hour", "Inbox", n>>] \/ (n = h /\ x # 0)
    BY <1>5, <1>13 DEF RowsOf, h, x
  <2>2. HasRow(table', e) <=> HasRow(table, e) \/ x # 0
    BY <1>6, <2>1 DEF HasRow
  <2>3. Due(e) <= sent[e] /\ (Due(e) < sent[e] <=> HasRow(table, e))
    BY <1>11, <1>13 DEF Balanced
  <2> QED
    BY <1>7, <1>8, <1>9, <1>10, <2>2, <2>3
<1> QED
  BY <1>11, <1>12, <1>13 DEF Balanced, CountOf, HasRow

LEMMA RecordBalance ==
  ASSUME WorkerFits, Balance, NEW s \in StatServers, NEW x \in Counting!Events, Counting!Record(s, x)
  PROVE  Balance'
<1> SUFFICES ASSUME NEW e \in Counting!Events
             PROVE  Balanced(e)'
  BY DEF Balance
<1> DEFINE y == IF x = e THEN 1 ELSE 0
<1>1. Due(e)' = Due(e) + y /\ sent'[e] = sent[e] + y
  BY RecordDue
<1>2. Balanced(e) /\ table' = table /\ y \in Nat
  BY DEF Balance, Counting!Record
<1> HIDE DEF y
<1>3. Due(e) \in Nat /\ sent[e] \in Nat
  BY DueIsNat
<1>4. ASSUME e \in CountedKinds
      PROVE  CountOf(table, e) + Due(e)' = sent'[e]
  <2>1. CountOf(table, e) \in Nat /\ CountOf(table, e) + Due(e) = sent[e]
    <3>1. Typed(table)
      BY DEF WorkerFits, StatTypes, Tables
    <3> QED
      BY <1>2, <1>4, <3>1, CountIsNat DEF Balanced
  <2> QED
    BY <1>1, <1>2, <1>3, <2>1
<1>5. ASSUME e \in StatMembers
      PROVE  Due(e)' <= sent'[e] /\ (Due(e)' < sent'[e] <=> HasRow(table, e))
  <2>1. Due(e) <= sent[e] /\ (Due(e) < sent[e] <=> HasRow(table, e))
    BY <1>2, <1>5 DEF Balanced
  <2> QED
    BY <1>1, <1>2, <1>3, <2>1
<1> QED
  BY <1>2, <1>4, <1>5 DEF Balanced, CountOf, HasRow

\* A batch that is taken, or that fails, changes no account.
LEMMA OtherDue ==
  ASSUME WorkerFits, NEW s \in StatServers, NEW e \in Counting!Events,
         Counting!Take(s) \/ Counting!Insert(s) \/ Counting!Fail(s) \/ Counting!Stop(s)
  PROVE  Due(e)' = Due(e) /\ table' = table /\ sent' = sent
<1>1. CASE Counting!Take(s)
  BY <1>1, TakeDue DEF Counting!Take
<1>2. CASE Counting!Insert(s)
  <2>1. UNCHANGED <<channel, batch, table, sent, lost>>
    BY <1>2 DEF Counting!Insert
  <2>2. Pend' = Pend
    BY <2>1 DEF Pend
  <2> QED
    BY <2>1, <2>2 DEF Due
<1>3. CASE Counting!Fail(s)
  <2>1. /\ Counting!Lose(batch[s]) /\ Counting!Release(s)
        /\ UNCHANGED <<clock, channel, table, figures, loads, sent>>
    BY <1>3 DEF Counting!Fail, Counting!reading
  <2>2. WorkerFits'
    BY <1>3, FailFits
  <2> QED
    BY <2>1, <2>2, EndDue
<1>4. CASE Counting!Stop(s)
  <2>1. /\ Counting!Lose(channel[s] \o batch[s]) /\ Counting!Release(s)
        /\ channel' = [channel EXCEPT ![s] = <<>>]
        /\ UNCHANGED <<clock, table, figures, loads, sent>>
    BY <1>4 DEF Counting!Stop, Counting!reading
  <2>2. WorkerFits'
    BY <1>4, StopFits
  <2>3. channel'[s] = <<>> /\ \A o \in StatServers : o # s => channel'[o] = channel[o]
    <3>1. channel \in [StatServers -> Sequences]
      BY DEF WorkerFits, StatTypes
    <3> QED
      BY <2>1, <3>1
  <2> QED
    BY <2>1, <2>2, <2>3, EndDue
<1> QED
  BY <1>1, <1>2, <1>3, <1>4

\* The accounts are kept.
LEMMA BalanceKept ==
  ASSUME WorkerFits, Balance, StatSteps
  PROVE  Balance'
<1>1. ASSUME \A e \in Counting!Events : Due(e)' = Due(e), table' = table, sent' = sent
      PROVE  Balance'
  BY <1>1 DEF Balance, Balanced, CountOf, HasRow
<1>2. ASSUME NEW s \in StatServers,
             Counting!Take(s) \/ Counting!Insert(s) \/ Counting!Fail(s) \/ Counting!Stop(s)
      PROVE  Balance'
  <2>1. \A e \in Counting!Events : Due(e)' = Due(e)
    BY <1>2, OtherDue
  <2>2. table' = table /\ sent' = sent
    BY <1>2 DEF Counting!Take, Counting!Insert, Counting!Fail, Counting!Stop
  <2> QED
    BY <1>1, <2>1, <2>2
<1>3. CASE Aside
  <2>1. UNCHANGED <<channel, batch, table, sent, lost>>
    BY <1>3, AsideIs
  <2>2. Pend' = Pend
    BY <2>1 DEF Pend
  <2>3. \A e \in Counting!Events : Due(e)' = Due(e)
    BY <2>1, <2>2 DEF Due
  <2> QED
    BY <1>1, <2>1, <2>3
<1> QED
  BY <1>2, <1>3, RecordBalance, CommitBalance DEF StatSteps

\* The days agree with the hours, and no row shrinks, whoever writes.
LEMMA RowsKept ==
  ASSUME WorkerFits, DaysAgree(table), StatSteps
  PROVE  /\ Typed(table) /\ Typed(table') /\ DaysAgree(table')
         /\ table' = table \/ Grew(table, table')
<1>1. WorkerFits'
  BY WorkersFit
<1>2. Typed(table) /\ Typed(table')
  BY <1>1 DEF WorkerFits, StatTypes, Tables
<1>3. CASE \E s \in StatServers : Counting!Commit(s)
  <2>1. PICK s \in StatServers : Counting!Commit(s)
    BY <1>3
  <2>2. PICK t \in 0..StatClock : Recorded(batch[s], t, table')
    BY <2>1, CommitIs
  <2>3. batch[s] \in Sequences /\ table \in Tables
    BY <2>1, CommitIs DEF WorkerFits, StatTypes
  <2>4. Grew(table, table')
    BY <2>2, <2>3, RecordedGrows
  <2>5. DaysAgree(table')
    BY <2>2, <2>3, DaysRecorded
  <2> QED
    BY <1>2, <2>4, <2>5
<1>4. CASE ~(\E s \in StatServers : Counting!Commit(s))
  <2>1. table' = table
    BY <1>4, AsideIs DEF StatSteps, Counting!Record, Counting!Take, Counting!Insert, Counting!Fail,
      Counting!Stop
  <2> QED
    BY <1>2, <2>1
<1> QED
  BY <1>3, <1>4

\* The accounts add up to what CountedOnce and PeriodsAgree state.
LEMMA AccountsAddUp ==
  ASSUME WorkerFits, Balance
  PROVE  Counting!CountedOnce
<1> DEFINE hours(k) == Counting!Figure(k, Counting!Stored("Hour", k, 0..StatClock))
<1>1. \A e \in Counting!Events : /\ Cardinality(Wait(Pend, e)) \in Nat /\ lost[e] \in Nat /\ sent[e] \in Nat
                                 /\ Counting!Waiting(e) = Cardinality(Wait(Pend, e))
  BY WaitsFinite, WaitingIs DEF WorkerFits, StatTypes
<1>2. \A k : Counting!Stored("Hour", k, 0..StatClock) = In(table, "Hour", k, 0..StatClock)
  BY DEF Counting!Stored, In
<1>3. Typed(table)
  BY DEF WorkerFits, StatTypes, Tables
<1>4. ASSUME NEW k \in CountedKinds
      PROVE  hours(k) + Counting!Waiting(k) + lost[k] = sent[k]
  <2>1. k \in Counting!Events /\ k # "Inbox"
    BY KindsAre
  <2> DEFINE a == CountOf(table, k)  w == Cardinality(Wait(Pend, k))  l == lost[k]
  <2>2. a \in Nat /\ w \in Nat /\ l \in Nat /\ Due(k) = w + l /\ a + Due(k) = sent[k]
    BY <1>1, <1>3, <2>1, CountIsNat DEF Balance, Balanced, Due
  <2>3. hours(k) = a /\ Counting!Waiting(k) = w
    BY <1>1, <1>2, <2>1 DEF Counting!Figure, CountOf
  <2> HIDE DEF hours, a, w, l
  <2>4. a + w + l = sent[k]
    BY <2>2
  <2> QED
    BY <2>3, <2>4 DEF l
<1>5. ASSUME NEW m \in StatMembers
      PROVE  m \in hours("Inbox") <=> sent[m] > Counting!Waiting(m) + lost[m]
  <2>1. m \in Counting!Events
    BY KindsAre
  <2> DEFINE w == Cardinality(Wait(Pend, m))  l == lost[m]
  <2>2. /\ w \in Nat /\ l \in Nat /\ sent[m] \in Nat /\ Due(m) = w + l
        /\ Due(m) <= sent[m] /\ (Due(m) < sent[m] <=> HasRow(table, m))
    BY <1>1, <2>1 DEF Balance, Balanced, Due
  <2>3. Counting!Waiting(m) = w
    BY <1>1, <2>1
  <2> DEFINE f == In(table, "Hour", "Inbox", 0..StatClock)
  <2>4. DOMAIN f = 0..StatClock /\ \A n \in 0..StatClock : f[n] = table[<<"Hour", "Inbox", n>>]
    BY DEF In
  <2>5. hours("Inbox") = UNION {f[n] : n \in DOMAIN f}
    BY <1>2 DEF Counting!Figure
  <2> HIDE DEF f, hours
  <2>6. m \in hours("Inbox") <=> HasRow(table, m)
    BY <2>4, <2>5 DEF HasRow
  <2> HIDE DEF w, l
  <2>7. sent[m] > w + l <=> HasRow(table, m)
    BY <2>2
  <2> QED
    BY <2>3, <2>6, <2>7 DEF l
<1> QED
  BY <1>4, <1>5, KindsAre DEF Counting!CountedOnce

LEMMA DaysAddUp ==
  ASSUME DaysAgree(table)
  PROVE  Counting!PeriodsAgree
<1>1. ASSUME NEW d \in 0..Counting!Bucket("Day", StatClock), NEW k \in Counting!Kinds
      PROVE  table[<<"Day", k, d>>]
               = Counting!Figure(k, Counting!Stored("Hour", k,
                   {h \in 0..Counting!Bucket("Hour", StatClock) : (h * StatHour) \div StatDay = d}))
  <2>1. {h \in 0..Counting!Bucket("Hour", StatClock) : (h * StatHour) \div StatDay = d} = HoursOf(d)
    BY DEF HoursOf, DayOf
  <2>2. Counting!Stored("Hour", k, HoursOf(d)) = In(table, "Hour", k, HoursOf(d))
    BY DEF Counting!Stored, In
  <2> QED
    BY <2>1, <2>2 DEF DaysAgree
<1> QED
  BY <1>1 DEF Counting!PeriodsAgree

-----------------------------------------------------------------------------
(* Statistics: the plan of a load *)

Questions == [what : {"total", "series"}, period : {"Hour", "Day"}, kind : Counting!Kinds]
Turn(q) == (IF q.what = "series" THEN 2 ELSE 0) + (IF q.period = "Day" THEN 1 ELSE 0)
Asks(plan, R) ==
  /\ plan \in Seq(Questions)
  /\ \A i \in 1..Len(plan) : Turn(plan[i]) \in R
  /\ \A q \in Questions : Turn(q) \in R => \E i \in 1..Len(plan) : plan[i] = q
  /\ \A i, j \in 1..Len(plan) : i < j => Turn(plan[i]) <= Turn(plan[j])

LEMMA AsksBoth ==
  ASSUME NEW x, NEW y, NEW R \in SUBSET Nat, NEW T \in SUBSET Nat, Asks(x, R), Asks(y, T),
         \A r \in R, t \in T : r < t
  PROVE  Asks(x \o y, R \cup T)
<1> DEFINE z == x \o y
<1>1. /\ x \in Seq(Questions) /\ \A i \in 1..Len(x) : Turn(x[i]) \in R
      /\ \A q \in Questions : Turn(q) \in R => \E i \in 1..Len(x) : x[i] = q
      /\ \A i, j \in 1..Len(x) : i < j => Turn(x[i]) <= Turn(x[j])
  BY DEF Asks
<1>2. /\ y \in Seq(Questions) /\ \A i \in 1..Len(y) : Turn(y[i]) \in T
      /\ \A q \in Questions : Turn(q) \in T => \E i \in 1..Len(y) : y[i] = q
      /\ \A i, j \in 1..Len(y) : i < j => Turn(y[i]) <= Turn(y[j])
  BY DEF Asks
<1>3. /\ z \in Seq(Questions) /\ Len(x) \in Nat /\ Len(y) \in Nat /\ Len(z) = Len(x) + Len(y)
      /\ \A i \in 1..Len(x) : i \in 1..Len(z) /\ z[i] = x[i]
      /\ \A i \in 1..Len(y) : Len(x) + i \in 1..Len(z) /\ z[Len(x) + i] = y[i]
      /\ \A i \in 1..Len(z) : i \in 1..Len(x) \/ (i - Len(x) \in 1..Len(y) /\ i = Len(x) + (i - Len(x)))
  BY <1>1, <1>2, ConcatIs
<1> HIDE DEF z
<1>4. \A i \in 1..Len(z) : \/ i \in 1..Len(x) /\ z[i] = x[i]
                           \/ i - Len(x) \in 1..Len(y) /\ i > Len(x) /\ z[i] = y[i - Len(x)]
  BY <1>3
<1>5. \A i \in 1..Len(z) : Turn(z[i]) \in R \cup T
  BY <1>1, <1>2, <1>4
<1>6. ASSUME NEW q \in Questions, Turn(q) \in R \cup T
      PROVE  \E i \in 1..Len(z) : z[i] = q
  <2>1. CASE Turn(q) \in R
    <3>1. PICK i \in 1..Len(x) : x[i] = q
      BY <1>1, <2>1
    <3> QED
      BY <1>3, <3>1
  <2>2. CASE Turn(q) \in T
    <3>1. PICK i \in 1..Len(y) : y[i] = q
      BY <1>2, <2>2
    <3>2. Len(x) + i \in 1..Len(z) /\ z[Len(x) + i] = q
      BY <1>3, <3>1
    <3> QED
      BY <3>2
  <2> QED
    BY <1>6, <2>1, <2>2
<1>7. ASSUME NEW i \in 1..Len(z), NEW j \in 1..Len(z), i < j
      PROVE  Turn(z[i]) <= Turn(z[j])
  <2>1. CASE i \in 1..Len(x) /\ j \in 1..Len(x)
    BY <1>1, <1>3, <1>7, <2>1
  <2>2. CASE i \in 1..Len(x) /\ j \notin 1..Len(x)
    <3>1. Turn(z[i]) \in R /\ Turn(z[j]) \in T
      BY <1>1, <1>2, <1>4, <2>2, <1>3
    <3> DEFINE r == Turn(z[i])  t == Turn(z[j])
    <3>2. r \in Nat /\ t \in Nat /\ r < t
      BY <3>1
    <3> HIDE DEF r, t
    <3>3. r <= t
      BY <3>2
    <3> QED
      BY <3>3 DEF r, t
  <2>3. CASE i \notin 1..Len(x)
    <3> DEFINE u == i - Len(x)  v == j - Len(x)
    <3>1. /\ u \in 1..Len(y) /\ z[i] = y[u] /\ v \in 1..Len(y) /\ z[j] = y[v] /\ u < v
      <4>1. u \in 1..Len(y) /\ z[i] = y[u]
        BY <1>4, <2>3
      <4>2. j \notin 1..Len(x)
        BY <1>3, <1>7, <2>3
      <4>3. v \in 1..Len(y) /\ z[j] = y[v]
        BY <1>4, <4>2
      <4>4. u < v
        BY <1>3, <1>7
      <4> QED
        BY <4>1, <4>3, <4>4
    <3> HIDE DEF u, v
    <3> QED
      BY <1>2, <3>1
  <2> QED
    BY <2>1, <2>2, <2>3
<1> QED
  BY <1>3, <1>5, <1>6, <1>7 DEF Asks, z

\* The queries of one figure and period.
LEMMA QueriesAsk ==
  ASSUME NEW what \in {"total", "series"}, NEW p \in {"Hour", "Day"}
  PROVE  Asks(Counting!Queries(what, p), {Turn([what |-> what, period |-> p, kind |-> "Inbox"])})
<1> DEFINE o == Counting!ReadOrder
           z == [i \in DOMAIN o |-> [what |-> what, period |-> p, kind |-> o[i]]]
           R == {Turn([what |-> what, period |-> p, kind |-> "Inbox"])}
<1>1. DOMAIN o = 1..3 /\ o[1] = "Redirect" /\ o[2] = "Inbox" /\ o[3] = "Message"
  <2> DEFINE V == {"Redirect", "Inbox", "Message"}
             x == <<"Redirect", "Inbox">>  y == <<"Message">>
  <2>1. Head(StatKinds) = "Redirect" /\ Tail(StatKinds) = y
    BY DEF StatKinds
  <2>2. /\ x \in Seq(V) /\ Len(x) = 2 /\ x[1] = "Redirect" /\ x[2] = "Inbox"
        /\ y \in Seq(V) /\ Len(y) = 1 /\ y[1] = "Message"
    <3>1. x \in Seq(V) /\ Len(x) = 2 /\ x[1] = "Redirect" /\ x[2] = "Inbox"
      OBVIOUS
    <3>2. y \in Seq(V) /\ Len(y) = 1 /\ y[1] = "Message"
      OBVIOUS
    <3> QED
      BY <3>1, <3>2
  <2>3. o = x \o y
    BY <2>1 DEF Counting!ReadOrder
  <2> HIDE DEF o, x, y, V
  <2>4. /\ o \in Seq(V) /\ Len(o) = Len(x) + Len(y)
        /\ \A i \in 1..Len(x) : o[i] = x[i]
        /\ \A i \in 1..Len(y) : o[Len(x) + i] = y[i]
    <3>1. x \in Seq(V) /\ y \in Seq(V)
      BY <2>2
    <3>2. /\ x \o y \in Seq(V) /\ Len(x \o y) = Len(x) + Len(y)
          /\ \A i \in 1..Len(x) : (x \o y)[i] = x[i]
          /\ \A i \in 1..Len(y) : (x \o y)[Len(x) + i] = y[i]
      BY <3>1, ConcatIs
    <3> QED
      BY <2>3, <3>2
  <2>5. Len(o) = 3 /\ o[1] = x[1] /\ o[2] = x[2] /\ o[2 + 1] = y[1]
    BY <2>2, <2>4
  <2> QED
    BY <2>2, <2>4, <2>5
<1>2. /\ DOMAIN o = 1..3 /\ \A i \in 1..3 : o[i] \in Counting!Kinds
      /\ \A k \in Counting!Kinds : \E i \in 1..3 : o[i] = k
  BY <1>1, KindsAre DEF CountedKinds
<1>3. Counting!Queries(what, p) = z
  BY DEF Counting!Queries
<1> HIDE DEF o
<1>4. \A i \in 1..3 : z[i] \in Questions /\ Turn(z[i]) \in R /\ z[i].what = what /\ z[i].period = p /\ z[i].kind = o[i]
  BY <1>2 DEF Questions, Turn
<1>5. z \in Seq(Questions) /\ Len(z) = 3
  <2>1. z = [i \in DOMAIN z |-> z[i]] /\ DOMAIN z = 1..3 /\ 3 \in Nat
    BY <1>2
  <2>2. \A i \in 1..3 : z[i] \in Questions
    BY <1>4
  <2> DEFINE n == 3
  <2>3. n \in Nat /\ DOMAIN z = 1..n /\ \A i \in 1..n : z[i] \in Questions
    BY <2>1, <2>2
  <2> HIDE DEF z, n
  <2>4. z \in Seq(Questions) /\ Len(z) = n
    BY <2>1, <2>3, IsSequence
  <2> QED
    BY <2>4 DEF n
<1> HIDE DEF z
<1>6. ASSUME NEW q \in Questions, Turn(q) \in R
      PROVE  \E i \in 1..3 : z[i] = q
  <2>1. /\ q = [what |-> q.what, period |-> q.period, kind |-> q.kind] /\ q.kind \in Counting!Kinds
        /\ q.what \in {"total", "series"} /\ q.period \in {"Hour", "Day"}
    BY DEF Questions
  <2>2. q.what = what /\ q.period = p
    BY <1>6, <2>1 DEF Turn
  <2>3. PICK i \in 1..3 : o[i] = q.kind
    BY <1>2, <2>1
  <2>4. z[i] = [what |-> what, period |-> p, kind |-> o[i]]
    BY <1>2 DEF z
  <2> QED
    BY <2>1, <2>2, <2>3, <2>4
<1>7. \A i, j \in 1..3 : Turn(z[i]) <= Turn(z[j])
  <2>1. Turn([what |-> what, period |-> p, kind |-> "Inbox"]) \in Nat
    BY DEF Turn
  <2> QED
    BY <1>4, <2>1
<1> QED
  BY <1>3, <1>4, <1>5, <1>6, <1>7 DEF Asks

\* A load asks everything, the totals before the series, the hours before the days.
LEMMA PlanAsks == Asks(Counting!Plan, 0..3)
<1> DEFINE a == Counting!Queries("total", "Hour")  b == Counting!Queries("total", "Day")
           c == Counting!Queries("series", "Hour")  d == Counting!Queries("series", "Day")
<1>1. Asks(a, {0}) /\ Asks(b, {1}) /\ Asks(c, {2}) /\ Asks(d, {3})
  <2>1. /\ Turn([what |-> "total", period |-> "Hour", kind |-> "Inbox"]) = 0
        /\ Turn([what |-> "total", period |-> "Day", kind |-> "Inbox"]) = 1
        /\ Turn([what |-> "series", period |-> "Hour", kind |-> "Inbox"]) = 2
        /\ Turn([what |-> "series", period |-> "Day", kind |-> "Inbox"]) = 3
    BY DEF Turn
  <2>2. /\ Asks(a, {Turn([what |-> "total", period |-> "Hour", kind |-> "Inbox"])})
        /\ Asks(b, {Turn([what |-> "total", period |-> "Day", kind |-> "Inbox"])})
        /\ Asks(c, {Turn([what |-> "series", period |-> "Hour", kind |-> "Inbox"])})
        /\ Asks(d, {Turn([what |-> "series", period |-> "Day", kind |-> "Inbox"])})
    BY QueriesAsk
  <2> QED
    BY <2>1, <2>2
<1>2. Counting!Plan = ((a \o b) \o c) \o d
  BY DEF Counting!Plan
<1> HIDE DEF a, b, c, d
<1>3. Asks(a \o b, {0} \cup {1})
  BY <1>1, AsksBoth
<1>4. Asks((a \o b) \o c, ({0} \cup {1}) \cup {2})
  BY <1>1, <1>3, AsksBoth
<1>5. Asks(((a \o b) \o c) \o d, (({0} \cup {1}) \cup {2}) \cup {3})
  BY <1>1, <1>4, AsksBoth
<1>6. (({0} \cup {1}) \cup {2}) \cup {3} = 0..3
  OBVIOUS
<1> QED
  BY <1>2, <1>5, <1>6

-----------------------------------------------------------------------------
(* Statistics: what a load has read *)

BucketRows == UNION {[W -> Nat \cup SUBSET StatMembers] : W \in SUBSET (0..StatClock)}
Answers == [q : Questions, rows : BucketRows]

\* The figure of a question, now and as it was answered.
Now(tab, at, q) == Counting!Figure(q.kind, In(tab, q.period, q.kind, Counting!Window(q.period, at)))
Shown(got, i) == Counting!Figure(got[i].q.kind, got[i].rows)
Larger(a, b) == a.kind = b.kind /\ (a.period = b.period \/ (a.period = "Hour" /\ b.period = "Day"))

Read(tab, at, got) ==
  /\ \A i \in 1..Len(got) : Holds(got[i].q.kind, Shown(got, i))
  /\ \A i \in 1..Len(got) : Counting!Within(got[i].q.kind, Shown(got, i), Now(tab, at, got[i].q))
  /\ \A i, j \in 1..Len(got) : i < j /\ Larger(got[i].q, got[j].q) =>
       Counting!Within(got[i].q.kind, Shown(got, i), Shown(got, j))

\* The answers are to the first queries of the plan, and the others are left.
Underway(left1, got) ==
  /\ Len(got) <= Len(Counting!Plan)
  /\ \A i \in 1..Len(got) : got[i].q = Counting!Plan[i]
  /\ left1 = SubSeq(Counting!Plan, Len(got) + 1, Len(Counting!Plan))
Readings ==
  /\ figures \in [at : 0..StatClock, left : Seq(Questions), got : Seq(Answers)]
  /\ Underway(figures.left, figures.got) \/ (figures.left = <<>> /\ figures.got = <<>>)
  /\ Read(table, figures.at, figures.got)

LEMMA WithinIs ==
  ASSUME NEW k, NEW x, NEW y, NEW z, Holds(k, x), Holds(k, y), Holds(k, z)
  PROVE  /\ Counting!Within(k, x, x)
         /\ Counting!Within(k, x, y) /\ Counting!Within(k, y, z) => Counting!Within(k, x, z)
<1>1. CASE k = "Inbox"
  BY <1>1 DEF Holds, Counting!Within
<1>2. CASE k # "Inbox"
  BY <1>2 DEF Holds, Counting!Within
<1> QED
  BY <1>1, <1>2

LEMMA WindowFits ==
  ASSUME NEW p \in {"Hour", "Day"}, NEW t \in 0..StatClock
  PROVE  Counting!Window(p, t) \in SUBSET (0..StatClock)
<1> DEFINE x == Counting!Bucket(p, t)  W == Counting!Window(p, t)
<1>1. W \subseteq 0..x /\ x \in 0..StatClock
  BY WindowsFit, BucketFits
<1> HIDE DEF x, W
<1>2. \A n \in W : n \in 0..StatClock
  BY <1>1, StatConstants
<1> QED
  BY <1>2 DEF W

\* Figures of a table are typed, and grow with it.
LEMMA NowGrows ==
  ASSUME NEW tab, Typed(tab), NEW new, Typed(new), new = tab \/ Grew(tab, new),
         NEW t \in 0..StatClock, NEW q \in Questions
  PROVE  /\ Holds(q.kind, Now(tab, t, q)) /\ Holds(q.kind, Now(new, t, q))
         /\ Counting!Within(q.kind, Now(tab, t, q), Now(new, t, q))
<1> DEFINE k == q.kind  p == q.period  W == Counting!Window(p, t)
<1>1. k \in Counting!Kinds /\ p \in {"Hour", "Day"}
  BY DEF Questions
<1>2. W \in SUBSET (0..StatClock)
  BY <1>1, WindowFits
<1>3. ASSUME NEW r \in Counting!Rows
      PROVE  Counting!Within(r[2], tab[r], tab[r])
  <2>1. Holds(r[2], tab[r])
    BY DEF Typed
  <2> QED
    BY <2>1, WithinIs
<1>4. Grew(tab, new)
  <2>1. new = tab => Grew(tab, new)
    BY <1>3 DEF Grew
  <2> QED
    BY <2>1
<1>5. /\ Now(tab, t, q) = Counting!Figure(k, In(tab, p, k, W))
      /\ Now(new, t, q) = Counting!Figure(k, In(new, p, k, W))
  BY DEF Now
<1> HIDE DEF k, p, W
<1>6. /\ Holds(k, Counting!Figure(k, In(tab, p, k, W)))
      /\ Holds(k, Counting!Figure(k, In(new, p, k, W)))
      /\ Counting!Within(k, Counting!Figure(k, In(tab, p, k, W)), Counting!Figure(k, In(new, p, k, W)))
  BY <1>1, <1>2, <1>4, FigureGrows
<1> QED
  BY <1>5, <1>6 DEF k

\* What is read grew since, if it is written.
LEMMA ReadGrows ==
  ASSUME NEW tab, Typed(tab), NEW new, Typed(new), new = tab \/ Grew(tab, new),
         NEW t \in 0..StatClock, NEW got \in Seq(Answers), Read(tab, t, got)
  PROVE  Read(new, t, got)
<1>1. ASSUME NEW i \in 1..Len(got)
      PROVE  Counting!Within(got[i].q.kind, Shown(got, i), Now(new, t, got[i].q))
  <2> DEFINE q == got[i].q
  <2>1. q \in Questions
    <3>1. got[i] \in Answers
      OBVIOUS
    <3> QED
      BY <3>1 DEF Answers
  <2>2. Holds(q.kind, Shown(got, i)) /\ Counting!Within(q.kind, Shown(got, i), Now(tab, t, q))
    BY DEF Read
  <2> HIDE DEF q
  <2>3. /\ Holds(q.kind, Now(tab, t, q)) /\ Holds(q.kind, Now(new, t, q))
        /\ Counting!Within(q.kind, Now(tab, t, q), Now(new, t, q))
    BY <2>1, NowGrows
  <2>4. Counting!Within(q.kind, Shown(got, i), Now(new, t, q))
    BY <2>2, <2>3, WithinIs
  <2> QED
    BY <2>4 DEF q
<1> QED
  BY <1>1 DEF Read

\* A larger window has more.
LEMMA LargerHasMore ==
  ASSUME NEW tab, Typed(tab), DaysAgree(tab), NEW t \in 0..StatClock,
         NEW a \in Questions, NEW b \in Questions, Larger(a, b)
  PROVE  Counting!Within(a.kind, Now(tab, t, a), Now(tab, t, b))
<1>1. a.kind = b.kind /\ a.kind \in Counting!Kinds
  BY DEF Larger, Questions
<1>2. CASE a.period = b.period
  <2>1. Now(tab, t, a) = Now(tab, t, b) /\ Holds(a.kind, Now(tab, t, a))
    BY <1>1, <1>2, NowGrows DEF Now
  <2> QED
    BY <2>1, WithinIs
<1>3. CASE a.period = "Hour" /\ b.period = "Day"
  <2> DEFINE k == a.kind
  <2>1. /\ Now(tab, t, a) = Counting!Figure(k, In(tab, "Hour", k, Counting!Window("Hour", t)))
        /\ Now(tab, t, b) = Counting!Figure(k, In(tab, "Day", k, Counting!Window("Day", t)))
    BY <1>1, <1>3 DEF Now
  <2>2. k \in Counting!Kinds
    BY <1>1
  <2> HIDE DEF k
  <2>3. Counting!Within(k, Counting!Figure(k, In(tab, "Hour", k, Counting!Window("Hour", t))),
                           Counting!Figure(k, In(tab, "Day", k, Counting!Window("Day", t))))
    BY <2>2, HoursWithinDays
  <2> QED
    BY <2>1, <2>3 DEF k
<1> QED
  BY <1>2, <1>3 DEF Larger

\* The rows a question is answered with.
LEMMA RowsRead ==
  ASSUME NEW tab, Typed(tab), NEW t \in 0..StatClock, NEW q \in Questions
  PROVE  [q |-> q, rows |-> In(tab, q.period, q.kind, Counting!Window(q.period, t))] \in Answers
<1> DEFINE W == Counting!Window(q.period, t)  r == In(tab, q.period, q.kind, W)
<1>1. q.period \in {"Hour", "Day"} /\ q.kind \in Counting!Kinds
  BY DEF Questions
<1>2. W \in SUBSET (0..StatClock)
  BY <1>1, WindowFits
<1>3. \A n \in W : tab[<<q.period, q.kind, n>>] \in Nat \cup SUBSET StatMembers
  <2> SUFFICES ASSUME NEW n \in W
               PROVE  tab[<<q.period, q.kind, n>>] \in Nat \cup SUBSET StatMembers
    OBVIOUS
  <2> DEFINE x == <<q.period, q.kind, n>>
  <2>1. n \in 0..StatClock
    BY <1>2
  <2>2. x \in Counting!Rows
    BY <1>1, <2>1, RowsAre
  <2> HIDE DEF x
  <2>3. Holds(x[2], tab[x])
    BY <2>2 DEF Typed
  <2>4. tab[x] \in Nat \cup SUBSET StatMembers
    BY <2>3 DEF Holds
  <2> QED
    BY <2>4 DEF x
<1> HIDE DEF W
<1>4. r \in [W -> Nat \cup SUBSET StatMembers]
  BY <1>3 DEF In
<1> HIDE DEF r
<1>5. r \in BucketRows
  BY <1>2, <1>4 DEF BucketRows
<1> QED
  BY <1>5 DEF Answers, r, W

LEMMA PlanIs ==
  /\ Counting!Plan \in Seq(Questions) /\ Len(Counting!Plan) \in Nat
  /\ \A q \in Questions : \E i \in 1..Len(Counting!Plan) : Counting!Plan[i] = q
  /\ \A i, j \in 1..Len(Counting!Plan) :
       i < j => Turn(Counting!Plan[i]) <= Turn(Counting!Plan[j])
<1>1. Asks(Counting!Plan, 0..3)
  BY PlanAsks
<1>2. \A q \in Questions : Turn(q) \in 0..3
  BY DEF Turn
<1> QED
  BY <1>1, <1>2 DEF Asks

\* The rest of a sequence.
LEMMA RestOf ==
  ASSUME NEW V, NEW plan \in Seq(V), NEW n \in Nat, n <= Len(plan)
  PROVE  /\ SubSeq(plan, n + 1, Len(plan)) \in Seq(V)
         /\ SubSeq(plan, n + 1, Len(plan)) = <<>> <=> n = Len(plan)
         /\ n < Len(plan) => /\ Head(SubSeq(plan, n + 1, Len(plan))) = plan[n + 1]
                             /\ Tail(SubSeq(plan, n + 1, Len(plan))) = SubSeq(plan, n + 2, Len(plan))
<1> DEFINE r == SubSeq(plan, n + 1, Len(plan))  v == SubSeq(plan, n + 2, Len(plan))
<1>1. r \in Seq(V) /\ Len(r) = Len(plan) - n /\ \A i \in 1..Len(r) : r[i] = plan[n + i]
  OBVIOUS
<1>2. r = <<>> <=> Len(r) = 0
  <2> HIDE DEF r
  <2> QED
    BY <1>1
<1>3. ASSUME n < Len(plan)
      PROVE  Head(r) = plan[n + 1] /\ Tail(r) = v
  <2>1. v \in Seq(V) /\ Len(v) = Len(plan) - n - 1 /\ \A i \in 1..Len(v) : v[i] = plan[n + 1 + i]
    BY <1>3
  <2> HIDE DEF r, v
  <2>2. Len(r) \in Nat /\ Len(r) >= 1 /\ r # <<>>
    BY <1>1, <1>2, <1>3
  <2>3. Head(r) = plan[n + 1]
    <3>1. Head(r) = r[1] /\ 1 \in 1..Len(r)
      BY <1>1, <2>2
    <3> QED
      BY <1>1, <3>1
  <2> DEFINE u == Tail(r)
  <2>4. u \in Seq(V) /\ Len(u) = Len(r) - 1 /\ \A i \in 1..Len(u) : u[i] = r[i + 1]
    BY <1>1, <2>2
  <2> HIDE DEF u
  <2>5. Len(u) = Len(v) /\ \A i \in 1..Len(u) : u[i] = v[i]
    <3>1. Len(u) = Len(v)
      BY <1>1, <2>1, <2>4
    <3>2. ASSUME NEW i \in 1..Len(u)
          PROVE  u[i] = v[i]
      <4>1. i + 1 \in 1..Len(r) /\ i \in 1..Len(v)
        BY <1>1, <2>1, <2>4, <3>1
      <4>2. u[i] = r[i + 1] /\ r[i + 1] = plan[n + (i + 1)] /\ v[i] = plan[n + 1 + i]
        BY <1>1, <2>1, <2>4, <4>1
      <4>3. n + (i + 1) = n + 1 + i
        OBVIOUS
      <4> QED
        BY <4>2, <4>3
    <3> QED
      BY <3>1, <3>2
  <2>6. \A a, b \in Seq(V) : Len(a) = Len(b) /\ (\A i \in 1..Len(a) : a[i] = b[i]) => a = b
    OBVIOUS
  <2>7. u = v
    BY <2>1, <2>4, <2>5, <2>6
  <2> QED
    BY <2>3, <2>7 DEF u
<1> HIDE DEF r, v
<1>4. Len(plan) \in Nat
  OBVIOUS
<1>5. r = <<>> <=> n = Len(plan)
  BY <1>1, <1>2, <1>4
<1> QED
  BY <1>1, <1>3, <1>5 DEF r, v

\* One more answer.
LEMMA ReadMore ==
  ASSUME NEW tab, Typed(tab), DaysAgree(tab), NEW t \in 0..StatClock, NEW got \in Seq(Answers),
         Read(tab, t, got), NEW x \in Answers,
         x.rows = In(tab, x.q.period, x.q.kind, Counting!Window(x.q.period, t))
  PROVE  Append(got, x) \in Seq(Answers) /\ Read(tab, t, Append(got, x))
<1> DEFINE more == Append(got, x)  n == Len(got)
<1>1. /\ more \in Seq(Answers) /\ n \in Nat /\ Len(more) = n + 1 /\ more[n + 1] = x
      /\ \A i \in 1..n : more[i] = got[i]
  OBVIOUS
<1>2. x.q \in Questions /\ \A i \in 1..n : got[i].q \in Questions
  <2>1. \A i \in 1..n : got[i] \in Answers
    OBVIOUS
  <2> QED
    BY <2>1 DEF Answers
<1>3. /\ \A i \in 1..n : Holds(got[i].q.kind, Shown(got, i))
      /\ \A i \in 1..n : Counting!Within(got[i].q.kind, Shown(got, i), Now(tab, t, got[i].q))
      /\ \A i, j \in 1..n : i < j /\ Larger(got[i].q, got[j].q) =>
           Counting!Within(got[i].q.kind, Shown(got, i), Shown(got, j))
  BY DEF Read
<1> HIDE DEF more, n
<1>4. \A i \in 1..n : Shown(more, i) = Shown(got, i) /\ more[i].q = got[i].q
  BY <1>1 DEF Shown
<1>5. Shown(more, n + 1) = Now(tab, t, x.q) /\ more[n + 1].q = x.q
  BY <1>1 DEF Shown, Now
<1>6. /\ Holds(x.q.kind, Now(tab, t, x.q))
      /\ Counting!Within(x.q.kind, Now(tab, t, x.q), Now(tab, t, x.q))
  BY <1>2, NowGrows
<1>7. \A i \in 1..Len(more) : i \in 1..n \/ i = n + 1
  BY <1>1
<1>8. ASSUME NEW i \in 1..Len(more)
      PROVE  /\ Holds(more[i].q.kind, Shown(more, i))
             /\ Counting!Within(more[i].q.kind, Shown(more, i), Now(tab, t, more[i].q))
  BY <1>3, <1>4, <1>5, <1>6, <1>7
<1>9. ASSUME NEW i \in 1..Len(more), NEW j \in 1..Len(more), i < j, Larger(more[i].q, more[j].q)
      PROVE  Counting!Within(more[i].q.kind, Shown(more, i), Shown(more, j))
  <2>1. i \in 1..n
    BY <1>1, <1>7, <1>9
  <2>2. CASE j \in 1..n
    BY <1>3, <1>4, <1>9, <2>1, <2>2
  <2>3. CASE j = n + 1
    <3> DEFINE q == got[i].q
    <3>1. q \in Questions /\ Larger(q, x.q)
      BY <1>2, <1>4, <1>5, <1>9, <2>1, <2>3
    <3>2. Holds(q.kind, Shown(got, i)) /\ Counting!Within(q.kind, Shown(got, i), Now(tab, t, q))
      BY <1>3, <2>1
    <3>3. more[i].q = q /\ Shown(more, i) = Shown(got, i) /\ Shown(more, j) = Now(tab, t, x.q)
      BY <1>4, <1>5, <2>1, <2>3
    <3> HIDE DEF q
    <3>4. Counting!Within(q.kind, Now(tab, t, q), Now(tab, t, x.q))
      BY <1>2, <3>1, LargerHasMore
    <3>5. Holds(q.kind, Now(tab, t, q))
      BY <3>1, NowGrows
    <3>6. Holds(q.kind, Now(tab, t, x.q))
      BY <1>6, <3>1 DEF Larger
    <3>7. Counting!Within(q.kind, Shown(got, i), Now(tab, t, x.q))
      BY <3>2, <3>4, <3>5, <3>6, WithinIs
    <3> QED
      BY <3>3, <3>7
  <2> QED
    BY <1>7, <2>2, <2>3
<1>10. Read(tab, t, more)
  BY <1>8, <1>9 DEF Read
<1> QED
  BY <1>1, <1>10 DEF more

LEMMA AskReads ==
  ASSUME Typed(table), DaysAgree(table), Readings, Counting!Ask
  PROVE  Readings'
<1> DEFINE at == figures.at  got == figures.got  plan == Counting!Plan  n == Len(got)
           q == Head(figures.left)
           rows == [b \in Counting!Window(q.period, at) |-> table[<<q.period, q.kind, b>>]]
           x == [q |-> q, rows |-> rows]
<1>1. /\ figures \in [at : 0..StatClock, left : Seq(Questions), got : Seq(Answers)]
      /\ Read(table, at, got) /\ figures.left # <<>>
  BY DEF Readings, Counting!Ask
<1>2. /\ n <= Len(plan) /\ (\A i \in 1..n : got[i].q = plan[i])
      /\ figures.left = SubSeq(plan, n + 1, Len(plan))
  BY <1>1 DEF Readings, Underway
<1>3. /\ figures' = [figures EXCEPT !.left = Tail(@), !.got = Append(@, x)]
      /\ table' = table
  BY DEF Counting!Ask
<1>4. got \in Seq(Answers) /\ n \in Nat /\ at \in 0..StatClock
  BY <1>1
<1>5. plan \in Seq(Questions) /\ Len(plan) \in Nat
  BY PlanIs
<1>6. figures'.at = at /\ figures'.left = Tail(figures.left) /\ figures'.got = Append(got, x)
      /\ figures' = [at |-> at, left |-> Tail(figures.left), got |-> Append(got, x)]
  BY <1>1, <1>3
<1> HIDE DEF plan
<1>7. /\ SubSeq(plan, n + 1, Len(plan)) = <<>> <=> n = Len(plan)
      /\ n < Len(plan) => /\ Head(SubSeq(plan, n + 1, Len(plan))) = plan[n + 1]
                          /\ Tail(SubSeq(plan, n + 1, Len(plan))) = SubSeq(plan, n + 2, Len(plan))
  <2> HIDE DEF n
  <2> QED
    BY <1>2, <1>4, <1>5, RestOf
<1>8. n < Len(plan) /\ q = plan[n + 1] /\ Tail(figures.left) = SubSeq(plan, n + 2, Len(plan))
  <2> DEFINE r == SubSeq(plan, n + 1, Len(plan))
  <2>1. figures.left = r /\ r # <<>>
    BY <1>1, <1>2
  <2>2. r = <<>> <=> n = Len(plan)
    BY <1>7
  <2>3. n < Len(plan) => Head(r) = plan[n + 1] /\ Tail(r) = SubSeq(plan, n + 2, Len(plan))
    BY <1>7
  <2> HIDE DEF r, n
  <2>4. n < Len(plan)
    BY <1>2, <1>4, <1>5, <2>1, <2>2
  <2> QED
    BY <2>1, <2>3, <2>4
<1>9. q \in Questions
  BY <1>4, <1>5, <1>8
<1>10. rows = In(table, q.period, q.kind, Counting!Window(q.period, at))
  BY DEF In
<1> HIDE DEF q, rows, at
<1>11. x \in Answers /\ x.q = q /\ x.rows = rows
  BY <1>4, <1>9, <1>10, RowsRead
<1> HIDE DEF x, got
<1>12. Append(got, x) \in Seq(Answers) /\ Read(table, at, Append(got, x))
  BY <1>1, <1>4, <1>10, <1>11, ReadMore
<1> DEFINE more == Append(got, x)
<1>13. /\ Len(more) = n + 1 /\ more[n + 1] = x /\ \A i \in 1..n : more[i] = got[i]
       /\ \A i \in 1..n + 1 : i \in 1..n \/ i = n + 1
  BY <1>4
<1> HIDE DEF more
<1>14. Underway(Tail(figures.left), more)
  <2>1. Len(more) <= Len(plan)
    BY <1>4, <1>5, <1>8, <1>13
  <2>2. \A i \in 1..Len(more) : more[i].q = plan[i]
    BY <1>2, <1>8, <1>11, <1>13
  <2>3. Len(more) + 1 = n + 2
    BY <1>4, <1>13
  <2> QED
    BY <1>8, <2>1, <2>2, <2>3 DEF Underway, plan
<1>15. Tail(figures.left) \in Seq(Questions)
  <2>1. SubSeq(plan, (n + 1) + 1, Len(plan)) \in Seq(Questions)
    <3>1. n + 1 \in Nat /\ n + 1 <= Len(plan)
      BY <1>4, <1>5, <1>8
    <3> QED
      BY <1>5, <3>1, RestOf
  <2>2. (n + 1) + 1 = n + 2
    BY <1>4
  <2> QED
    BY <1>8, <2>1, <2>2
<1>16. figures' \in [at : 0..StatClock, left : Seq(Questions), got : Seq(Answers)]
  BY <1>4, <1>6, <1>12, <1>15 DEF more
<1> QED
  BY <1>3, <1>6, <1>12, <1>14, <1>16 DEF Readings, more

LEMMA NothingRead ==
  ASSUME NEW tab, NEW t
  PROVE  <<>> \in Seq(Answers) /\ Read(tab, t, <<>>)
<1> DEFINE z == <<>>
<1>1. z \in Seq(Answers) /\ Len(z) = 0
  OBVIOUS
<1> HIDE DEF z
<1>2. \A i \in 1..Len(z) : FALSE
  BY <1>1
<1>3. Read(tab, t, z)
  BY <1>2 DEF Read
<1> QED
  BY <1>1, <1>3 DEF z

LEMMA StartReads ==
  ASSUME WorkerFits, Counting!StartLoad
  PROVE  Readings'
<1> DEFINE plan == Counting!Plan  z == <<>>
<1>1. figures' = [at |-> clock, left |-> plan, got |-> z] /\ table' = table
  BY DEF Counting!StartLoad
<1>2. clock \in 0..StatClock
  BY DEF WorkerFits, StatTypes
<1>3. plan \in Seq(Questions) /\ Len(plan) \in Nat
  BY PlanIs
<1>4. z \in Seq(Answers) /\ Read(table, clock, z)
  BY NothingRead
<1>5. Len(z) = 0
  OBVIOUS
<1>6. plan = SubSeq(plan, 1, Len(plan))
  <2> HIDE DEF plan
  <2> QED
    BY <1>3
<1> HIDE DEF z
<1>7. Underway(plan, z)
  BY <1>3, <1>5, <1>6 DEF Underway
<1> HIDE DEF plan
<1>8. figures' \in [at : 0..StatClock, left : Seq(Questions), got : Seq(Answers)]
      /\ figures'.left = plan /\ figures'.got = z /\ figures'.at = clock
  BY <1>1, <1>2, <1>3, <1>4
<1> QED
  BY <1>1, <1>4, <1>7, <1>8 DEF Readings

LEMMA AbandonReads ==
  ASSUME Counting!Abandon
  PROVE  Readings'
<1> DEFINE z == <<>>
<1>1. figures' = [at |-> 0, left |-> z, got |-> z] /\ table' = table
  BY DEF Counting!Abandon, Counting!Idle
<1>2. z \in Seq(Answers) /\ z \in Seq(Questions) /\ Read(table, 0, z)
  BY NothingRead
<1>3. 0 \in 0..StatClock
  BY StatConstants
<1> HIDE DEF z
<1>4. figures' \in [at : 0..StatClock, left : Seq(Questions), got : Seq(Answers)]
      /\ figures'.left = z /\ figures'.got = z /\ figures'.at = 0
  BY <1>1, <1>2, <1>3
<1> QED
  BY <1>1, <1>2, <1>4 DEF Readings, z

\* What is read holds, whoever writes.
LEMMA ReadingsKept ==
  ASSUME WorkerFits, DaysAgree(table), Readings, StatSteps
  PROVE  Readings'
<1>1. /\ Typed(table) /\ Typed(table')
      /\ table' = table \/ Grew(table, table')
  BY RowsKept
<1>2. ASSUME figures' = figures
      PROVE  Readings'
  <2>1. /\ figures \in [at : 0..StatClock, left : Seq(Questions), got : Seq(Answers)]
        /\ Underway(figures.left, figures.got) \/ (figures.left = <<>> /\ figures.got = <<>>)
        /\ Read(table, figures.at, figures.got)
    BY DEF Readings
  <2>2. figures.at \in 0..StatClock /\ figures.got \in Seq(Answers)
    BY <2>1
  <2>3. Read(table', figures.at, figures.got)
    BY <1>1, <2>1, <2>2, ReadGrows
  <2> QED
    BY <1>2, <2>1, <2>3 DEF Readings
<1>3. ASSUME NEW s \in StatServers,
             \/ \E e \in Counting!Events : Counting!Record(s, e)
             \/ Counting!Take(s) \/ Counting!Insert(s) \/ Counting!Commit(s)
             \/ Counting!Fail(s) \/ Counting!Stop(s)
      PROVE  figures' = figures
  BY <1>3 DEF Counting!Record, Counting!Take, Counting!Insert, Counting!Commit, Counting!Fail,
    Counting!Stop, Counting!reading
<1>4. Counting!Tick \/ UNCHANGED statVars => figures' = figures
  BY DEF Counting!Tick, Counting!reading, statVars
<1> QED
  BY <1>1, <1>2, <1>3, <1>4, AskReads, StartReads, AbandonReads DEF StatSteps, Aside

\* A load that is answered has every figure, and these are ordered.
LEMMA AnswerIs ==
  ASSUME Readings, Counting!Answered, NEW q \in Questions
  PROVE  \E i \in 1..Len(figures.got) :
           /\ i \in 1..Len(Counting!Plan) /\ figures.got[i].q = q /\ Counting!Plan[i] = q
           /\ Counting!Figure(q.kind, Counting!Got(q.what, q.period, q.kind)) = Shown(figures.got, i)
<1> DEFINE got == figures.got  plan == Counting!Plan  n == Len(got)
<1>1. got \in Seq(Answers) /\ figures.left = <<>> /\ got # <<>> /\ n \in Nat
  BY DEF Readings, Counting!Answered
<1>2. /\ n <= Len(plan) /\ (\A i \in 1..n : got[i].q = plan[i])
      /\ figures.left = SubSeq(plan, n + 1, Len(plan))
  BY <1>1 DEF Readings, Underway
<1>3. plan \in Seq(Questions) /\ Len(plan) \in Nat /\ \E i \in 1..Len(plan) : plan[i] = q
  BY PlanIs
<1>4. n = Len(plan)
  <2>1. SubSeq(plan, n + 1, Len(plan)) = <<>> <=> n = Len(plan)
    <3> HIDE DEF plan, n
    <3> QED
      BY <1>1, <1>2, <1>3, RestOf
  <2> QED
    BY <1>1, <1>2, <2>1
<1>5. q = [what |-> q.what, period |-> q.period, kind |-> q.kind]
  BY DEF Questions
<1> DEFINE g == CHOOSE x \in Counting!ToSet(got) : x.q = q
<1>6. Counting!Got(q.what, q.period, q.kind) = g.rows
  BY <1>5 DEF Counting!Got
<1>7. Counting!ToSet(got) = {got[i] : i \in 1..n}
  BY <1>1 DEF Counting!ToSet
<1> HIDE DEF got, plan, n
<1>8. \E x \in Counting!ToSet(got) : x.q = q
  BY <1>2, <1>3, <1>4, <1>7
<1>9. g \in Counting!ToSet(got) /\ g.q = q
  BY <1>8
<1> HIDE DEF g
<1>10. PICK i \in 1..n : g = got[i]
  BY <1>7, <1>9
<1>11. i \in 1..Len(plan) /\ got[i].q = q /\ plan[i] = q
  BY <1>2, <1>4, <1>9, <1>10
<1>12. Counting!Figure(q.kind, Counting!Got(q.what, q.period, q.kind)) = Shown(got, i)
  BY <1>6, <1>10, <1>11 DEF Shown
<1> QED
  BY <1>11, <1>12 DEF got, plan, n

LEMMA AnswersOrdered ==
  ASSUME Readings, Counting!Answered, NEW a \in Questions, NEW b \in Questions,
         Turn(a) < Turn(b), Larger(a, b)
  PROVE  Counting!Within(a.kind, Counting!Figure(a.kind, Counting!Got(a.what, a.period, a.kind)),
                                 Counting!Figure(b.kind, Counting!Got(b.what, b.period, b.kind)))
<1>1. PICK i \in 1..Len(figures.got) :
        /\ i \in 1..Len(Counting!Plan) /\ figures.got[i].q = a /\ Counting!Plan[i] = a
        /\ Counting!Figure(a.kind, Counting!Got(a.what, a.period, a.kind)) = Shown(figures.got, i)
  BY AnswerIs
<1>2. PICK j \in 1..Len(figures.got) :
        /\ j \in 1..Len(Counting!Plan) /\ figures.got[j].q = b /\ Counting!Plan[j] = b
        /\ Counting!Figure(b.kind, Counting!Got(b.what, b.period, b.kind)) = Shown(figures.got, j)
  BY AnswerIs
<1>3. i < j
  <2>1. j < i => Turn(Counting!Plan[j]) <= Turn(Counting!Plan[i])
    BY <1>1, <1>2, PlanIs
  <2>2. \A q \in Questions : Turn(q) \in Nat
    BY DEF Turn
  <2>3. Turn(a) \in Nat /\ Turn(b) \in Nat
    BY <2>2
  <2>4. ~(j < i)
    BY <1>1, <1>2, <2>1, <2>3
  <2>5. i # j
    <3>1. CASE i = j
      <4>1. a = b
        BY <1>1, <1>2, <3>1
      <4> QED
        BY <2>3, <4>1
    <3> QED
      BY <3>1
  <2>6. i \in Int /\ j \in Int
    OBVIOUS
  <2> QED
    BY <2>4, <2>5, <2>6
<1>4. Counting!Within(a.kind, Shown(figures.got, i), Shown(figures.got, j))
  <2>1. Read(table, figures.at, figures.got)
    BY DEF Readings
  <2> QED
    BY <1>1, <1>2, <1>3, <2>1 DEF Read
<1> QED
  BY <1>1, <1>2, <1>4

\* The figures of a load agree.
LEMMA FiguresAgree ==
  ASSUME Readings
  PROVE  Counting!SeriesCoversTotal /\ Counting!WindowsNest
<1>1. ASSUME Counting!Answered, NEW p \in {"Hour", "Day"}, NEW k \in Counting!Kinds
      PROVE  Counting!Within(k, Counting!Figure(k, Counting!Got("total", p, k)),
                                Counting!Figure(k, Counting!Got("series", p, k)))
  <2> DEFINE a == [what |-> "total", period |-> p, kind |-> k]
             b == [what |-> "series", period |-> p, kind |-> k]
  <2>1. /\ a \in Questions /\ b \in Questions /\ Turn(a) < Turn(b) /\ Larger(a, b)
        /\ a.what = "total" /\ b.what = "series" /\ a.period = p /\ b.period = p
        /\ a.kind = k /\ b.kind = k
    BY DEF Questions, Turn, Larger
  <2> HIDE DEF a, b
  <2>2. Counting!Within(a.kind, Counting!Figure(a.kind, Counting!Got(a.what, a.period, a.kind)),
                                Counting!Figure(b.kind, Counting!Got(b.what, b.period, b.kind)))
    BY <1>1, <2>1, AnswersOrdered
  <2> QED
    BY <2>1, <2>2
<1>2. ASSUME Counting!Answered, NEW k \in Counting!Kinds
      PROVE  Counting!Within(k, Counting!Figure(k, Counting!Got("total", "Hour", k)),
                                Counting!Figure(k, Counting!Got("total", "Day", k)))
  <2> DEFINE a == [what |-> "total", period |-> "Hour", kind |-> k]
             b == [what |-> "total", period |-> "Day", kind |-> k]
  <2>1. /\ a \in Questions /\ b \in Questions /\ Turn(a) < Turn(b) /\ Larger(a, b)
        /\ a.what = "total" /\ b.what = "total" /\ a.period = "Hour" /\ b.period = "Day"
        /\ a.kind = k /\ b.kind = k
    BY DEF Questions, Turn, Larger
  <2> HIDE DEF a, b
  <2>2. Counting!Within(a.kind, Counting!Figure(a.kind, Counting!Got(a.what, a.period, a.kind)),
                                Counting!Figure(b.kind, Counting!Got(b.what, b.period, b.kind)))
    BY <1>2, <2>1, AnswersOrdered
  <2> QED
    BY <2>1, <2>2
<1> QED
  BY <1>1, <1>2, KindsAre DEF Counting!SeriesCoversTotal, Counting!WindowsNest

-----------------------------------------------------------------------------
(* Statistics: all of it *)

StatIInv == WorkerFits /\ Balance /\ DaysAgree(table) /\ Readings

LEMMA StatIInvStep ==
  ASSUME StatIInv, Counting!Next \/ UNCHANGED statVars
  PROVE  StatIInv'
<1>1. WorkerFits /\ Balance /\ DaysAgree(table) /\ Readings
  BY DEF StatIInv
<1>2. StatSteps
  BY StatStepsAre
<1>3. WorkerFits' /\ Balance' /\ DaysAgree(table') /\ Readings'
  BY <1>1, <1>2, WorkersFit, BalanceKept, RowsKept, ReadingsKept
<1>4. DaysAgree(table)'
  BY <1>3 DEF DaysAgree, In
<1> QED
  BY <1>3, <1>4 DEF StatIInv

LEMMA StatTyped ==
  ASSUME StatIInv
  PROVE  Counting!TypeOK
<1>1. StatTypes /\ Transactions /\ Readings
  BY DEF StatIInv, WorkerFits
<1>2. ASSUME NEW s \in StatServers
      PROVE  /\ channel[s] \in Sequences /\ Len(channel[s]) <= StatQueue
             /\ batch[s] \in Sequences /\ Len(batch[s]) <= StatBatch
             /\ batch[s] = <<>> => statements[s] \o done[s] = <<>>
  <2>1. batch[s] = <<>> => statements[s] = <<>> /\ done[s] = <<>>
    BY <1>1 DEF Transactions, Transaction
  <2>2. <<>> \o <<>> = <<>>
    OBVIOUS
  <2> QED
    BY <1>1, <2>1, <2>2 DEF StatTypes
<1>3. ASSUME NEW r \in Counting!Rows
      PROVE  IF r[2] = "Inbox" THEN table[r] \subseteq StatMembers ELSE table[r] \in Nat
  <2>1. Holds(r[2], table[r])
    BY <1>1 DEF StatTypes, Tables, Typed
  <2> QED
    BY <2>1 DEF Holds
<1>4. \/ figures.left = <<>>
      \/ figures.left = SubSeq(Counting!Plan, Len(figures.got) + 1, Len(Counting!Plan))
  BY <1>1 DEF Readings, Underway
<1>5. clock \in 0..StatClock /\ loads \in 0..StatLoads
  BY <1>1 DEF StatTypes
<1> QED
  BY <1>2, <1>3, <1>4, <1>5 DEF Counting!TypeOK, Sequences

LEMMA StatIInvShows ==
  ASSUME StatIInv
  PROVE  /\ Counting!TypeOK /\ Counting!CountedOnce /\ Counting!PeriodsAgree
         /\ Counting!NoLockCycle /\ Counting!SeriesCoversTotal /\ Counting!WindowsNest
<1>1. WorkerFits /\ Balance /\ DaysAgree(table) /\ Readings
  BY DEF StatIInv
<1>2. StatTypes /\ Transactions /\ LocksApart
  BY <1>1 DEF WorkerFits
<1> QED
  BY <1>1, <1>2, StatTyped, AccountsAddUp, DaysAddUp, NobodyWaitsInCircles, FiguresAgree

\* Nothing is counted in an empty table.
LEMMA NothingCounted ==
  ASSUME NEW tab, \A r \in Counting!Rows : tab[r] = IF r[2] = "Inbox" THEN {} ELSE 0,
         NEW k \in Counting!Kinds, NEW S \in SUBSET (0..StatClock)
  PROVE  Counting!Figure(k, In(tab, "Hour", k, S)) = IF k = "Inbox" THEN {} ELSE 0
<1> DEFINE f == In(tab, "Hour", k, S)
<1>1. ASSUME NEW n \in S
      PROVE  f[n] = IF k = "Inbox" THEN {} ELSE 0
  <2> DEFINE r == <<"Hour", k, n>>
  <2>1. r \in Counting!Rows /\ r[2] = k
    BY RowsAre
  <2>2. f[n] = tab[r]
    BY DEF In
  <2> HIDE DEF r, f
  <2> QED
    BY <2>1, <2>2
<1>2. DOMAIN f = S
  BY DEF In
<1> HIDE DEF f
<1>3. CASE k = "Inbox"
  <2>1. \A n \in DOMAIN f : f[n] = {}
    BY <1>1, <1>2, <1>3
  <2>2. UNION {f[n] : n \in DOMAIN f} = {}
    BY <2>1
  <2> QED
    BY <1>3, <2>2 DEF Counting!Figure, f
<1>4. CASE k # "Inbox"
  <2>1. \A n \in DOMAIN f : f[n] = 0
    BY <1>1, <1>2, <1>4
  <2>2. Numbers(f) /\ \A n : Val(f, n) = 0
    BY <2>1 DEF Numbers, Val
  <2>3. 0 \in 0..StatClock /\ 0 \in Nat
    BY StatConstants
  <2>4. Counting!Sum(f) = 0
    <3>1. \A n \in 0..StatClock : Val(f, n) = IF n = 0 THEN 0 ELSE 0
      BY <2>2
    <3> QED
      BY <2>2, <2>3, <3>1, SumOne
  <2> QED
    BY <1>4, <2>4 DEF Counting!Figure, f
<1> QED
  BY <1>3, <1>4

LEMMA InitStat ==
  ASSUME Counting!Init
  PROVE  StatIInv
<1> DEFINE none == [s \in StatServers |-> <<>>]
<1>1. /\ clock = 0 /\ channel = none /\ batch = none /\ statements = none /\ done = none
      /\ table = [r \in Counting!Rows |-> Counting!Empty(r[2])]
      /\ figures = [at |-> 0, left |-> <<>>, got |-> <<>>] /\ loads = 0
      /\ sent = [e \in Counting!Events |-> 0] /\ lost = [e \in Counting!Events |-> 0]
  BY DEF Counting!Init, Counting!Idle
<1>2. \A s \in StatServers : none[s] = <<>>
  OBVIOUS
<1>3. none \in [StatServers -> Sequences] /\ none \in [StatServers -> Seq(Statement)]
  BY NoStatements
<1>4. \A s \in StatServers : Len(none[s]) = 0
  BY <1>2, NoStatements
<1> HIDE DEF none
<1>5. \A r \in Counting!Rows : table[r] = IF r[2] = "Inbox" THEN {} ELSE 0
  BY <1>1 DEF Counting!Empty
<1>6. table \in Tables
  <2>1. \A r \in Counting!Rows : Holds(r[2], table[r])
    BY <1>5 DEF Holds
  <2>2. table = [r \in Counting!Rows |-> table[r]] /\ DOMAIN table = Counting!Rows
    BY <1>1
  <2>3. Typed(table)
    BY <2>1, <2>2 DEF Typed
  <2> QED
    BY <2>2, <2>3, TablesAreTyped
<1>7. StatTypes
  BY <1>1, <1>3, <1>4, <1>6, StatConstants DEF StatTypes
<1>8. Transactions
  BY <1>1, <1>2 DEF Transactions, Transaction
<1>9. LocksApart
  <2> SUFFICES ASSUME NEW s \in StatServers, NEW i \in 1..Len(done[s])
               PROVE  FALSE
    BY DEF LocksApart
  <2>1. Len(done[s]) = 0
    BY <1>1, <1>4
  <2> QED
    BY <2>1
<1>10. Balance
  <2> SUFFICES ASSUME NEW e \in Counting!Events
               PROVE  Balanced(e)
    BY DEF Balance
  <2>1. Wait(Pend, e) = {}
    <3> SUFFICES ASSUME NEW w \in Wait(Pend, e)
                 PROVE  FALSE
      OBVIOUS
    <3>1. w[1] \in StatServers /\ w[2] \in DOMAIN Pend[w[1]]
      BY DEF Wait
    <3>2. Pend[w[1]] = <<>> \o <<>>
      BY <1>1, <1>2, <3>1 DEF Pend
    <3>3. <<>> \o <<>> = <<>> /\ DOMAIN <<>> = {}
      OBVIOUS
    <3> QED
      BY <3>1, <3>2, <3>3
  <2>2. Due(e) = 0 /\ sent[e] = 0
    <3>1. Cardinality(Wait(Pend, e)) = 0 /\ lost[e] = 0 /\ sent[e] = 0
      BY <1>1, <2>1, FS_EmptySet
    <3> QED
      BY <3>1 DEF Due
  <2>3. ASSUME e \in CountedKinds
        PROVE  CountOf(table, e) + Due(e) = sent[e]
    <3>1. e \in Counting!Kinds /\ e # "Inbox"
      BY <2>3, KindsAre
    <3> DEFINE S == 0..StatClock
    <3>2. S \in SUBSET (0..StatClock)
      OBVIOUS
    <3> HIDE DEF S
    <3>3. Counting!Figure(e, In(table, "Hour", e, S)) = 0
      BY <1>5, <3>1, <3>2, NothingCounted
    <3>4. CountOf(table, e) = 0
      BY <3>1, <3>3 DEF Counting!Figure, CountOf, S
    <3> QED
      BY <2>2, <3>4
  <2>4. ASSUME e \in StatMembers
        PROVE  Due(e) <= sent[e] /\ (Due(e) < sent[e] <=> HasRow(table, e))
    <3>1. ASSUME NEW n \in 0..StatClock
          PROVE  e \notin table[<<"Hour", "Inbox", n>>]
      <4>1. <<"Hour", "Inbox", n>> \in Counting!Rows
        BY RowsAre, KindsAre
      <4>2. <<"Hour", "Inbox", n>>[2] = "Inbox"
        OBVIOUS
      <4>3. table[<<"Hour", "Inbox", n>>] = {}
        BY <1>5, <4>1, <4>2
      <4> QED
        BY <4>3
    <3>2. ~ HasRow(table, e)
      BY <3>1 DEF HasRow
    <3> DEFINE x == Due(e)  y == sent[e]
    <3>3. x = 0 /\ y = 0
      BY <2>2
    <3> HIDE DEF x, y
    <3>4. x <= y /\ ~(x < y)
      BY <3>3
    <3> QED
      BY <3>2, <3>4 DEF x, y
  <2> QED
    BY <2>3, <2>4 DEF Balanced
<1>11. DaysAgree(table)
  <2> SUFFICES ASSUME NEW d \in 0..Counting!Bucket("Day", StatClock), NEW k \in Counting!Kinds
               PROVE  table[<<"Day", k, d>>] = Counting!Figure(k, In(table, "Hour", k, HoursOf(d)))
    BY DEF DaysAgree
  <2> DEFINE S == HoursOf(d)
             x == Counting!Bucket("Hour", StatClock)  y == Counting!Bucket("Day", StatClock)
  <2>1. S \subseteq 0..x /\ x \in 0..StatClock /\ y \in 0..StatClock /\ d \in 0..y
    BY BucketsFit DEF HoursOf
  <2> HIDE DEF S, x, y
  <2>2. \A n \in S : n \in 0..StatClock
    BY <2>1, StatConstants
  <2>3. S \in SUBSET (0..StatClock) /\ d \in 0..StatClock
    BY <2>1, <2>2, StatConstants
  <2>4. Counting!Figure(k, In(table, "Hour", k, S)) = IF k = "Inbox" THEN {} ELSE 0
    BY <1>5, <2>3, NothingCounted
  <2>5. table[<<"Day", k, d>>] = IF k = "Inbox" THEN {} ELSE 0
    <3>1. <<"Day", k, d>> \in Counting!Rows /\ <<"Day", k, d>>[2] = k
      BY <2>3, RowsAre
    <3> QED
      BY <1>5, <3>1
  <2> QED
    BY <2>4, <2>5 DEF S
<1>12. Readings
  <2> DEFINE z == <<>>
  <2>1. figures = [at |-> 0, left |-> z, got |-> z]
    BY <1>1
  <2>2. z \in Seq(Answers) /\ z \in Seq(Questions) /\ Read(table, 0, z)
    BY NothingRead
  <2>3. 0 \in 0..StatClock
    BY StatConstants
  <2> HIDE DEF z
  <2>4. figures \in [at : 0..StatClock, left : Seq(Questions), got : Seq(Answers)]
        /\ figures.left = z /\ figures.got = z /\ figures.at = 0
    BY <2>1, <2>2, <2>3
  <2> QED
    BY <2>2, <2>4 DEF Readings, z
<1> QED
  BY <1>7, <1>8, <1>9, <1>10, <1>11, <1>12 DEF StatIInv, WorkerFits
=============================================================================
