----------------------------- MODULE PagesProofs -----------------------------
(***************************************************************************)
(* The properties of MCPages, proved of its behaviours: of browsers and    *)
(* screenshots, of what a screenshot asks for, of fonts and their          *)
(* metadata, of favicons, of statistics and of queries. Each component has *)
(* an invariant of its own, which holds in the part that runs it; that of  *)
(* the statistics and what loops compute are in StatsProofs.               *)
(***************************************************************************)
EXTENDS StatsProofs

-----------------------------------------------------------------------------
(* One Chromium *)

\* The bounds of the part that renders.
LEMMA CdpConstants ==
  /\ IsFiniteSet(Renders) /\ ChromeRenders \in Nat \ {0}
  /\ \A S : Chromium!Cardinality(S) = Cardinality(S)
<1>1. \A S : Chromium!IsFiniteSet(S) <=> IsFiniteSet(S)
  BY DEF Chromium!IsFiniteSet, IsFiniteSet
<1>2. \A S : Chromium!Cardinality(S) = Cardinality(S)
  BY DEF Chromium!Cardinality, Cardinality
<1> QED
  BY <1>1, <1>2, PartsAssumption DEF PartsAssumption, Chromium!CdpAssumption

\* The calls of a render, one for each step.
LEMMA StepsShape ==
  /\ Len(Chromium!Steps) = 6
  /\ Chromium!Steps[1] = "context" /\ Chromium!Steps[2] = "prepare"
  /\ Chromium!Steps[3] = "wait" /\ Chromium!Steps[4] = "navigate"
  /\ Chromium!Steps[5] = "load" /\ Chromium!Steps[6] = "capture"
BY DEF Chromium!Steps

\* What Chromium sends.
ChromeAnswers == [type : {"answer"}, id : Nat, of : Chromium!Requests, ok : BOOLEAN]
ChromeEvents == [type : {"load"}, from : Renders]
Jobs == [Renders -> [pc : {"idle", "go", "await", "ended"}, step : 1..6]]
Guards == [Renders -> {"none", "held", "drop", "wait", "gone"}]

CdpTypes ==
  /\ handle \in BOOLEAN /\ running \in BOOLEAN /\ up \in BOOLEAN
  /\ renders \in Nat /\ nextId \in Nat
  /\ job \in Jobs /\ guard \in Guards
  /\ queue \in Seq(Chromium!Requests)
  /\ pending \subseteq [id : Nat, from : Renders, method : Chromium!Methods \ {"wait"}]
  /\ todo \subseteq [id : Nat, req : Chromium!Requests]
  /\ wire \in Seq(ChromeAnswers \cup ChromeEvents)
  /\ waiters \subseteq Renders /\ fired \subseteq Renders /\ contexts \subseteq Renders
  /\ loading \subseteq Renders /\ heard \subseteq Renders

\* Renders that got their context are counted.
Past == {r \in Renders : job[r].step >= 2}
RendersCounted == renders = Cardinality(Past)

\* Ids that are in use are below the next one, and one id is one call.
IdsFit ==
  /\ \A p \in pending : p.id < nextId
  /\ \A t \in todo : t.id < nextId
  /\ \A i \in DOMAIN wire : wire[i].type = "answer" => wire[i].id < nextId
  /\ \A p \in pending, t \in todo :
       t.id = p.id => t.req = [from |-> p.from, method |-> p.method]
  /\ \A i \in DOMAIN wire : wire[i].type = "answer" =>
       \A p \in pending : p.id = wire[i].id =>
         wire[i].of = [from |-> p.from, method |-> p.method]

\* Whose load event finds a waiter, and who waits in the first n of the queue.
Registered == waiters \cup fired
WaitIn(q, r, n) == \E i \in 1..n : q[i] = [from |-> r, method |-> "wait"]

\* A waiter goes before the call whose load event it waits for.
WaitsFit ==
  /\ running => \A r \in Renders : job[r].step >= 4 =>
                  r \in Registered \/ WaitIn(queue, r, Len(queue))
  /\ \A j \in 1..Len(queue) : queue[j].method = "navigate" =>
       queue[j].from \in Registered \/ WaitIn(queue, queue[j].from, j - 1)
  /\ \A t \in todo : t.req.method = "navigate" => t.req.from \in Registered
  /\ loading \subseteq Registered
  /\ \A i \in DOMAIN wire : wire[i].type = "load" => wire[i].from \in Registered
  /\ heard \subseteq fired

CdpIInv == CdpTypes /\ RendersCounted /\ IdsFit /\ WaitsFit

-----------------------------------------------------------------------------

\* What waits in the queue of the actor.
LEMMA RequestsShape ==
  /\ \A r \in Renders, m \in Chromium!Methods :
       [from |-> r, method |-> m] \in Chromium!Requests
  /\ \A q \in Chromium!Requests :
       /\ q.from \in Renders /\ q.method \in Chromium!Methods
       /\ q = [from |-> q.from, method |-> q.method]
  /\ \A m \in Chromium!Methods :
       m \in {"context", "prepare", "wait", "navigate", "capture", "dispose"}
BY DEF Chromium!Requests, Chromium!Methods

\* What Chromium has sent, or will have.
LEMMA WireShape ==
  ASSUME CdpTypes, NEW i \in DOMAIN wire
  PROVE  /\ wire[i] \in ChromeAnswers \/ wire[i] \in ChromeEvents
         /\ wire[i].type = "answer" => /\ wire[i].id \in Nat /\ wire[i].of \in Chromium!Requests
                                       /\ wire[i].ok \in BOOLEAN
         /\ wire[i].type = "load" => wire[i].from \in Renders
<1>1. wire[i] \in ChromeAnswers \cup ChromeEvents
  BY DEF CdpTypes
<1> QED
  BY <1>1 DEF ChromeAnswers, ChromeEvents

\* What a longer sequence holds, and one without its head.
LEMMA Appended ==
  ASSUME NEW S, NEW q \in Seq(S), NEW x \in S
  PROVE  /\ Append(q, x) \in Seq(S) /\ Len(Append(q, x)) = Len(q) + 1
         /\ Len(q) \in Nat /\ DOMAIN q = 1..Len(q)
         /\ DOMAIN Append(q, x) = 1..(Len(q) + 1)
         /\ \A i \in 1..Len(q) : Append(q, x)[i] = q[i]
         /\ Append(q, x)[Len(q) + 1] = x
OBVIOUS

\* What is in a sequence is its head or in its tail.
LEMMA Beheaded ==
  ASSUME NEW S, NEW q \in Seq(S), q # <<>>
  PROVE  /\ Tail(q) \in Seq(S) /\ Len(q) \in Nat \ {0} /\ Len(Tail(q)) = Len(q) - 1
         /\ DOMAIN q = 1..Len(q) /\ DOMAIN Tail(q) = 1..(Len(q) - 1)
         /\ Head(q) = q[1] /\ Head(q) \in S
         /\ \A i \in 1..(Len(q) - 1) : Tail(q)[i] = q[i + 1]
OBVIOUS

\* Nothing has been called.
LEMMA InitCdp == Chromium!Init => CdpIInv
<1> SUFFICES ASSUME Chromium!Init
             PROVE  CdpIInv
  OBVIOUS
<1>1. /\ handle = TRUE /\ renders = 0 /\ queue = <<>> /\ pending = {} /\ nextId = 1
      /\ job = [r \in Renders |-> [pc |-> "idle", step |-> 1]]
      /\ guard = [r \in Renders |-> "none"] /\ waiters = {} /\ fired = {}
      /\ running = TRUE /\ up = TRUE /\ todo = {} /\ wire = <<>> /\ contexts = {}
      /\ loading = {} /\ heard = {}
  BY DEF Chromium!Init
<1>2. <<>> \in Seq(Chromium!Requests) /\ <<>> \in Seq(ChromeAnswers \cup ChromeEvents)
  BY EmptySeq
<1>3. CdpTypes
  BY <1>1, <1>2 DEF CdpTypes, Jobs, Guards
<1>4. Past = {}
  BY <1>1 DEF Past
<1>5. RendersCounted
  BY <1>1, <1>4, FS_EmptySet DEF RendersCounted
<1>6. IdsFit /\ WaitsFit
  BY <1>1 DEF IdsFit, WaitsFit
<1> QED
  BY <1>3, <1>5, <1>6 DEF CdpIInv

\* Steps that leave the actor and Chromium alone.
LEMMA ClientKeeps ==
  ASSUME CdpIInv, handle' \in BOOLEAN, job' \in Jobs, guard' \in Guards,
         \A r \in Renders : /\ job'[r].step >= 2 <=> job[r].step >= 2
                            /\ job'[r].step >= 4 => job[r].step >= 4,
         renders' = renders, UNCHANGED <<Chromium!actor, Chromium!chrome>>
  PROVE  CdpIInv'
<1> USE DEF CdpIInv
<1>1. UNCHANGED <<queue, pending, nextId, waiters, fired, running, heard,
                  up, todo, wire, contexts, loading>>
  BY DEF Chromium!actor, Chromium!chrome
<1>2. CdpTypes'
  BY <1>1 DEF CdpTypes
<1>3. Past' = Past
  BY DEF Past
<1>4. RendersCounted'
  BY <1>3 DEF RendersCounted
<1>5. IdsFit'
  BY <1>1 DEF IdsFit
<1>6. WaitsFit'
  BY <1>1 DEF WaitsFit, Registered, WaitIn
<1> QED
  BY <1>2, <1>4, <1>5, <1>6

\* A render moves on.
LEMMA JobsShape ==
  ASSUME CdpTypes, NEW r \in Renders
  PROVE  /\ job[r].pc \in {"idle", "go", "await", "ended"} /\ job[r].step \in 1..6
         /\ job[r] = [pc |-> job[r].pc, step |-> job[r].step]
         /\ Chromium!Ended(r) = [pc |-> "ended", step |-> job[r].step]
         /\ job[r] \in [pc : {"idle", "go", "await", "ended"}, step : 1..6]
         /\ Chromium!Ended(r) \in [pc : {"idle", "go", "await", "ended"}, step : 1..6]
         /\ Chromium!Ended(r).step = job[r].step
         /\ guard[r] \in {"none", "held", "drop", "wait", "gone"}
         /\ Chromium!Unguarded(r) \in {"none", "held", "drop", "wait", "gone"}
BY DEF CdpTypes, Jobs, Guards, Chromium!Ended, Chromium!Unguarded

\* A render ends before its page is loaded, or is ended.
LEMMA EndKeeps ==
  ASSUME CdpIInv, NEW r \in Renders, Chromium!End(r)
  PROVE  /\ job' \in Jobs /\ guard' \in Guards
         /\ \A d \in Renders : job'[d].step = job[d].step
<1>1. /\ job' = [job EXCEPT ![r] = [pc |-> "ended", step |-> job[r].step]]
      /\ guard' = [guard EXCEPT ![r] = Chromium!Unguarded(r)]
  BY JobsShape DEF Chromium!End, CdpIInv
<1> QED
  BY <1>1, JobsShape DEF CdpIInv, CdpTypes, Jobs, Guards

\* The steps of renders that put no call into the queue.
LEMMA ClientCdp ==
  ASSUME CdpIInv,
         \/ Chromium!Replace
         \/ \E r \in Renders : \/ Chromium!Start(r) \/ Chromium!CallClosed(r)
                               \/ Chromium!Loaded(r) \/ Chromium!NavTimeout(r)
                               \/ Chromium!Cancel(r) \/ Chromium!DisposeTimeout(r)
  PROVE  CdpIInv'
<1>1. CASE Chromium!Replace
  <2>1. /\ handle' = FALSE /\ UNCHANGED <<renders, job, guard, Chromium!actor, Chromium!chrome>>
    BY <1>1 DEF Chromium!Replace
  <2> QED
    BY <2>1, ClientKeeps DEF CdpIInv, CdpTypes
<1>2. ASSUME NEW r \in Renders,
             Chromium!CallClosed(r) \/ Chromium!NavTimeout(r) \/ Chromium!Cancel(r)
      PROVE  CdpIInv'
  <2>1. Chromium!End(r) /\ UNCHANGED <<handle, renders, Chromium!actor, Chromium!chrome>>
    BY <1>2 DEF Chromium!CallClosed, Chromium!NavTimeout, Chromium!Cancel
  <2> QED
    BY <2>1, EndKeeps, ClientKeeps DEF CdpIInv, CdpTypes
<1>3. ASSUME NEW r \in Renders, Chromium!Start(r)
      PROVE  CdpIInv'
  <2>1. /\ job' = [job EXCEPT ![r].pc = "go"]
        /\ UNCHANGED <<handle, renders, guard, Chromium!actor, Chromium!chrome>>
    BY <1>3 DEF Chromium!Start
  <2>2. job' \in Jobs /\ \A d \in Renders : job'[d].step = job[d].step
    BY <2>1 DEF CdpIInv, CdpTypes, Jobs
  <2> QED
    BY <2>1, <2>2, ClientKeeps DEF CdpIInv, CdpTypes
<1>4. ASSUME NEW r \in Renders, Chromium!Loaded(r)
      PROVE  CdpIInv'
  <2>1. /\ Chromium!Steps[job[r].step] = "load" /\ job[r].step \in 1..6
        /\ job' = [job EXCEPT ![r] = [pc |-> "go", step |-> job[r].step + 1]]
        /\ UNCHANGED <<handle, renders, guard, Chromium!actor, Chromium!chrome>>
    BY <1>4, JobsShape DEF Chromium!Loaded, Chromium!At, CdpIInv
  <2>2. job[r].step = 5
    BY <2>1, StepsShape
  <2>3. /\ job' \in Jobs /\ job'[r].step = 6
        /\ \A d \in Renders \ {r} : job'[d].step = job[d].step
    BY <2>1, <2>2 DEF CdpIInv, CdpTypes, Jobs
  <2>4. \A d \in Renders : /\ job'[d].step >= 2 <=> job[d].step >= 2
                           /\ job'[d].step >= 4 => job[d].step >= 4
    BY <2>2, <2>3
  <2> QED
    BY <2>1, <2>3, <2>4, ClientKeeps DEF CdpIInv, CdpTypes
<1>5. ASSUME NEW r \in Renders, Chromium!DisposeTimeout(r)
      PROVE  CdpIInv'
  <2>1. /\ guard' = [guard EXCEPT ![r] = "gone"]
        /\ UNCHANGED <<handle, renders, job, Chromium!actor, Chromium!chrome>>
    BY <1>5 DEF Chromium!DisposeTimeout
  <2>2. guard' \in Guards
    BY <2>1 DEF CdpIInv, CdpTypes, Guards
  <2> QED
    BY <2>1, <2>2, ClientKeeps DEF CdpIInv, CdpTypes
<1> QED
  BY <1>1, <1>2, <1>3, <1>4, <1>5

\* A call is put into the queue.
LEMMA QueueGrows ==
  ASSUME CdpIInv, NEW q \in Chromium!Requests, queue' = Append(queue, q),
         job' \in Jobs, guard' \in Guards,
         \A r \in Renders :
           /\ job'[r].step >= 2 <=> job[r].step >= 2
           /\ job'[r].step >= 4 =>
                job[r].step >= 4 \/ q = [from |-> r, method |-> "wait"],
         q.method = "navigate" => q.from \in Registered \/ WaitIn(queue, q.from, Len(queue)),
         UNCHANGED <<handle, renders, pending, nextId, waiters, fired, running, heard,
                     Chromium!chrome>>
  PROVE  CdpIInv'
<1> USE DEF CdpIInv
<1>1. UNCHANGED <<up, todo, wire, contexts, loading>>
  BY DEF Chromium!chrome
<1>2. /\ queue' \in Seq(Chromium!Requests) /\ Len(queue') = Len(queue) + 1
      /\ Len(queue) \in Nat /\ queue'[Len(queue) + 1] = q
      /\ \A i \in 1..Len(queue) : queue'[i] = queue[i]
  BY Appended DEF CdpTypes
<1>3. CdpTypes'
  BY <1>1, <1>2 DEF CdpTypes
<1>4. Past' = Past
  BY DEF Past
<1>5. RendersCounted'
  BY <1>4 DEF RendersCounted
<1>6. IdsFit'
  BY <1>1 DEF IdsFit
<1>7. Registered' = Registered
  BY DEF Registered
<1>8. ASSUME NEW r, NEW n \in 0..Len(queue), WaitIn(queue, r, n)
      PROVE  /\ WaitIn(queue', r, n)
             /\ \E i \in 1..(Len(queue) + 1) : queue'[i] = [from |-> r, method |-> "wait"]
  BY <1>2, <1>8 DEF WaitIn
<1>9. ASSUME running', NEW r \in Renders, job'[r].step >= 4
      PROVE  r \in Registered' \/ WaitIn(queue', r, Len(queue'))
  <2>1. CASE q = [from |-> r, method |-> "wait"]
    BY <1>2, <2>1 DEF WaitIn
  <2>2. CASE job[r].step >= 4
    <3>1. r \in Registered \/ WaitIn(queue, r, Len(queue))
      BY <1>9, <2>2 DEF WaitsFit
    <3>2. CASE WaitIn(queue, r, Len(queue))
      BY <1>2, <1>8, <3>2 DEF WaitIn
    <3> QED
      BY <1>7, <3>1, <3>2
  <2> QED
    BY <1>9, <2>1, <2>2
<1>10. ASSUME NEW r, NEW j \in 1..Len(queue'),
              queue'[j].method = "navigate", r = queue'[j].from
       PROVE  r \in Registered' \/ WaitIn(queue', r, j - 1)
  <2>1. CASE j = Len(queue) + 1
    <3>1. r \in Registered \/ WaitIn(queue, r, Len(queue))
      BY <1>2, <1>10, <2>1
    <3>2. WaitIn(queue, r, Len(queue)) => WaitIn(queue', r, Len(queue))
      <4>1. Len(queue) \in 0..Len(queue)
        BY <1>2
      <4> QED
        BY <1>8, <4>1
    <3> QED
      BY <1>2, <1>7, <2>1, <3>1, <3>2
  <2>2. CASE j \in 1..Len(queue)
    <3>1. queue'[j] = queue[j] /\ j - 1 \in 0..Len(queue)
      BY <1>2, <2>2
    <3>2. r \in Registered \/ WaitIn(queue, r, j - 1)
      BY <1>10, <2>2, <3>1 DEF WaitsFit
    <3> QED
      BY <1>7, <1>8, <3>1, <3>2
  <2> QED
    BY <1>2, <2>1, <2>2
<1>11. WaitsFit'
  <2>1. /\ running' => \A r \in Renders : job'[r].step >= 4 =>
                        r \in Registered' \/ WaitIn(queue', r, Len(queue'))
        /\ \A t \in todo' : t.req.method = "navigate" => t.req.from \in Registered'
        /\ loading' \subseteq Registered'
        /\ \A i \in DOMAIN wire' : wire'[i].type = "load" => wire'[i].from \in Registered'
        /\ heard' \subseteq fired'
    BY <1>1, <1>2, <1>7, <1>9 DEF WaitsFit
  <2> QED
    BY <1>10, <2>1 DEF WaitsFit, Registered, WaitIn
<1> QED
  BY <1>3, <1>5, <1>6, <1>11

\* A render calls, or waits for its load event.
LEMMA CallCdp ==
  ASSUME CdpIInv, NEW r \in Renders, Chromium!Call(r) \/ Chromium!Dispose(r)
  PROVE  CdpIInv'
<1> USE DEF CdpIInv
<1>1. CASE Chromium!Dispose(r)
  <2>1. UNCHANGED <<handle, renders, job, pending, nextId, waiters, fired, running, heard,
                    Chromium!chrome>>
    BY <1>1 DEF Chromium!Dispose
  <2>2. CASE running
    <3>1. /\ queue' = Append(queue, [from |-> r, method |-> "dispose"])
          /\ guard' = [guard EXCEPT ![r] = "wait"]
      BY <1>1, <2>2 DEF Chromium!Dispose
    <3>2. [from |-> r, method |-> "dispose"] \in Chromium!Requests
      BY DEF Chromium!Requests, Chromium!Methods
    <3>3. guard' \in Guards
      BY <3>1 DEF CdpTypes, Guards
    <3> QED
      BY <2>1, <3>1, <3>2, <3>3, QueueGrows DEF CdpTypes
  <2>3. CASE ~running
    <3>1. guard' = [guard EXCEPT ![r] = "gone"] /\ queue' = queue
      BY <1>1, <2>3 DEF Chromium!Dispose
    <3>2. guard' \in Guards
      BY <3>1 DEF CdpTypes, Guards
    <3>3. UNCHANGED Chromium!actor
      BY <2>1, <3>1 DEF Chromium!actor
    <3> QED
      BY <2>1, <3>2, <3>3, ClientKeeps DEF CdpTypes
  <2> QED
    BY <2>2, <2>3
<1>2. CASE Chromium!Call(r)
  <2> DEFINE step == Chromium!Steps[job[r].step]
             q == [from |-> r, method |-> step]
  <2>1. /\ running
        /\ queue' = IF step = "load" THEN queue ELSE Append(queue, q)
        /\ job' = [job EXCEPT ![r] = IF step = "wait" THEN [pc |-> "go", step |-> job[r].step + 1]
                                     ELSE [job[r] EXCEPT !.pc = "await"]]
        /\ UNCHANGED <<handle, renders, guard, pending, nextId, waiters, fired, running, heard,
                       Chromium!chrome>>
    BY <1>2 DEF Chromium!Call
  <2>2. PICK s \in 1..6 : s = job[r].step
    BY JobsShape
  <2>3. /\ s = 1 => step = "context"
        /\ s = 2 => step = "prepare"
        /\ s = 3 => step = "wait"
        /\ s = 4 => step = "navigate"
        /\ s = 5 => step = "load"
        /\ s = 6 => step = "capture"
    BY <2>2, StepsShape
  <2> HIDE DEF step
  <2>4. /\ step = "wait" <=> s = 3
        /\ step = "navigate" <=> s = 4
        /\ step # "load" => q \in Chromium!Requests
    BY <2>2, <2>3 DEF Chromium!Requests, Chromium!Methods
  <2>5. /\ job' \in Jobs /\ \A d \in Renders \ {r} : job'[d].step = job[d].step
        /\ job'[r].step = IF step = "wait" THEN s + 1 ELSE s
    <3>1. CASE step = "wait"
      BY <2>1, <2>2, <2>4, <3>1 DEF CdpTypes, Jobs
    <3>2. CASE step # "wait"
      BY <2>1, <2>2, <3>2 DEF CdpTypes, Jobs
    <3> QED
      BY <3>1, <3>2
  <2>6. CASE step = "load"
    <3>1. UNCHANGED Chromium!actor
      BY <2>1, <2>6 DEF Chromium!actor
    <3>2. \A d \in Renders : job'[d].step = job[d].step
      BY <2>2, <2>5, <2>6
    <3> QED
      BY <2>1, <2>5, <3>1, <3>2, ClientKeeps DEF CdpTypes
  <2>7. CASE step # "load"
    <3>1. q.from = r /\ q.method = step /\ q \in Chromium!Requests /\ queue' = Append(queue, q)
      BY <2>1, <2>4, <2>7
    <3>2. step = "navigate" => r \in Registered \/ WaitIn(queue, r, Len(queue))
      BY <2>1, <2>2, <2>4 DEF WaitsFit
    <3>3. \A d \in Renders :
            /\ job'[d].step >= 2 <=> job[d].step >= 2
            /\ job'[d].step >= 4 => job[d].step >= 4 \/ q = [from |-> d, method |-> "wait"]
      <4> SUFFICES ASSUME NEW d \in Renders
                   PROVE  /\ job'[d].step >= 2 <=> job[d].step >= 2
                          /\ job'[d].step >= 4 =>
                               job[d].step >= 4 \/ q = [from |-> d, method |-> "wait"]
        OBVIOUS
      <4>1. CASE d # r
        BY <2>5, <4>1
      <4>2. CASE d = r /\ step = "wait"
        BY <2>2, <2>4, <2>5, <4>2
      <4>3. CASE d = r /\ step # "wait"
        BY <2>2, <2>5, <4>3
      <4> QED
        BY <4>1, <4>2, <4>3
    <3> HIDE DEF q
    <3> QED
      BY <2>1, <2>5, <3>1, <3>2, <3>3, QueueGrows DEF CdpTypes
  <2> QED
    BY <2>6, <2>7
<1> QED
  BY <1>1, <1>2

\* The actor leaves its loop: nothing is left to fit.
LEMMA ExitCdp ==
  ASSUME CdpIInv, Chromium!Exit
  PROVE  CdpIInv'
<1> USE DEF CdpIInv
<1>1. /\ running' = FALSE /\ up' = FALSE
      /\ queue' = <<>> /\ wire' = <<>> /\ todo' = {} /\ pending' = {}
      /\ waiters' = {} /\ contexts' = {} /\ loading' = {}
      /\ UNCHANGED <<handle, renders, nextId, fired, heard>>
  BY DEF Chromium!Exit
<1>2. /\ job' = [r \in Renders |-> job'[r]] /\ guard' = [r \in Renders |-> guard'[r]]
      /\ \A r \in Renders : job'[r] \in {job[r], Chromium!Ended(r)}
      /\ \A r \in Renders : guard'[r] \in {guard[r], Chromium!Unguarded(r), "gone"}
  BY DEF Chromium!Exit
<1>3. job' \in Jobs /\ guard' \in Guards /\ \A r \in Renders : job'[r].step = job[r].step
  <2>1. \A r \in Renders :
          /\ job'[r] \in [pc : {"idle", "go", "await", "ended"}, step : 1..6]
          /\ job'[r].step = job[r].step
          /\ guard'[r] \in {"none", "held", "drop", "wait", "gone"}
    <3> SUFFICES ASSUME NEW r \in Renders
                 PROVE  /\ job'[r] \in [pc : {"idle", "go", "await", "ended"}, step : 1..6]
                        /\ job'[r].step = job[r].step
                        /\ guard'[r] \in {"none", "held", "drop", "wait", "gone"}
      OBVIOUS
    <3>1. job'[r] = job[r] \/ job'[r] = Chromium!Ended(r)
      BY <1>2
    <3>2. job'[r] \in [pc : {"idle", "go", "await", "ended"}, step : 1..6]
          /\ job'[r].step = job[r].step
      BY <3>1, JobsShape
    <3>3. guard'[r] = guard[r] \/ guard'[r] = Chromium!Unguarded(r) \/ guard'[r] = "gone"
      BY <1>2
    <3>4. guard'[r] \in {"none", "held", "drop", "wait", "gone"}
      BY <3>3, JobsShape
    <3> QED
      BY <3>2, <3>4
  <2> QED
    BY <1>2, <2>1 DEF Jobs, Guards
<1>4. <<>> \in Seq(Chromium!Requests) /\ <<>> \in Seq(ChromeAnswers \cup ChromeEvents)
      /\ Len(<<>>) = 0
  BY EmptySeq
<1>5. CdpTypes'
  BY <1>1, <1>3, <1>4 DEF CdpTypes
<1>6. Past' = Past
  BY <1>3 DEF Past
<1>7. RendersCounted'
  BY <1>1, <1>6 DEF RendersCounted
<1>8. IdsFit'
  BY <1>1 DEF IdsFit
<1>9. WaitsFit'
  BY <1>1 DEF WaitsFit
<1> QED
  BY <1>5, <1>7, <1>8, <1>9

\* A request is taken from the queue: those behind it move up.
LEMMA TakenFits ==
  ASSUME CdpIInv, queue # <<>>, queue' = Tail(queue),
         Registered \subseteq Registered',
         Head(queue).method = "wait" => Head(queue).from \in Registered'
  PROVE  /\ \A r : r \in Registered \/ WaitIn(queue, r, Len(queue)) =>
                   r \in Registered' \/ WaitIn(queue', r, Len(queue'))
         /\ \A j \in 1..Len(queue') : queue'[j].method = "navigate" =>
              queue'[j].from \in Registered' \/ WaitIn(queue', queue'[j].from, j - 1)
         /\ Head(queue).method = "navigate" => Head(queue).from \in Registered
<1> USE DEF CdpIInv
<1>1. /\ Len(queue) \in Nat \ {0} /\ Len(queue') = Len(queue) - 1 /\ Head(queue) = queue[1]
      /\ \A i \in 1..(Len(queue) - 1) : queue'[i] = queue[i + 1]
  BY Beheaded DEF CdpTypes
<1>2. ASSUME NEW r, NEW n \in 1..Len(queue), WaitIn(queue, r, n)
      PROVE  r \in Registered' \/ WaitIn(queue', r, n - 1)
  <2>1. PICK i \in 1..n : queue[i] = [from |-> r, method |-> "wait"]
    BY <1>2 DEF WaitIn
  <2>2. CASE i = 1
    BY <1>1, <2>1, <2>2
  <2>3. CASE i # 1
    <3>1. i - 1 \in 1..(n - 1) /\ i - 1 \in 1..(Len(queue) - 1)
      BY <1>1, <2>3
    <3>2. queue'[i - 1] = queue[i]
      BY <1>1, <3>1
    <3> QED
      BY <2>1, <3>1, <3>2 DEF WaitIn
  <2> QED
    BY <2>2, <2>3
<1>3. ASSUME NEW r, r \in Registered \/ WaitIn(queue, r, Len(queue))
      PROVE  r \in Registered' \/ WaitIn(queue', r, Len(queue'))
  <2>1. Len(queue) \in 1..Len(queue)
    BY <1>1
  <2> QED
    BY <1>1, <1>2, <1>3, <2>1
<1>4. ASSUME NEW j \in 1..Len(queue'), queue'[j].method = "navigate"
      PROVE  queue'[j].from \in Registered' \/ WaitIn(queue', queue'[j].from, j - 1)
  <2>1. j + 1 \in 1..Len(queue) /\ queue'[j] = queue[j + 1] /\ (j + 1) - 1 = j /\ j \in 1..Len(queue)
    BY <1>1
  <2>2. queue[j + 1].from \in Registered \/ WaitIn(queue, queue[j + 1].from, j)
    BY <1>4, <2>1 DEF WaitsFit
  <2> QED
    BY <1>2, <2>1, <2>2
<1>5. Head(queue).method = "navigate" => Head(queue).from \in Registered
  <2>1. 1 \in 1..Len(queue)
    BY <1>1
  <2>2. \A r : ~WaitIn(queue, r, 1 - 1)
    BY DEF WaitIn
  <2> QED
    BY <1>1, <2>1, <2>2 DEF WaitsFit
<1> QED
  BY <1>3, <1>4, <1>5

\* The actor takes a request: a call is sent, a waiter is noted.
LEMMA TakeRequestCdp ==
  ASSUME CdpIInv, Chromium!TakeRequest
  PROVE  CdpIInv'
<1> USE DEF CdpIInv
<1> DEFINE q == Head(queue)
<1>1. /\ running /\ queue # <<>> /\ queue' = Tail(queue)
      /\ UNCHANGED <<handle, renders, job, guard, fired, running, heard, up, wire,
                     contexts, loading>>
  BY DEF Chromium!TakeRequest, Chromium!client
<1>2. /\ q \in Chromium!Requests /\ queue' \in Seq(Chromium!Requests)
      /\ q.from \in Renders /\ q.method \in Chromium!Methods
      /\ q = [from |-> q.from, method |-> q.method]
  BY <1>1, Beheaded, RequestsShape DEF CdpTypes
<1>3. Past' = Past
  BY <1>1 DEF Past
<1>4. RendersCounted'
  BY <1>1, <1>3 DEF RendersCounted
<1>5. CASE q.method = "wait"
  <2>1. waiters' = waiters \cup {q.from} /\ UNCHANGED <<pending, nextId, todo>>
    BY <1>5 DEF Chromium!TakeRequest
  <2>2. Registered \subseteq Registered' /\ q.from \in Registered'
    BY <1>1, <2>1 DEF Registered
  <2>3. CdpTypes'
    BY <1>1, <1>2, <2>1 DEF CdpTypes
  <2>4. IdsFit'
    BY <1>1, <2>1 DEF IdsFit
  <2>5. /\ \A r : r \in Registered \/ WaitIn(queue, r, Len(queue)) =>
                  r \in Registered' \/ WaitIn(queue', r, Len(queue'))
        /\ \A j \in 1..Len(queue') : queue'[j].method = "navigate" =>
             queue'[j].from \in Registered' \/ WaitIn(queue', queue'[j].from, j - 1)
    BY <1>1, <2>2, TakenFits
  <2> HIDE DEF q
  <2>6. WaitsFit'
    BY <1>1, <2>1, <2>2, <2>5 DEF WaitsFit
  <2> QED
    BY <1>4, <2>3, <2>4, <2>6
<1>6. CASE q.method # "wait"
  <2> DEFINE p == [id |-> nextId, from |-> q.from, method |-> q.method]
             t == [id |-> nextId, req |-> q]
  <2>1. /\ waiters' = waiters /\ nextId' = nextId + 1
        /\ pending' = {x \in pending : x.id # nextId} \cup {p}
        /\ todo' \in {todo, todo \cup {t}}
    BY <1>6 DEF Chromium!TakeRequest, Chromium!NewId
  <2>2. /\ nextId \in Nat /\ p.id = nextId /\ t.id = nextId /\ t.req = q
        /\ q = [from |-> p.from, method |-> p.method]
        /\ p \in [id : Nat, from : Renders, method : Chromium!Methods \ {"wait"}]
        /\ t \in [id : Nat, req : Chromium!Requests]
    BY <1>2, <1>6 DEF CdpTypes
  <2>3. Registered' = Registered
    BY <1>1, <2>1 DEF Registered
  <2>4. /\ \A r : r \in Registered \/ WaitIn(queue, r, Len(queue)) =>
                  r \in Registered' \/ WaitIn(queue', r, Len(queue'))
        /\ \A j \in 1..Len(queue') : queue'[j].method = "navigate" =>
             queue'[j].from \in Registered' \/ WaitIn(queue', queue'[j].from, j - 1)
        /\ q.method = "navigate" => q.from \in Registered
    BY <1>1, <1>6, <2>3, TakenFits
  <2> HIDE DEF p, t, q
  <2>5. CdpTypes'
    BY <1>1, <1>2, <2>1, <2>2 DEF CdpTypes
  <2>6. IdsFit'
    <3>1. \A x \in pending' : x = p \/ (x \in pending /\ x.id < nextId)
      BY <2>1 DEF IdsFit
    <3>2. \A y \in todo' : y = t \/ (y \in todo /\ y.id < nextId)
      BY <2>1 DEF IdsFit
    <3>3. \A i \in DOMAIN wire : wire[i].type = "answer" => wire[i].id < nextId /\ wire[i].id \in Nat
      BY WireShape DEF IdsFit
    <3>4. \A x \in pending' : x.id < nextId' /\ x.id \in Nat
      BY <2>1, <2>2, <3>1 DEF CdpTypes
    <3>5. \A y \in todo' : y.id < nextId' /\ y.id \in Nat
      BY <2>1, <2>2, <3>2 DEF CdpTypes
    <3>6. ASSUME NEW x \in pending', NEW y \in todo', y.id = x.id
          PROVE  y.req = [from |-> x.from, method |-> x.method]
      <4>1. CASE x = p /\ y = t
        BY <2>2, <4>1
      <4>2. CASE x # p /\ y # t
        BY <3>1, <3>2, <3>6, <4>2 DEF IdsFit
      <4>3. ~(x = p /\ y # t) /\ ~(x # p /\ y = t)
        BY <2>2, <3>1, <3>2, <3>6
      <4> QED
        BY <4>1, <4>2, <4>3
    <3>7. ASSUME NEW i \in DOMAIN wire, wire[i].type = "answer",
                 NEW x \in pending', x.id = wire[i].id
          PROVE  wire[i].of = [from |-> x.from, method |-> x.method]
      <4>1. x \in pending
        BY <2>2, <3>1, <3>3, <3>7
      <4> QED
        BY <3>7, <4>1 DEF IdsFit
    <3>8. \A i \in DOMAIN wire : wire[i].type = "answer" => wire[i].id < nextId'
      BY <2>1, <2>2, <3>3
    <3> QED
      BY <1>1, <3>4, <3>5, <3>6, <3>7, <3>8 DEF IdsFit
  <2>7. \A y \in todo' : y.req.method = "navigate" => y.req.from \in Registered
    BY <2>1, <2>2, <2>4 DEF WaitsFit
  <2>8. WaitsFit'
    BY <1>1, <2>3, <2>4, <2>7 DEF WaitsFit
  <2> QED
    BY <1>4, <2>5, <2>6, <2>8
<1> QED
  BY <1>5, <1>6

\* Chromium sends one more message, or the actor has read one.
LEMMA WireGrows ==
  ASSUME CdpTypes, NEW m \in ChromeAnswers \cup ChromeEvents, wire' = Append(wire, m)
  PROVE  /\ wire' \in Seq(ChromeAnswers \cup ChromeEvents)
         /\ \A i \in DOMAIN wire' : wire'[i] = m \/ (i \in DOMAIN wire /\ wire'[i] = wire[i])
<1>1. /\ Append(wire, m) \in Seq(ChromeAnswers \cup ChromeEvents)
      /\ Len(wire) \in Nat /\ DOMAIN wire = 1..Len(wire)
      /\ DOMAIN Append(wire, m) = 1..(Len(wire) + 1)
      /\ \A i \in 1..Len(wire) : Append(wire, m)[i] = wire[i]
      /\ Append(wire, m)[Len(wire) + 1] = m
  BY Appended DEF CdpTypes
<1> QED
  BY <1>1

\* The actor has read the first message.
LEMMA WireRead ==
  ASSUME CdpTypes, wire # <<>>, wire' = Tail(wire)
  PROVE  /\ wire' \in Seq(ChromeAnswers \cup ChromeEvents)
         /\ \E i \in DOMAIN wire : wire[i] = Head(wire)
         /\ \A i \in DOMAIN wire' : \E j \in DOMAIN wire : wire'[i] = wire[j]
<1>1. /\ Tail(wire) \in Seq(ChromeAnswers \cup ChromeEvents)
      /\ Len(wire) \in Nat \ {0} /\ Len(Tail(wire)) = Len(wire) - 1
      /\ DOMAIN wire = 1..Len(wire) /\ DOMAIN Tail(wire) = 1..(Len(wire) - 1)
      /\ Head(wire) = wire[1]
      /\ \A i \in 1..(Len(wire) - 1) : Tail(wire)[i] = wire[i + 1]
  BY Beheaded DEF CdpTypes
<1>2. \A i \in 1..(Len(wire) - 1) : i + 1 \in 1..Len(wire)
  BY <1>1
<1>3. 1 \in DOMAIN wire
  BY <1>1
<1> QED
  BY <1>1, <1>2, <1>3

\* A call is answered: its render goes on, or ends.
LEMMA ReplyKeeps ==
  ASSUME CdpTypes, RendersCounted, NEW q \in Chromium!Requests, q.method # "wait",
         NEW ok \in BOOLEAN, Chromium!Reply(q, ok)
  PROVE  /\ job' \in Jobs /\ guard' \in Guards /\ renders' \in Nat /\ RendersCounted'
         /\ \A r \in Renders : job'[r].step >= 4 => job[r].step >= 4
<1> DEFINE r == q.from
<1>1. r \in Renders
  BY RequestsShape
<1>2. CASE q.method = "dispose"
  <2>1. guard' = [guard EXCEPT ![r] = "gone"] /\ UNCHANGED <<job, renders>>
    <3>1. PICK s \in 1..6 : s = job[r].step
      BY <1>1, JobsShape
    <3>2. s = 1 \/ s = 2 \/ s = 3 \/ s = 4 \/ s = 5 \/ s = 6
      BY <3>1
    <3>3. Chromium!Steps[s] # "dispose"
      BY <3>2, StepsShape
    <3>4. ~Chromium!Awaits(q)
      BY <1>2, <3>1, <3>3 DEF Chromium!Awaits
    <3> QED
      BY <1>2, <3>4 DEF Chromium!Reply
  <2>2. Past' = Past
    BY <2>1 DEF Past
  <2> QED
    BY <2>1, <2>2 DEF CdpTypes, Guards, RendersCounted
<1>3. CASE q.method # "dispose" /\ Chromium!Awaits(q) /\ ok /\ q.method # "capture"
  <2>1. /\ job' = [job EXCEPT ![r] = [pc |-> "go", step |-> job[r].step + 1]]
        /\ guard' = IF q.method = "context" THEN [guard EXCEPT ![r] = "held"] ELSE guard
        /\ renders' = IF q.method = "context" THEN renders + 1 ELSE renders
    BY <1>3 DEF Chromium!Reply, Chromium!Counts
  <2>2. PICK s \in 1..6 : s = job[r].step
    BY <1>1, JobsShape
  <2>3. Chromium!Steps[s] = q.method
    BY <1>3, <2>2 DEF Chromium!Awaits
  <2>4. s \in {1, 2, 4} /\ (s = 1 <=> q.method = "context")
    <3>1. q.method \in {"context", "prepare", "navigate", "capture", "dispose"}
      BY RequestsShape
    <3>2. s \notin {3, 5, 6}
      BY <1>3, <2>3, <3>1, StepsShape
    <3>3. s = 1 \/ s = 2 \/ s = 3 \/ s = 4 \/ s = 5 \/ s = 6
      BY <2>2
    <3>4. s = 1 <=> q.method = "context"
      BY <2>3, <3>2, <3>3, StepsShape
    <3> QED
      BY <3>2, <3>3, <3>4
  <2>5. /\ job' \in Jobs /\ job'[r].step = s + 1
        /\ \A d \in Renders \ {r} : job'[d].step = job[d].step
    BY <1>1, <2>1, <2>2, <2>4 DEF CdpTypes, Jobs
  <2>6. guard' \in Guards /\ renders' \in Nat
    <3>1. guard' \in Guards
      <4>1. CASE q.method = "context"
        BY <2>1, <4>1 DEF CdpTypes, Guards
      <4>2. CASE q.method # "context"
        BY <2>1, <4>2 DEF CdpTypes, Guards
      <4> QED
        BY <4>1, <4>2
    <3>2. renders' \in Nat
      BY <2>1 DEF CdpTypes
    <3> QED
      BY <3>1, <3>2
  <2>7. \A d \in Renders : job'[d].step >= 4 => job[d].step >= 4
    BY <2>2, <2>4, <2>5
  <2>8. IsFiniteSet(Past)
    BY CdpConstants, FS_Subset DEF Past
  <2>9. RendersCounted'
    <3>1. CASE q.method = "context"
      <4>1. Past' = Past \cup {r} /\ r \notin Past
        BY <1>1, <2>2, <2>4, <2>5, <3>1 DEF Past
      <4>2. Cardinality(Past') = Cardinality(Past) + 1
        BY <2>8, <4>1, FS_AddElement
      <4> QED
        BY <2>1, <3>1, <4>2 DEF RendersCounted
    <3>2. CASE q.method # "context"
      <4>1. Past' = Past
        BY <1>1, <2>2, <2>4, <2>5, <3>2 DEF Past
      <4> QED
        BY <2>1, <3>2, <4>1 DEF RendersCounted
    <3> QED
      BY <3>1, <3>2
  <2> QED
    BY <2>5, <2>6, <2>7, <2>9
<1>4. CASE q.method # "dispose" /\ Chromium!Awaits(q) /\ (~ok \/ q.method = "capture")
  <2>1. Chromium!End(r) /\ renders' = renders
    BY <1>4 DEF Chromium!Reply
  <2>2. /\ job' = [job EXCEPT ![r] = [pc |-> "ended", step |-> job[r].step]]
        /\ guard' = [guard EXCEPT ![r] = Chromium!Unguarded(r)]
    BY <1>1, <2>1, JobsShape DEF Chromium!End
  <2>3. job' \in Jobs /\ guard' \in Guards /\ \A d \in Renders : job'[d].step = job[d].step
    BY <1>1, <2>2, JobsShape DEF CdpTypes, Jobs, Guards
  <2>4. Past' = Past
    BY <2>3 DEF Past
  <2> QED
    BY <2>1, <2>3, <2>4 DEF CdpTypes, RendersCounted
<1>5. CASE q.method # "dispose" /\ ~Chromium!Awaits(q)
  <2>1. UNCHANGED <<job, guard, renders>>
    BY <1>5 DEF Chromium!Reply
  <2>2. Past' = Past
    BY <2>1 DEF Past
  <2> QED
    BY <2>1, <2>2 DEF CdpTypes, RendersCounted
<1> QED
  BY <1>2, <1>3, <1>4, <1>5

\* An answer is handed to the call with its id.
LEMMA TakeAnswerCdp ==
  ASSUME CdpIInv, Chromium!TakeAnswer
  PROVE  CdpIInv'
<1> USE DEF CdpIInv
<1>1. PICK m : m = Head(wire)
  OBVIOUS
<1>2. /\ wire # <<>> /\ m.type = "answer" /\ wire' = Tail(wire)
      /\ pending' = {p \in pending : p.id # m.id}
      /\ UNCHANGED <<handle, queue, nextId, waiters, fired, running, heard, up,
                     todo, contexts, loading>>
  BY <1>1 DEF Chromium!TakeAnswer
<1>3. /\ wire' \in Seq(ChromeAnswers \cup ChromeEvents)
      /\ \A i \in DOMAIN wire' : \E j \in DOMAIN wire : wire'[i] = wire[j]
  BY <1>2, WireRead
<1>4. /\ job' \in Jobs /\ guard' \in Guards /\ renders' \in Nat /\ RendersCounted'
      /\ \A r \in Renders : job'[r].step >= 4 => job[r].step >= 4
  <2>1. CASE {p \in pending : p.id = m.id} = {}
    <3>1. UNCHANGED <<job, guard, renders>>
      BY <1>1, <2>1 DEF Chromium!TakeAnswer
    <3>2. Past' = Past
      BY <3>1 DEF Past
    <3> QED
      BY <3>1, <3>2 DEF CdpTypes, RendersCounted
  <2>2. CASE {p \in pending : p.id = m.id} # {}
    <3>1. PICK p \in pending : Chromium!Reply([from |-> p.from, method |-> p.method], m.ok)
      BY <1>1, <2>2 DEF Chromium!TakeAnswer
    <3>2. m.ok \in BOOLEAN
      BY <1>1, <1>2, WireRead, WireShape
    <3>3. PICK q : q = [from |-> p.from, method |-> p.method]
      OBVIOUS
    <3>4. q \in Chromium!Requests /\ q.method # "wait"
      BY <3>3 DEF CdpTypes, Chromium!Requests
    <3> QED
      BY <3>1, <3>2, <3>3, <3>4, ReplyKeeps
  <2> QED
    BY <2>1, <2>2
<1>5. CdpTypes'
  BY <1>2, <1>3, <1>4 DEF CdpTypes
<1>6. IdsFit'
  BY <1>2, <1>3 DEF IdsFit
<1>7. WaitsFit'
  <2>1. Registered' = Registered
    BY <1>2 DEF Registered
  <2>2. running' => \A r \in Renders : job'[r].step >= 4 =>
          r \in Registered' \/ WaitIn(queue', r, Len(queue'))
    BY <1>2, <1>4, <2>1 DEF WaitsFit
  <2>3. \A i \in DOMAIN wire' : wire'[i].type = "load" => wire'[i].from \in Registered'
    BY <1>3, <2>1 DEF WaitsFit
  <2> QED
    BY <1>2, <2>1, <2>2, <2>3 DEF WaitsFit
<1> QED
  BY <1>4, <1>5, <1>6, <1>7

\* Steps of the browser, and the load event: calls and callers stay as they are.
LEMMA ChromeKeeps ==
  ASSUME CdpIInv, UNCHANGED <<handle, renders, job, guard, queue, pending, nextId, running>>,
         up' \in BOOLEAN, contexts' \subseteq Renders, loading' \subseteq Registered',
         waiters' \subseteq Renders, fired' \subseteq Renders, heard' \subseteq fired',
         todo' \subseteq todo, Registered \subseteq Registered',
         wire' \in Seq(ChromeAnswers \cup ChromeEvents),
         \A i \in DOMAIN wire' :
           \/ \E j \in DOMAIN wire : wire'[i] = wire[j]
           \/ wire'[i].type = "load" /\ wire'[i].from \in Registered
           \/ /\ wire'[i].type = "answer"
              /\ \E t \in todo : wire'[i].id = t.id /\ wire'[i].of = t.req
  PROVE  CdpIInv'
<1> USE DEF CdpIInv
<1>1. Registered' \subseteq Renders
  BY DEF Registered
<1>2. CdpTypes'
  BY <1>1 DEF CdpTypes
<1>3. RendersCounted'
  <2>1. Past' = Past
    BY DEF Past
  <2> QED
    BY <2>1 DEF RendersCounted
<1>4. ASSUME NEW i \in DOMAIN wire', wire'[i].type = "answer"
      PROVE  /\ wire'[i].id < nextId
             /\ \A p \in pending : p.id = wire'[i].id =>
                  wire'[i].of = [from |-> p.from, method |-> p.method]
  <2>1. CASE \E j \in DOMAIN wire : wire'[i] = wire[j]
    BY <1>4, <2>1 DEF IdsFit
  <2>2. CASE \E t \in todo : wire'[i].id = t.id /\ wire'[i].of = t.req
    BY <2>2 DEF IdsFit
  <2> QED
    BY <1>4, <2>1, <2>2
<1>5. IdsFit'
  BY <1>4 DEF IdsFit
<1>6. ASSUME NEW i \in DOMAIN wire', wire'[i].type = "load"
      PROVE  wire'[i].from \in Registered'
  BY <1>6 DEF WaitsFit
<1>7. WaitsFit'
  <2>1. running' => \A r \in Renders : job'[r].step >= 4 =>
          r \in Registered' \/ WaitIn(queue', r, Len(queue'))
    BY DEF WaitsFit
  <2>2. \A j \in 1..Len(queue') : queue'[j].method = "navigate" =>
          queue'[j].from \in Registered' \/ WaitIn(queue', queue'[j].from, j - 1)
    BY DEF WaitsFit
  <2>3. \A t \in todo' : t.req.method = "navigate" => t.req.from \in Registered'
    BY DEF WaitsFit
  <2> QED
    BY <1>6, <2>1, <2>2, <2>3 DEF WaitsFit
<1> QED
  BY <1>2, <1>3, <1>5, <1>7

\* A load event is handed to its waiter, if one is noted.
LEMMA TakeEventCdp ==
  ASSUME CdpIInv, Chromium!TakeEvent
  PROVE  CdpIInv'
<1> USE DEF CdpIInv
<1>1. PICK r : r = Head(wire).from
  OBVIOUS
<1>2. /\ wire # <<>> /\ Head(wire).type = "load" /\ wire' = Tail(wire)
      /\ heard' = heard \cup {r} /\ waiters' = waiters \ {r}
      /\ fired' = IF r \in waiters THEN fired \cup {r} ELSE fired
      /\ UNCHANGED <<handle, renders, job, guard, queue, pending, nextId, running, up, todo,
                     contexts, loading>>
  BY <1>1 DEF Chromium!TakeEvent, Chromium!client
<1>3. /\ wire' \in Seq(ChromeAnswers \cup ChromeEvents)
      /\ \E i \in DOMAIN wire : wire[i] = Head(wire)
      /\ \A i \in DOMAIN wire' : \E j \in DOMAIN wire : wire'[i] = wire[j]
  BY <1>2, WireRead
<1>4. r \in Registered /\ r \in Renders
  BY <1>1, <1>2, <1>3 DEF WaitsFit, Registered, CdpTypes
<1>5. Registered' = Registered
  BY <1>2 DEF Registered
<1>6. heard' \subseteq fired'
  BY <1>2, <1>4 DEF Registered, WaitsFit
<1>7. waiters' \subseteq Renders /\ fired' \subseteq Renders
  BY <1>2, <1>4 DEF CdpTypes
<1>8. /\ up' \in BOOLEAN /\ contexts' \subseteq Renders /\ loading' \subseteq Registered'
      /\ todo' \subseteq todo
  BY <1>2, <1>5 DEF CdpTypes, WaitsFit
<1> QED
  BY <1>2, <1>3, <1>5, <1>6, <1>7, <1>8, ChromeKeeps

\* Chromium answers a call that is pending.
LEMMA ExecuteCdp ==
  ASSUME CdpIInv, Chromium!Execute
  PROVE  CdpIInv'
<1> USE DEF CdpIInv
<1>1. PICK t \in todo, ok \in BOOLEAN :
        /\ todo' = todo \ {t}
        /\ wire' = Append(wire, [type |-> "answer", id |-> t.id, of |-> t.req, ok |-> ok])
        /\ contexts' = CASE ok /\ t.req.method = "context" -> contexts \cup {t.req.from}
                         [] ok /\ t.req.method = "dispose" -> contexts \ {t.req.from}
                         [] OTHER -> contexts
        /\ loading' = CASE ok /\ t.req.method = "navigate" -> loading \cup {t.req.from}
                        [] ok /\ t.req.method = "dispose" -> loading \ {t.req.from}
                        [] OTHER -> loading
  BY DEF Chromium!Execute
<1>2. /\ UNCHANGED <<handle, renders, job, guard, queue, pending, nextId, waiters, fired,
                     running, heard, up>>
      /\ t.id \in Nat /\ t.req \in Chromium!Requests /\ t.req.from \in Renders
  BY RequestsShape DEF Chromium!Execute, Chromium!client, Chromium!actor, CdpTypes
<1>3. PICK m : m = [type |-> "answer", id |-> t.id, of |-> t.req, ok |-> ok]
  OBVIOUS
<1>4. m \in ChromeAnswers \cup ChromeEvents /\ m.type = "answer" /\ m.id = t.id /\ m.of = t.req
  BY <1>2, <1>3 DEF ChromeAnswers
<1>5. /\ wire' \in Seq(ChromeAnswers \cup ChromeEvents)
      /\ \A i \in DOMAIN wire' : wire'[i] = m \/ (i \in DOMAIN wire /\ wire'[i] = wire[i])
  BY <1>1, <1>3, <1>4, WireGrows
<1>6. contexts' \subseteq Renders
  BY <1>1, <1>2 DEF CdpTypes
<1>7. Registered' = Registered
  BY <1>2 DEF Registered
<1>8. loading' \subseteq Registered'
  BY <1>1, <1>7 DEF WaitsFit
<1>9. /\ up' \in BOOLEAN /\ waiters' \subseteq Renders /\ fired' \subseteq Renders
      /\ heard' \subseteq fired' /\ todo' \subseteq todo
  BY <1>1, <1>2 DEF CdpTypes, WaitsFit
<1>10. \A i \in DOMAIN wire' :
         \/ \E j \in DOMAIN wire : wire'[i] = wire[j]
         \/ wire'[i].type = "load" /\ wire'[i].from \in Registered
         \/ /\ wire'[i].type = "answer"
            /\ \E u \in todo : wire'[i].id = u.id /\ wire'[i].of = u.req
  BY <1>4, <1>5
<1> QED
  BY <1>2, <1>5, <1>6, <1>7, <1>8, <1>9, <1>10, ChromeKeeps

\* A page loads, and Chromium exits.
LEMMA ChromeCdp ==
  ASSUME CdpIInv, Chromium!Die \/ \E r \in Renders : Chromium!FinishLoad(r)
  PROVE  CdpIInv'
<1> USE DEF CdpIInv
<1>1. CASE Chromium!Die
  <2>1. /\ up' = FALSE /\ todo' = {} /\ contexts' = {} /\ loading' = {}
        /\ UNCHANGED <<handle, renders, job, guard, queue, pending, nextId, waiters, fired,
                       running, heard, wire>>
    BY <1>1 DEF Chromium!Die, Chromium!client, Chromium!actor
  <2>2. Registered' = Registered
    BY <2>1 DEF Registered
  <2>3. /\ wire' \in Seq(ChromeAnswers \cup ChromeEvents)
        /\ \A i \in DOMAIN wire' : \E j \in DOMAIN wire : wire'[i] = wire[j]
    BY <2>1 DEF CdpTypes
  <2>4. /\ up' \in BOOLEAN /\ contexts' \subseteq Renders /\ loading' \subseteq Registered'
        /\ waiters' \subseteq Renders /\ fired' \subseteq Renders
        /\ heard' \subseteq fired' /\ todo' \subseteq todo
    BY <2>1 DEF CdpTypes, WaitsFit
  <2> QED
    BY <2>1, <2>2, <2>3, <2>4, ChromeKeeps
<1>2. ASSUME NEW r \in Renders, Chromium!FinishLoad(r)
      PROVE  CdpIInv'
  <2>1. /\ r \in loading /\ loading' = loading \ {r}
        /\ wire' = Append(wire, [type |-> "load", from |-> r])
        /\ UNCHANGED <<handle, renders, job, guard, queue, pending, nextId, waiters, fired,
                       running, heard, up, todo, contexts>>
    BY <1>2 DEF Chromium!FinishLoad, Chromium!client, Chromium!actor
  <2>2. PICK m : m = [type |-> "load", from |-> r]
    OBVIOUS
  <2>3. m \in ChromeAnswers \cup ChromeEvents /\ m.type = "load" /\ m.from = r
    BY <2>2 DEF ChromeEvents
  <2>4. /\ wire' \in Seq(ChromeAnswers \cup ChromeEvents)
        /\ \A i \in DOMAIN wire' : wire'[i] = m \/ (i \in DOMAIN wire /\ wire'[i] = wire[i])
    BY <2>1, <2>2, <2>3, WireGrows
  <2>5. Registered' = Registered /\ r \in Registered
    BY <2>1 DEF Registered, WaitsFit
  <2>6. /\ up' \in BOOLEAN /\ contexts' \subseteq Renders /\ loading' \subseteq Registered'
        /\ waiters' \subseteq Renders /\ fired' \subseteq Renders
        /\ heard' \subseteq fired' /\ todo' \subseteq todo
    BY <2>1, <2>5 DEF CdpTypes, WaitsFit
  <2>7. \A i \in DOMAIN wire' :
          \/ \E j \in DOMAIN wire : wire'[i] = wire[j]
          \/ wire'[i].type = "load" /\ wire'[i].from \in Registered
    BY <2>3, <2>4, <2>5
  <2> QED
    BY <2>1, <2>4, <2>5, <2>6, <2>7, ChromeKeeps
<1> QED
  BY <1>1, <1>2

\* The invariant is inductive, for the part that renders and the one that
\* recycles its browser.
LEMMA NextCdp == CdpIInv /\ Chromium!Next => CdpIInv'
<1> SUFFICES ASSUME CdpIInv, Chromium!Next
             PROVE  CdpIInv'
  OBVIOUS
<1>1. CASE \E r \in Renders : \/ Chromium!RenderStep(r) \/ Chromium!Start(r)
                              \/ Chromium!NavTimeout(r) \/ Chromium!Cancel(r)
                              \/ Chromium!DisposeTimeout(r) \/ Chromium!FinishLoad(r)
  <2>1. PICK r \in Renders : \/ Chromium!RenderStep(r) \/ Chromium!Start(r)
                             \/ Chromium!NavTimeout(r) \/ Chromium!Cancel(r)
                             \/ Chromium!DisposeTimeout(r) \/ Chromium!FinishLoad(r)
    BY <1>1
  <2> QED
    BY <2>1, CallCdp, ClientCdp, ChromeCdp DEF Chromium!RenderStep
<1>2. CASE Chromium!ActorStep
  <2>1. CASE Chromium!Exit
    BY <2>1, ExitCdp
  <2>2. CASE ~Chromium!Exit
    BY <1>2, <2>2, TakeRequestCdp, TakeAnswerCdp, TakeEventCdp
       DEF Chromium!ActorStep, Chromium!SendFails, Chromium!SeeClosed, Chromium!Unused
  <2> QED
    BY <2>1, <2>2
<1>3. CASE Chromium!Replace \/ Chromium!Execute \/ Chromium!Die
  BY <1>3, ClientCdp, ExecuteCdp, ChromeCdp
<1> QED
  BY <1>1, <1>2, <1>3 DEF Chromium!Next

\* A step of another part leaves it alone.
LEMMA StillCdp == CdpIInv /\ UNCHANGED cdpVars => CdpIInv'
<1> SUFFICES ASSUME CdpIInv, UNCHANGED cdpVars
             PROVE  CdpIInv'
  OBVIOUS
<1>1. UNCHANGED <<handle, renders, job, guard, queue, pending, nextId, waiters, fired,
                  running, up, todo, wire, contexts, loading, heard>>
  BY DEF cdpVars
<1>2. UNCHANGED <<Chromium!actor, Chromium!chrome>>
  BY <1>1 DEF Chromium!actor, Chromium!chrome
<1> QED
  BY <1>1, <1>2, ClientKeeps DEF CdpIInv, CdpTypes

\* What the runs check of it.
LEMMA AnswersReach ==
  CdpIInv => Chromium!TypeOK /\ Chromium!AnswersMatch /\ Chromium!LoadNotMissed
<1> SUFFICES ASSUME CdpIInv
             PROVE  Chromium!TypeOK /\ Chromium!AnswersMatch /\ Chromium!LoadNotMissed
  OBVIOUS
<1> USE DEF CdpIInv
<1>1. renders \in 0..Chromium!Cardinality(Renders)
  <2>1. Past \subseteq Renders
    BY DEF Past
  <2>2. /\ IsFiniteSet(Past) /\ Cardinality(Past) <= Cardinality(Renders)
        /\ Cardinality(Renders) \in Nat
    BY <2>1, CdpConstants, FS_Subset, FS_CardinalityType
  <2> QED
    BY <2>2, CdpConstants DEF RendersCounted, CdpTypes
<1>2. \A i \in DOMAIN queue : queue[i] \in Chromium!Requests
  BY DEF CdpTypes
<1>3. \A p \in pending : p.id < nextId
  BY DEF IdsFit
<1>4. Chromium!TypeOK
  BY <1>1, <1>2, <1>3, StepsShape DEF Chromium!TypeOK, CdpTypes, Jobs, Guards
<1>5. Chromium!AnswersMatch
  BY DEF IdsFit, Chromium!AnswersMatch
<1>6. Chromium!LoadNotMissed
  BY DEF WaitsFit, Chromium!LoadNotMissed
<1> QED
  BY <1>4, <1>5, <1>6

-----------------------------------------------------------------------------
(* Screenshots *)

\* The bounds of screenshots.
LEMMA ShotConstants ==
  /\ None \notin ShotClients /\ IsFiniteSet(ShotClients) /\ ShotPages # {}
  /\ ShotPermits \in Nat \ {0} /\ ShotRenders \in Nat \ {0}
  /\ ShotTtl \in Nat \ {0} /\ ShotBrowsers \in Nat \ {0}
  /\ \A S : Shots!Cardinality(S) = Cardinality(S)
<1>1. \A S : Shots!IsFiniteSet(S) <=> IsFiniteSet(S)
  BY DEF Shots!IsFiniteSet, IsFiniteSet
<1>2. \A S : Shots!Cardinality(S) = Cardinality(S)
  BY DEF Shots!Cardinality, Cardinality
<1> QED
  BY <1>1, <1>2, PartsAssumption DEF PartsAssumption, Shots!ShotAssumption

Browsing == {"spawn", "render", "drawn", "store", "clean"}
Handling == {"idle", "look", "queue", "look2", "lock"} \cup Browsing

\* Values and keys of the cache.
ShotTypes ==
  /\ req \in [ShotClients -> [pc : Handling, key : ShotPages, at : 0..ShotBrowsers]]
  /\ age \in [ShotPages -> Shots!NoRow..(2 * ShotTtl + 1)]
  /\ browser \in [Shots!Browsers -> [up : BOOLEAN, open : BOOLEAN, renders : Nat]]
  /\ disposing \in [Shots!Browsers -> Nat]
  /\ managed \in 0..ShotBrowsers
  /\ mutex \in ShotClients \cup {None}

\* Who has a browser: those past the mutex.
AtFits == \A c \in ShotClients : (req[c].pc \in Browsing) <=> (req[c].at # 0)
\* Who starts a browser has the mutex, a browser of its own that has rendered
\* nothing, and found the managed one spent.
StartsFit ==
  \A c \in ShotClients :
    /\ mutex = c <=> req[c].pc = "spawn"
    /\ req[c].pc = "spawn" =>
         /\ managed = 0 \/ Shots!Spent(managed)
         /\ req[c].at # managed /\ browser[req[c].at].renders = 0
         /\ \A d \in ShotClients \ {c} : req[d].at # req[c].at
\* A browser that lives has its channel.  One that is not managed and lives has
\* rendered its share, or it starts, or its start was given up.
SparesFit ==
  \A b \in Shots!Browsers :
    /\ browser[b].up => browser[b].open
    /\ b # managed /\ browser[b].up /\ browser[b].renders < ShotRenders =>
         /\ browser[b].renders = 0
         /\ \A c \in ShotClients : req[c].at = b => req[c].pc = "spawn"

Permitted == {c \in ShotClients : Shots!Permitted(c)}
PermitsKept == Cardinality(Permitted) <= ShotPermits

\* Those who will count themselves at a browser.
Coming(b) == {c \in ShotClients : req[c].pc = "render" /\ req[c].at = b}
\* The renders of a browser and those to come are within its share, but for one
\* of each permit.
SharesKept ==
  \A b \in Shots!Browsers :
    browser[b].renders + Cardinality(Coming(b)) <= ShotRenders + ShotPermits - 1

\* Who renders a page that is cached.
Drawing(k) ==
  {c \in ShotClients : req[c].key = k /\ req[c].pc \in {"lock", "spawn", "render", "drawn"}}
CacheUsed == \A k \in ShotPages : Shots!Hit(k) => Cardinality(Drawing(k)) < ShotPermits

\* Who has a context of a browser.
Drawn(b) == {c \in ShotClients : req[c].pc = "drawn" /\ req[c].at = b}
ContextsFit ==
  \A b \in Shots!Browsers : disposing[b] + Cardinality(Drawn(b)) <= browser[b].renders

ShotIInv ==
  /\ ShotTypes /\ AtFits /\ StartsFit /\ SparesFit
  /\ PermitsKept /\ SharesKept /\ CacheUsed /\ ContextsFit

-----------------------------------------------------------------------------

\* Sets of clients are finite.
LEMMA ClientCounts ==
  ASSUME NEW S \in SUBSET ShotClients
  PROVE  /\ IsFiniteSet(S) /\ Cardinality(S) \in Nat
         /\ \A T \in SUBSET S : Cardinality(T) <= Cardinality(S)
         /\ \A c \in ShotClients \ S : Cardinality(S \cup {c}) = Cardinality(S) + 1
         /\ \A c \in S : Cardinality(S \ {c}) = Cardinality(S) - 1
<1>1. IsFiniteSet(S)
  BY ShotConstants, FS_Subset
<1>2. Cardinality(S) \in Nat
  BY <1>1, FS_CardinalityType
<1>3. \A T \in SUBSET S : Cardinality(T) <= Cardinality(S)
  BY <1>1, FS_Subset
<1>4. \A c \in ShotClients \ S : Cardinality(S \cup {c}) = Cardinality(S) + 1
  BY <1>1, FS_AddElement
<1>5. \A c \in S : Cardinality(S \ {c}) = Cardinality(S) - 1
  BY <1>1, FS_RemoveElement
<1> QED
  BY <1>1, <1>2, <1>3, <1>4, <1>5

\* Nobody has asked for a page.
LEMMA InitShots == Shots!Init => ShotIInv
<1> SUFFICES ASSUME Shots!Init
             PROVE  ShotIInv
  OBVIOUS
<1>1. /\ req = [c \in ShotClients |-> Shots!Idle]
      /\ age = [k \in ShotPages |-> Shots!NoRow]
      /\ browser = [b \in Shots!Browsers |-> Shots!Dead]
      /\ disposing = [b \in Shots!Browsers |-> 0]
      /\ managed = 0 /\ mutex = None
  BY DEF Shots!Init
<1>2. Shots!Idle.pc = "idle" /\ Shots!Idle.at = 0 /\ Shots!Idle.key \in ShotPages
      /\ Shots!Idle = [pc |-> "idle", key |-> Shots!Idle.key, at |-> 0]
  BY ShotConstants DEF Shots!Idle
<1>3. ShotTypes /\ AtFits /\ StartsFit /\ SparesFit
  BY <1>1, <1>2, ShotConstants
     DEF ShotTypes, AtFits, StartsFit, SparesFit, Handling, Browsing, Shots!Dead, Shots!NoRow
<1>4. /\ Permitted = {} /\ (\A b : Coming(b) = {}) /\ (\A k : Drawing(k) = {})
      /\ \A b : Drawn(b) = {}
  BY <1>1, <1>2 DEF Permitted, Shots!Permitted, Coming, Drawing, Drawn
<1>5. Cardinality({}) = 0
  BY FS_EmptySet
<1>6. \A b \in Shots!Browsers : browser[b].renders = 0
  BY <1>1 DEF Shots!Dead
<1>7. PermitsKept /\ SharesKept /\ CacheUsed
  <2>1. \A b \in Shots!Browsers : browser[b].renders + Cardinality(Coming(b)) = 0
    BY <1>4, <1>5, <1>6
  <2>2. 0 <= ShotRenders + ShotPermits - 1 /\ 0 <= ShotPermits /\ 0 < ShotPermits
    BY ShotConstants
  <2>3. SharesKept
    BY <2>1, <2>2 DEF SharesKept
  <2> QED
    BY <1>4, <1>5, <2>2, <2>3 DEF PermitsKept, CacheUsed
<1>8. ContextsFit
  BY <1>1, <1>4, <1>5, <1>6 DEF ContextsFit
<1> QED
  BY <1>3, <1>7, <1>8 DEF ShotIInv

\* The counted sets of a step that lets nobody in.
LEMMA CountsFall ==
  ASSUME ShotIInv, ShotTypes',
         Permitted' \subseteq Permitted,
         \A b \in Shots!Browsers :
           \/ browser'[b].renders <= browser[b].renders /\ Coming(b)' \subseteq Coming(b)
           \/ browser'[b].renders = 0 /\ Coming(b)' = {},
         \A k \in ShotPages : Shots!Hit(k)' => Shots!Hit(k) /\ Drawing(k)' \subseteq Drawing(k)
  PROVE  (PermitsKept /\ SharesKept /\ CacheUsed)'
<1>1. Permitted \in SUBSET ShotClients /\ Permitted' \in SUBSET ShotClients
  BY DEF Permitted
<1>2. PermitsKept'
  BY <1>1, ClientCounts, ShotConstants DEF ShotIInv, PermitsKept
<1>3. ASSUME NEW b \in Shots!Browsers
      PROVE  (browser[b].renders + Cardinality(Coming(b)) <= ShotRenders + ShotPermits - 1)'
  <2>1. Coming(b) \in SUBSET ShotClients /\ Coming(b)' \in SUBSET ShotClients
    BY DEF Coming
  <2>2. Cardinality(Coming(b)) \in Nat /\ Cardinality(Coming(b)') \in Nat
    BY <2>1, ClientCounts
  <2>3. browser[b].renders \in Nat /\ browser'[b].renders \in Nat
    BY DEF ShotIInv, ShotTypes
  <2>4. CASE browser'[b].renders <= browser[b].renders /\ Coming(b)' \subseteq Coming(b)
    <3>1. Cardinality(Coming(b)') <= Cardinality(Coming(b))
      BY <2>1, <2>4, ClientCounts
    <3>2. browser[b].renders + Cardinality(Coming(b)) <= ShotRenders + ShotPermits - 1
      BY DEF ShotIInv, SharesKept
    <3> QED
      BY <2>2, <2>3, <2>4, <3>1, <3>2, ShotConstants
  <2>5. CASE browser'[b].renders = 0 /\ Coming(b)' = {}
    BY <2>5, ShotConstants, FS_EmptySet
  <2> QED
    BY <2>4, <2>5
<1>4. ASSUME NEW k \in ShotPages, Shots!Hit(k)'
      PROVE  Cardinality(Drawing(k)') < ShotPermits
  <2>1. Drawing(k) \in SUBSET ShotClients /\ Drawing(k)' \in SUBSET Drawing(k)
        /\ Drawing(k)' \in SUBSET ShotClients
    BY <1>4 DEF Drawing
  <2>2. Cardinality(Drawing(k)) < ShotPermits
    BY <1>4 DEF ShotIInv, CacheUsed
  <2> QED
    BY <2>1, <2>2, ClientCounts, ShotConstants
<1>5. SharesKept'
  BY <1>3 DEF SharesKept
<1>6. CacheUsed'
  BY <1>4 DEF CacheUsed
<1> QED
  BY <1>2, <1>5, <1>6

\* Contexts of a step that makes none.
LEMMA ContextsStay ==
  ASSUME ShotIInv, ShotTypes', NEW b \in Shots!Browsers,
         disposing'[b] <= disposing[b], Drawn(b)' \subseteq Drawn(b),
         browser'[b].renders = browser[b].renders
  PROVE  (disposing[b] + Cardinality(Drawn(b)) <= browser[b].renders)'
<1>1. Drawn(b) \in SUBSET ShotClients /\ Drawn(b)' \in SUBSET Drawn(b)
      /\ Drawn(b)' \in SUBSET ShotClients
  BY DEF Drawn
<1>2. /\ Cardinality(Drawn(b)') <= Cardinality(Drawn(b))
      /\ Cardinality(Drawn(b)) \in Nat /\ Cardinality(Drawn(b)') \in Nat
  BY <1>1, ClientCounts
<1>3. disposing[b] \in Nat /\ disposing'[b] \in Nat /\ browser[b].renders \in Nat
  BY DEF ShotIInv, ShotTypes
<1>4. disposing[b] + Cardinality(Drawn(b)) <= browser[b].renders
  BY DEF ShotIInv, ContextsFit
<1> QED
  BY <1>2, <1>3, <1>4

\* A context passes from its request to a task.
LEMMA GuardKeeps ==
  ASSUME ShotIInv, NEW c \in ShotClients, Shots!GuardDropped(c), browser' = browser,
         req'[c].pc # "drawn", \A d \in ShotClients \ {c} : req'[d] = req[d]
  PROVE  disposing' \in [Shots!Browsers -> Nat] /\ ContextsFit'
<1> USE DEF ShotIInv
<1>0. PICK s : s = req[c].at
  OBVIOUS
<1>1. CASE req[c].pc = "drawn"
  <2>1. s \in Shots!Browsers
    BY <1>0, <1>1, ShotConstants DEF ShotTypes, AtFits, Browsing, Shots!Browsers
  <2>2. disposing' = [disposing EXCEPT ![s] = @ + 1]
    BY <1>0, <1>1 DEF Shots!GuardDropped, Shots!At
  <2>3. /\ disposing' \in [Shots!Browsers -> Nat]
        /\ disposing'[s] = disposing[s] + 1 /\ disposing[s] \in Nat
        /\ \A b \in Shots!Browsers \ {s} : disposing'[b] = disposing[b]
    BY <2>1, <2>2 DEF ShotTypes
  <2>4. ASSUME NEW b \in Shots!Browsers
        PROVE  (disposing[b] + Cardinality(Drawn(b)) <= browser[b].renders)'
    <3>1. disposing[b] + Cardinality(Drawn(b)) <= browser[b].renders
      BY DEF ContextsFit
    <3>2. CASE b = s
      <4>1. Drawn(b) \in SUBSET ShotClients /\ c \in Drawn(b) /\ Drawn(b)' = Drawn(b) \ {c}
        BY <1>0, <1>1, <3>2 DEF Drawn
      <4>2. Cardinality(Drawn(b)') = Cardinality(Drawn(b)) - 1 /\ Cardinality(Drawn(b)) \in Nat
        BY <4>1, ClientCounts
      <4>3. disposing'[b] = disposing[b] + 1 /\ disposing[b] \in Nat
        BY <2>3, <3>2
      <4>4. disposing'[b] + Cardinality(Drawn(b)') = disposing[b] + Cardinality(Drawn(b))
        BY <4>2, <4>3
      <4> QED
        BY <3>1, <4>4
    <3>3. CASE b # s
      <4>1. Drawn(b)' = Drawn(b)
        BY <1>0, <3>3 DEF Drawn
      <4> QED
        BY <2>3, <3>1, <3>3, <4>1
    <3> QED
      BY <3>2, <3>3
  <2> QED
    BY <2>3, <2>4 DEF ContextsFit
<1>2. CASE req[c].pc # "drawn"
  <2>1. disposing' = disposing
    BY <1>2 DEF Shots!GuardDropped, Shots!At
  <2>2. \A b : Drawn(b)' = Drawn(b)
    BY <1>2 DEF Drawn
  <2> QED
    BY <2>1, <2>2 DEF ShotTypes, ContextsFit
<1> QED
  BY <1>1, <1>2

\* A request that is over.
LEMMA IdleShape ==
  Shots!Idle.key \in ShotPages
  /\ Shots!Idle = [pc |-> "idle", key |-> Shots!Idle.key, at |-> 0]
BY ShotConstants DEF Shots!Idle

\* A browser that is closed.
LEMMA DeadShape ==
  /\ Shots!Dead \in [up : BOOLEAN, open : BOOLEAN, renders : Nat]
  /\ Shots!Dead.up = FALSE /\ Shots!Dead.open = FALSE /\ Shots!Dead.renders = 0
BY DEF Shots!Dead

\* A request moves on, and keeps its browser or its lack of one.
LEMMA GoKeeps ==
  ASSUME ShotIInv, NEW c \in ShotClients, NEW to, Shots!Go(c, to),
         \/ req[c].pc = "look" /\ to = "queue"
         \/ req[c].pc = "queue" /\ to = "look2" /\ Cardinality(Permitted) < ShotPermits
         \/ req[c].pc = "look2" /\ to = "lock" /\ ~Shots!Hit(req[c].key)
         \/ req[c].pc = "drawn" /\ to = "store",
         Shots!GuardDropped(c), UNCHANGED <<age, browser, managed, mutex>>
  PROVE  ShotIInv'
<1> USE DEF ShotIInv
<1>1. /\ req' = [req EXCEPT ![c].pc = to]
      /\ req'[c].pc = to /\ req'[c].key = req[c].key /\ req'[c].at = req[c].at
      /\ \A d \in ShotClients \ {c} : req'[d] = req[d]
      /\ \A d \in ShotClients : req'[d].at = req[d].at /\ req'[d].key = req[d].key
  BY DEF Shots!Go, ShotTypes
<1>2. ShotTypes' /\ ContextsFit'
  <2>1. disposing' \in [Shots!Browsers -> Nat] /\ ContextsFit'
    BY <1>1, GuardKeeps
  <2> QED
    BY <1>1, <2>1 DEF ShotTypes, Handling, Browsing
<1>3. AtFits'
  BY <1>1 DEF AtFits, Browsing
<1>4. StartsFit'
  BY <1>1 DEF StartsFit, Shots!Spent
<1>5. SparesFit'
  BY <1>1 DEF SparesFit
<1>6. PermitsKept'
  <2>1. Permitted \in SUBSET ShotClients /\ Permitted' \in SUBSET ShotClients
    BY DEF Permitted
  <2>2. Permitted' \subseteq Permitted \cup {c}
    BY <1>1 DEF Permitted, Shots!Permitted
  <2>3. CASE to = "look2"
    <3>1. Cardinality(Permitted \cup {c}) <= Cardinality(Permitted) + 1
      <4>1. CASE c \in Permitted
        <5>1. Permitted \cup {c} = Permitted
          BY <4>1
        <5> QED
          BY <2>1, <5>1, ClientCounts
      <4>2. CASE c \notin Permitted
        BY <2>1, <4>2, ClientCounts
      <4> QED
        BY <4>1, <4>2
    <3>2. Permitted \cup {c} \in SUBSET ShotClients
      BY <2>1
    <3>3. Cardinality(Permitted') <= Cardinality(Permitted \cup {c})
      BY <2>2, <3>2, ClientCounts
    <3>4. /\ Cardinality(Permitted) \in Nat /\ Cardinality(Permitted') \in Nat
          /\ Cardinality(Permitted \cup {c}) \in Nat
      BY <2>1, <3>2, ClientCounts
    <3> QED
      BY <2>3, <3>1, <3>3, <3>4, ShotConstants DEF PermitsKept
  <2>4. CASE to # "look2"
    <3>1. Permitted' \subseteq Permitted
      BY <1>1, <2>4 DEF Permitted, Shots!Permitted, Handling, Browsing
    <3> QED
      BY <2>1, <3>1, ClientCounts, ShotConstants DEF PermitsKept
  <2> QED
    BY <2>3, <2>4
<1>7. ASSUME NEW b \in Shots!Browsers
      PROVE  (browser[b].renders + Cardinality(Coming(b)) <= ShotRenders + ShotPermits - 1)'
  <2>1. Coming(b) \in SUBSET ShotClients /\ Coming(b)' \in SUBSET Coming(b)
        /\ Coming(b)' \in SUBSET ShotClients
    BY <1>1 DEF Coming
  <2>2. Cardinality(Coming(b)') <= Cardinality(Coming(b))
        /\ Cardinality(Coming(b)) \in Nat /\ Cardinality(Coming(b)') \in Nat
    BY <2>1, ClientCounts
  <2>3. browser[b].renders \in Nat /\ browser'[b] = browser[b]
    BY DEF ShotTypes
  <2>4. browser[b].renders + Cardinality(Coming(b)) <= ShotRenders + ShotPermits - 1
    BY DEF SharesKept
  <2> QED
    BY <2>2, <2>3, <2>4, ShotConstants
<1>8. ASSUME NEW k \in ShotPages, Shots!Hit(k)'
      PROVE  Cardinality(Drawing(k)') < ShotPermits
  <2>1. Shots!Hit(k)
    BY <1>8 DEF Shots!Hit
  <2>2. Drawing(k)' \subseteq Drawing(k)
    BY <1>1, <2>1 DEF Drawing
  <2>3. Drawing(k) \in SUBSET ShotClients /\ Drawing(k)' \in SUBSET ShotClients
    BY DEF Drawing
  <2>4. Cardinality(Drawing(k)) < ShotPermits
    BY <2>1 DEF CacheUsed
  <2> QED
    BY <2>2, <2>3, <2>4, ClientCounts, ShotConstants
<1> QED
  BY <1>2, <1>3, <1>4, <1>5, <1>6, <1>7, <1>8 DEF SharesKept, CacheUsed

\* A client asks for a page.
LEMMA AskShot ==
  ASSUME ShotIInv, NEW c \in ShotClients, Shots!Ask(c)
  PROVE  ShotIInv'
<1> USE DEF ShotIInv
<1>1. PICK k \in ShotPages : req' = [req EXCEPT ![c] = [pc |-> "look", key |-> k, at |-> 0]]
  BY DEF Shots!Ask
<1>2. /\ req[c].pc = "idle" /\ UNCHANGED <<age, browser, disposing, managed, mutex>>
      /\ req'[c] = [pc |-> "look", key |-> k, at |-> 0]
      /\ \A d \in ShotClients \ {c} : req'[d] = req[d]
  BY <1>1 DEF Shots!Ask, Shots!At, ShotTypes
<1>3. req[c].at = 0 /\ mutex # c
  BY <1>2 DEF AtFits, StartsFit, Browsing
<1>4. \A d \in ShotClients : req'[d].at = req[d].at
  BY <1>2, <1>3
<1>5. ShotTypes'
  <2>1. [pc |-> "look", key |-> k, at |-> 0]
          \in [pc : Handling, key : ShotPages, at : 0..ShotBrowsers]
    BY ShotConstants DEF Handling
  <2> QED
    BY <1>1, <1>2, <2>1 DEF ShotTypes
<1>6. AtFits' /\ StartsFit' /\ SparesFit'
  BY <1>2, <1>3, <1>4, ShotConstants
     DEF AtFits, StartsFit, SparesFit, Browsing, Shots!Spent, Shots!Browsers
<1>7. /\ Permitted' \subseteq Permitted
      /\ \A b : Coming(b)' \subseteq Coming(b)
      /\ \A l : Drawing(l)' \subseteq Drawing(l)
      /\ \A l \in ShotPages : Shots!Hit(l)' => Shots!Hit(l)
  BY <1>2 DEF Permitted, Shots!Permitted, Coming, Drawing, Shots!Hit
<1>8. \A b \in Shots!Browsers : browser'[b].renders <= browser[b].renders
  BY <1>2 DEF ShotTypes
<1>9. (PermitsKept /\ SharesKept /\ CacheUsed)'
  BY <1>5, <1>7, <1>8, CountsFall
<1>10. ContextsFit'
  <2>1. \A b : Drawn(b)' = Drawn(b)
    BY <1>2 DEF Drawn
  <2> QED
    BY <1>2, <2>1 DEF ContextsFit
<1> QED
  BY <1>5, <1>6, <1>9, <1>10

\* A request ends: nobody else loses what it has, and its browser is spent, or
\* dead, or was only starting, or managed.
LEMMA Ends ==
  ASSUME ShotIInv, NEW c \in ShotClients,
         req' = [req EXCEPT ![c] = Shots!Idle],
         mutex' = IF mutex = c THEN None ELSE mutex,
         Shots!GuardDropped(c), browser' = browser, managed' = managed,
         age' \in [ShotPages -> Shots!NoRow..(2 * ShotTtl + 1)],
         \A k \in ShotPages : Shots!Hit(k)' => Shots!Hit(k)
  PROVE  ShotIInv'
<1> USE DEF ShotIInv
<1>1. /\ req'[c].pc = "idle" /\ req'[c].at = 0
      /\ \A d \in ShotClients \ {c} : req'[d] = req[d]
  BY IdleShape DEF ShotTypes
<1>2. disposing' \in [Shots!Browsers -> Nat] /\ ContextsFit'
  BY <1>1, GuardKeeps
<1>3. ShotTypes'
  <2>1. req' \in [ShotClients -> [pc : Handling, key : ShotPages, at : 0..ShotBrowsers]]
    BY IdleShape, ShotConstants DEF ShotTypes, Handling
  <2> QED
    BY <1>2, <2>1 DEF ShotTypes
<1>4. AtFits'
  BY <1>1 DEF AtFits, Browsing
<1>5. StartsFit'
  <2> SUFFICES ASSUME NEW d \in ShotClients
               PROVE  /\ mutex' = d <=> req'[d].pc = "spawn"
                      /\ req'[d].pc = "spawn" =>
                           /\ managed' = 0 \/ Shots!Spent(managed)'
                           /\ req'[d].at # managed' /\ browser'[req'[d].at].renders = 0
                           /\ \A e \in ShotClients \ {d} : req'[e].at # req'[d].at
    BY DEF StartsFit
  <2>1. mutex' = d <=> req'[d].pc = "spawn"
    BY <1>1, ShotConstants DEF StartsFit
  <2>2. ASSUME req'[d].pc = "spawn"
        PROVE  /\ managed' = 0 \/ Shots!Spent(managed)'
               /\ req'[d].at # managed' /\ browser'[req'[d].at].renders = 0
               /\ \A e \in ShotClients \ {d} : req'[e].at # req'[d].at
    <3>1. d # c /\ req'[d] = req[d] /\ req[d].pc = "spawn"
      BY <1>1, <2>2
    <3>2. managed' = 0 \/ Shots!Spent(managed)'
      BY <3>1 DEF StartsFit, Shots!Spent
    <3>3. req'[d].at # managed' /\ browser'[req'[d].at].renders = 0
      BY <3>1 DEF StartsFit
    <3>4. req[d].at # 0
      BY <3>1 DEF AtFits, Browsing
    <3>5. \A e \in ShotClients \ {d} : req'[e].at # req'[d].at
      BY <1>1, <3>1, <3>4 DEF StartsFit
    <3> QED
      BY <3>2, <3>3, <3>5
  <2> QED
    BY <2>1, <2>2
<1>6. SparesFit'
  <2>1. \A b \in Shots!Browsers : b # 0
    BY ShotConstants DEF Shots!Browsers
  <2>2. \A b \in Shots!Browsers, d \in ShotClients : req'[d].at = b => req'[d] = req[d]
    BY <1>1, <2>1
  <2> QED
    BY <2>2 DEF SparesFit
<1>7. /\ Permitted' \subseteq Permitted
      /\ \A b : Coming(b)' \subseteq Coming(b)
      /\ \A k : Drawing(k)' \subseteq Drawing(k)
  BY <1>1 DEF Permitted, Shots!Permitted, Coming, Drawing
<1>8. \A b \in Shots!Browsers : browser'[b].renders <= browser[b].renders
  BY DEF ShotTypes
<1>9. (PermitsKept /\ SharesKept /\ CacheUsed)'
  BY <1>3, <1>7, <1>8, CountsFall
<1> QED
  BY <1>2, <1>3, <1>4, <1>5, <1>6, <1>9

\* A request leaves: its permit and its browser are free.
LEMMA LeaveShot ==
  ASSUME ShotIInv, NEW c \in ShotClients, Shots!Leave(c)
  PROVE  ShotIInv'
<1>1. \A k \in ShotPages : Shots!Hit(k)' => Shots!Hit(k)
  BY DEF Shots!Leave, Shots!Hit
<1> QED
  BY <1>1, Ends DEF Shots!Leave, ShotIInv, ShotTypes

\* A request has cleaned up.
LEMMA CleanShot ==
  ASSUME ShotIInv, NEW c \in ShotClients, Shots!Clean(c)
  PROVE  ShotIInv'
<1>1. mutex # c /\ Shots!GuardDropped(c)
  BY DEF ShotIInv, StartsFit, Shots!Clean, Shots!At, Shots!GuardDropped
<1>2. /\ age' \in [ShotPages -> Shots!NoRow..(2 * ShotTtl + 1)]
      /\ \A k \in ShotPages : age'[k] \in {age[k], Shots!NoRow}
  BY ShotConstants DEF Shots!Clean, ShotIInv, ShotTypes, Shots!NoRow
<1>3. \A k \in ShotPages : Shots!Hit(k)' => Shots!Hit(k)
  BY <1>2, ShotConstants DEF Shots!Hit, Shots!NoRow
<1> QED
  BY <1>1, <1>2, <1>3, Ends DEF Shots!Clean

\* A look at the cache that finds the page ends the request.
LEMMA HitEnds ==
  ASSUME ShotIInv, NEW c \in ShotClients, req[c].pc \notin Browsing,
         req' = [req EXCEPT ![c] = Shots!Idle],
         UNCHANGED <<age, browser, disposing, managed, mutex>>
  PROVE  ShotIInv'
<1>1. mutex # c /\ Shots!GuardDropped(c)
  BY DEF ShotIInv, StartsFit, Browsing, Shots!GuardDropped, Shots!At
<1>2. \A k \in ShotPages : Shots!Hit(k)' => Shots!Hit(k)
  BY DEF Shots!Hit
<1> QED
  BY <1>1, <1>2, Ends DEF ShotIInv, ShotTypes

\* The looks at the cache, before the queue and behind it.
LEMMA LooksShot ==
  ASSUME ShotIInv, NEW c \in ShotClients,
         Shots!Look(c) \/ Shots!LookAgain(c) \/ Shots!Permit(c) \/ Shots!Rendered(c)
  PROVE  ShotIInv'
<1>1. CASE Shots!Look(c)
  BY <1>1, HitEnds, GoKeeps DEF Shots!Look, Shots!At, Browsing, Shots!GuardDropped
<1>2. CASE Shots!LookAgain(c)
  BY <1>2, HitEnds, GoKeeps DEF Shots!LookAgain, Shots!At, Browsing, Shots!GuardDropped
<1>3. CASE Shots!Permit(c)
  <2>1. Cardinality(Permitted) < ShotPermits
    BY <1>3, ShotConstants DEF Shots!Permit, Permitted
  <2> QED
    BY <1>3, <2>1, GoKeeps DEF Shots!Permit, Shots!At, Shots!GuardDropped
<1>4. CASE Shots!Rendered(c)
  BY <1>4, GoKeeps DEF Shots!Rendered, Shots!At
<1> QED
  BY <1>1, <1>2, <1>3, <1>4

\* A page is stored, by somebody who keeps his permit and renders it no more.
LEMMA StoreShot ==
  ASSUME ShotIInv, NEW c \in ShotClients, Shots!Store(c)
  PROVE  ShotIInv'
<1> USE DEF ShotIInv
<1>1. /\ req[c].pc = "store" /\ age' = [age EXCEPT ![req[c].key] = 0]
      /\ req' = [req EXCEPT ![c].pc = "clean"] /\ UNCHANGED <<browser, disposing, managed, mutex>>
  BY DEF Shots!Store, Shots!At, Shots!Go
<1>2. /\ req'[c].pc = "clean" /\ req'[c].key = req[c].key /\ req'[c].at = req[c].at
      /\ req[c].key \in ShotPages
      /\ \A d \in ShotClients \ {c} : req'[d] = req[d]
      /\ \A d \in ShotClients : req'[d].at = req[d].at /\ req'[d].key = req[d].key
  BY <1>1 DEF ShotTypes
<1>3. ShotTypes'
  BY <1>1, <1>2, ShotConstants DEF ShotTypes, Handling, Browsing, Shots!NoRow
<1>4. AtFits' /\ StartsFit' /\ SparesFit'
  BY <1>1, <1>2 DEF AtFits, StartsFit, SparesFit, Browsing, Shots!Spent
<1>5. Permitted' = Permitted /\ c \in Permitted
  BY <1>1, <1>2 DEF Permitted, Shots!Permitted
<1>6. \A b : Coming(b)' = Coming(b)
  BY <1>1, <1>2 DEF Coming
<1>7. PermitsKept' /\ SharesKept'
  BY <1>1, <1>5, <1>6 DEF PermitsKept, SharesKept
<1>8. ASSUME NEW k \in ShotPages, Shots!Hit(k)'
      PROVE  Cardinality(Drawing(k)') < ShotPermits
  <2>1. Drawing(k)' \subseteq Permitted \ {c} /\ Permitted \in SUBSET ShotClients
    BY <1>1, <1>2 DEF Drawing, Permitted, Shots!Permitted
  <2>2. Permitted \ {c} \in SUBSET ShotClients /\ Drawing(k)' \in SUBSET ShotClients
    BY <2>1
  <2>3. /\ Cardinality(Drawing(k)') <= Cardinality(Permitted \ {c})
        /\ Cardinality(Permitted \ {c}) = Cardinality(Permitted) - 1
        /\ Cardinality(Permitted) \in Nat /\ Cardinality(Drawing(k)') \in Nat
    BY <1>5, <2>1, <2>2, ClientCounts
  <2> QED
    BY <2>3, ShotConstants DEF PermitsKept
<1>9. ContextsFit'
  <2>1. \A b : Drawn(b)' = Drawn(b)
    BY <1>1, <1>2 DEF Drawn
  <2> QED
    BY <1>1, <2>1 DEF ContextsFit
<1> QED
  BY <1>3, <1>4, <1>7, <1>8, <1>9 DEF CacheUsed

\* A page grows old, and may leave the cache.
LEMMA TickShot ==
  ASSUME ShotIInv, Shots!Tick
  PROVE  ShotIInv'
<1> USE DEF ShotIInv
<1>1. /\ age' = [k \in ShotPages |-> IF age[k] \in 0..(2 * ShotTtl) THEN age[k] + 1 ELSE age[k]]
      /\ UNCHANGED <<req, browser, disposing, managed, mutex>>
  BY DEF Shots!Tick
<1>2. ShotTypes'
  BY <1>1, ShotConstants DEF ShotTypes, Shots!NoRow
<1>3. \A k \in ShotPages : Shots!Hit(k)' => Shots!Hit(k)
  BY <1>1, ShotConstants DEF ShotTypes, Shots!Hit, Shots!NoRow
<1>4. AtFits' /\ StartsFit' /\ SparesFit'
  BY <1>1 DEF AtFits, StartsFit, SparesFit, Shots!Spent
<1>5. /\ Permitted' = Permitted
      /\ \A b : Coming(b)' = Coming(b)
      /\ \A k : Drawing(k)' = Drawing(k)
  BY <1>1 DEF Permitted, Shots!Permitted, Coming, Drawing
<1>6. \A b \in Shots!Browsers : browser'[b].renders <= browser[b].renders
  BY <1>1 DEF ShotTypes
<1>7. (PermitsKept /\ SharesKept /\ CacheUsed)'
  BY <1>2, <1>3, <1>5, <1>6, CountsFall
<1>8. ContextsFit'
  <2>1. \A b : Drawn(b)' = Drawn(b)
    BY <1>1 DEF Drawn
  <2> QED
    BY <1>1, <2>1 DEF ContextsFit
<1> QED
  BY <1>2, <1>4, <1>7, <1>8

\* A browser dies, or its actor has ended.
LEMMA DieShot ==
  ASSUME ShotIInv, NEW b \in Shots!Browsers, Shots!Die(b) \/ Shots!Close(b)
  PROVE  ShotIInv'
<1> USE DEF ShotIInv
<1>1. /\ \/ browser' = [browser EXCEPT ![b].up = FALSE]
         \/ ~browser[b].up /\ browser' = [browser EXCEPT ![b].open = FALSE]
      /\ UNCHANGED <<req, age, disposing, managed, mutex>>
  BY DEF Shots!Die, Shots!Close
<1>2. ShotTypes'
  BY <1>1 DEF ShotTypes
<1>3. \A x \in Shots!Browsers :
        /\ browser'[x].renders = browser[x].renders /\ browser[x].renders \in Nat
        /\ browser'[x].open => browser[x].open
        /\ browser'[x].up => browser[x].up
        /\ browser'[x].up => browser'[x].open
  <2> SUFFICES ASSUME NEW x \in Shots!Browsers
               PROVE  /\ browser'[x].renders = browser[x].renders /\ browser[x].renders \in Nat
                      /\ browser'[x].open => browser[x].open
                      /\ browser'[x].up => browser[x].up
                      /\ browser'[x].up => browser'[x].open
    OBVIOUS
  <2>1. browser[x].up => browser[x].open
    BY DEF SparesFit
  <2>2. browser[x] \in [up : BOOLEAN, open : BOOLEAN, renders : Nat]
        /\ browser \in [Shots!Browsers -> [up : BOOLEAN, open : BOOLEAN, renders : Nat]]
    BY DEF ShotTypes
  <2>3. CASE x # b
    <3>1. browser'[x] = browser[x]
      BY <1>1, <2>2, <2>3
    <3> QED
      BY <2>1, <2>2, <3>1
  <2>4. CASE x = b /\ browser' = [browser EXCEPT ![b].up = FALSE]
    BY <2>1, <2>2, <2>4
  <2>5. CASE x = b /\ ~browser[b].up /\ browser' = [browser EXCEPT ![b].open = FALSE]
    BY <2>1, <2>2, <2>5
  <2> QED
    BY <1>1, <2>3, <2>4, <2>5
<1>4. AtFits'
  BY <1>1 DEF AtFits
<1>5. /\ managed # 0 => managed \in Shots!Browsers
      /\ \A c \in ShotClients : req[c].pc = "spawn" => req[c].at \in Shots!Browsers
  BY ShotConstants DEF ShotTypes, AtFits, Browsing, Shots!Browsers
<1>6. managed # 0 /\ Shots!Spent(managed) => Shots!Spent(managed)'
  BY <1>1, <1>3, <1>5 DEF Shots!Spent
<1>7. StartsFit'
  BY <1>1, <1>3, <1>5, <1>6 DEF StartsFit
<1>8. SparesFit'
  BY <1>1, <1>3 DEF SparesFit
<1>9. /\ Permitted' = Permitted
      /\ \A x : Coming(x)' = Coming(x)
      /\ \A k : Drawing(k)' = Drawing(k)
      /\ \A x : Drawn(x)' = Drawn(x)
      /\ \A k \in ShotPages : Shots!Hit(k)' => Shots!Hit(k)
  BY <1>1 DEF Permitted, Shots!Permitted, Coming, Drawing, Drawn, Shots!Hit
<1>10. \A x \in Shots!Browsers : browser'[x].renders <= browser[x].renders
  BY <1>3
<1>11. (PermitsKept /\ SharesKept /\ CacheUsed)'
  BY <1>2, <1>9, <1>10, CountsFall
<1>12. ContextsFit'
  BY <1>1, <1>3, <1>9 DEF ContextsFit
<1> QED
  BY <1>2, <1>4, <1>7, <1>8, <1>11, <1>12

\* A context is disposed of, or nobody cares any more.
LEMMA DisposedShot ==
  ASSUME ShotIInv, NEW b \in Shots!Browsers, Shots!Disposed(b)
  PROVE  ShotIInv'
<1> USE DEF ShotIInv
<1>1. /\ disposing[b] > 0 /\ disposing' = [disposing EXCEPT ![b] = @ - 1]
      /\ UNCHANGED <<req, age, browser, managed, mutex>>
  BY DEF Shots!Disposed
<1>2. /\ disposing' \in [Shots!Browsers -> Nat]
      /\ \A x \in Shots!Browsers : disposing'[x] <= disposing[x]
  BY <1>1 DEF ShotTypes
<1>3. ShotTypes' /\ AtFits' /\ StartsFit' /\ SparesFit'
  BY <1>1, <1>2 DEF ShotTypes, AtFits, StartsFit, SparesFit, Shots!Spent
<1>4. /\ Permitted' = Permitted
      /\ \A x : Coming(x)' = Coming(x)
      /\ \A k : Drawing(k)' = Drawing(k)
      /\ \A x : Drawn(x)' = Drawn(x)
      /\ \A k \in ShotPages : Shots!Hit(k)' => Shots!Hit(k)
  BY <1>1 DEF Permitted, Shots!Permitted, Coming, Drawing, Drawn, Shots!Hit
<1>5. \A x \in Shots!Browsers : browser'[x].renders = browser[x].renders
        /\ browser'[x].renders <= browser[x].renders
  BY <1>1 DEF ShotTypes
<1>6. (PermitsKept /\ SharesKept /\ CacheUsed)'
  BY <1>3, <1>4, <1>5, CountsFall
<1>7. ContextsFit'
  BY <1>2, <1>3, <1>4, <1>5, ContextsStay DEF ContextsFit
<1> QED
  BY <1>3, <1>6, <1>7

\* A browser that nobody holds is gone: it had no context left and none comes.
LEMMA ExitShot ==
  ASSUME ShotIInv, NEW b \in Shots!Browsers, Shots!Exit(b)
  PROVE  ShotIInv'
<1> USE DEF ShotIInv
<1>1. /\ b # managed /\ ~(disposing[b] > 0) /\ \A c \in ShotClients : req[c].at # b
      /\ browser' = [browser EXCEPT ![b] = Shots!Dead]
      /\ UNCHANGED <<req, age, disposing, managed, mutex>>
  BY DEF Shots!Exit, Shots!Held
<1>2. ShotTypes'
  BY <1>1, DeadShape DEF ShotTypes
<1>3. /\ browser'[b] = Shots!Dead
      /\ \A x \in Shots!Browsers \ {b} : browser'[x] = browser[x]
  BY <1>1 DEF ShotTypes
<1>4. AtFits'
  BY <1>1 DEF AtFits
<1>5. /\ managed # 0 => managed \in Shots!Browsers
      /\ \A c \in ShotClients : req[c].pc = "spawn" => req[c].at \in Shots!Browsers
  BY ShotConstants DEF ShotTypes, AtFits, Browsing, Shots!Browsers
<1>6. managed # 0 /\ Shots!Spent(managed) => Shots!Spent(managed)'
  BY <1>1, <1>3, <1>5 DEF Shots!Spent
<1>7. StartsFit'
  BY <1>1, <1>3, <1>5, <1>6 DEF StartsFit
<1>8. SparesFit'
  BY <1>1, <1>3, DeadShape DEF SparesFit
<1>9. /\ Permitted' = Permitted
      /\ \A x : Coming(x)' = Coming(x)
      /\ \A k : Drawing(k)' = Drawing(k)
      /\ \A x : Drawn(x)' = Drawn(x)
      /\ \A k \in ShotPages : Shots!Hit(k)' => Shots!Hit(k)
  BY <1>1 DEF Permitted, Shots!Permitted, Coming, Drawing, Drawn, Shots!Hit
<1>10. \A x \in Shots!Browsers : browser'[x].renders <= browser[x].renders
  <2> SUFFICES ASSUME NEW x \in Shots!Browsers
               PROVE  browser'[x].renders <= browser[x].renders
    OBVIOUS
  <2>1. browser[x].renders \in Nat /\ browser'[x].renders \in {0, browser[x].renders}
    BY <1>3, DeadShape DEF ShotTypes
  <2> QED
    BY <2>1
<1>11. (PermitsKept /\ SharesKept /\ CacheUsed)'
  BY <1>2, <1>9, <1>10, CountsFall
<1>12. ContextsFit'
  <2> SUFFICES ASSUME NEW x \in Shots!Browsers
               PROVE  disposing'[x] + Cardinality(Drawn(x)') <= browser'[x].renders
    BY DEF ContextsFit
  <2>1. CASE x = b
    <3>1. Drawn(x)' = {} /\ disposing'[x] = 0
      BY <1>1, <2>1 DEF Drawn, ShotTypes
    <3> QED
      BY <1>3, <2>1, <3>1, DeadShape, FS_EmptySet
  <2>2. CASE x # b
    BY <1>1, <1>3, <1>9, <2>2 DEF ContextsFit
  <2> QED
    BY <2>1, <2>2
<1> QED
  BY <1>2, <1>4, <1>7, <1>8, <1>11, <1>12

\* A render counts itself: it comes no more.
LEMMA CountShot ==
  ASSUME ShotIInv, NEW c \in ShotClients, Shots!Count(c)
  PROVE  ShotIInv'
<1> USE DEF ShotIInv
<1>0. PICK b : b = req[c].at
  OBVIOUS
<1>1. /\ req[c].pc = "render"
      /\ browser' = [browser EXCEPT ![b].renders = @ + 1]
      /\ req' = [req EXCEPT ![c].pc = "drawn"] /\ UNCHANGED <<age, disposing, managed, mutex>>
      /\ browser[b].up
  BY <1>0 DEF Shots!Count, Shots!At, Shots!Go
<1>2. b \in Shots!Browsers
  BY <1>0, <1>1, ShotConstants DEF ShotTypes, AtFits, Browsing, Shots!Browsers
<1>3. /\ req'[c].pc = "drawn" /\ req'[c].key = req[c].key
      /\ \A d \in ShotClients \ {c} : req'[d] = req[d]
      /\ \A d \in ShotClients : req'[d].at = req[d].at /\ req'[d].key = req[d].key
  BY <1>1 DEF ShotTypes
<1>4. /\ browser'[b].renders = browser[b].renders + 1 /\ browser[b].renders \in Nat
      /\ \A x \in Shots!Browsers : browser'[x].open = browser[x].open /\ browser'[x].up = browser[x].up
      /\ \A x \in Shots!Browsers \ {b} : browser'[x] = browser[x]
  BY <1>1, <1>2 DEF ShotTypes
<1>5. ShotTypes'
  BY <1>1, <1>2 DEF ShotTypes, Handling, Browsing
<1>6. AtFits'
  BY <1>1, <1>3 DEF AtFits, Browsing
<1>7. /\ managed # 0 => managed \in Shots!Browsers
      /\ \A d \in ShotClients : req[d].pc = "spawn" => req[d].at \in Shots!Browsers
  BY ShotConstants DEF ShotTypes, AtFits, Browsing, Shots!Browsers
<1>8. managed # 0 /\ Shots!Spent(managed) => Shots!Spent(managed)'
  BY <1>1, <1>4, <1>7, ShotConstants DEF Shots!Spent
<1>9. \A d \in ShotClients : req[d].pc = "spawn" => req[d].at # b
  BY <1>0, <1>1 DEF StartsFit
<1>10. StartsFit'
  BY <1>1, <1>3, <1>4, <1>7, <1>8, <1>9 DEF StartsFit
<1>11. SparesFit'
  <2> SUFFICES ASSUME NEW x \in Shots!Browsers
               PROVE  /\ browser'[x].up => browser'[x].open
                      /\ x # managed' /\ browser'[x].up /\ browser'[x].renders < ShotRenders =>
                           /\ browser'[x].renders = 0
                           /\ \A d \in ShotClients : req'[d].at = x => req'[d].pc = "spawn"
    BY DEF SparesFit
  <2>1. CASE x = b
    <3>1. browser'[b].renders < ShotRenders => browser[b].renders < ShotRenders
      BY <1>4, ShotConstants
    <3>2. ~(b # managed /\ browser[b].renders < ShotRenders)
      BY <1>0, <1>1, <1>2 DEF SparesFit
    <3>3. browser'[b].up => browser'[b].open
      BY <1>2, <1>4 DEF SparesFit
    <3> QED
      BY <1>1, <2>1, <3>1, <3>2, <3>3
  <2>2. CASE x # b
    BY <1>0, <1>1, <1>3, <1>4, <2>2 DEF SparesFit
  <2> QED
    BY <2>1, <2>2
<1>12. /\ Permitted' = Permitted
       /\ \A k : Drawing(k)' = Drawing(k)
       /\ \A k \in ShotPages : Shots!Hit(k)' => Shots!Hit(k)
  BY <1>1, <1>3 DEF Permitted, Shots!Permitted, Drawing, Shots!Hit
<1>13. PermitsKept' /\ CacheUsed'
  BY <1>12 DEF PermitsKept, CacheUsed
<1>14. ASSUME NEW x \in Shots!Browsers
       PROVE  (browser[x].renders + Cardinality(Coming(x)) <= ShotRenders + ShotPermits - 1)'
  <2>1. browser[x].renders + Cardinality(Coming(x)) <= ShotRenders + ShotPermits - 1
    BY DEF SharesKept
  <2>2. CASE x = b
    <3>1. c \in Coming(b) /\ Coming(b)' = Coming(b) \ {c} /\ Coming(b) \in SUBSET ShotClients
      BY <1>0, <1>1, <1>3 DEF Coming
    <3>2. Cardinality(Coming(b)') = Cardinality(Coming(b)) - 1 /\ Cardinality(Coming(b)) \in Nat
      BY <3>1, ClientCounts
    <3>3. /\ Cardinality(Coming(x)') = Cardinality(Coming(x)) - 1
          /\ Cardinality(Coming(x)) \in Nat
          /\ browser'[x].renders = browser[x].renders + 1 /\ browser[x].renders \in Nat
      BY <1>4, <2>2, <3>2
    <3> QED
      BY <2>1, <3>3
  <2>3. CASE x # b
    <3>1. Coming(x)' = Coming(x)
      BY <1>0, <1>1, <1>3, <2>3 DEF Coming
    <3> QED
      BY <1>4, <2>1, <2>3, <3>1
  <2> QED
    BY <2>2, <2>3
<1>15. SharesKept'
  BY <1>14 DEF SharesKept
<1>16. ContextsFit'
  <2> SUFFICES ASSUME NEW x \in Shots!Browsers
               PROVE  disposing'[x] + Cardinality(Drawn(x)') <= browser'[x].renders
    BY DEF ContextsFit
  <2>1. disposing[x] + Cardinality(Drawn(x)) <= browser[x].renders
        /\ disposing'[x] = disposing[x] /\ disposing[x] \in Nat
    BY <1>1 DEF ContextsFit, ShotTypes
  <2>2. CASE x = b
    <3>1. /\ Drawn(b) \in SUBSET ShotClients /\ c \in ShotClients \ Drawn(b)
          /\ Drawn(b)' = Drawn(b) \cup {c}
      BY <1>0, <1>1, <1>3 DEF Drawn
    <3>2. Cardinality(Drawn(b)') = Cardinality(Drawn(b)) + 1 /\ Cardinality(Drawn(b)) \in Nat
      BY <3>1, ClientCounts
    <3>3. /\ Cardinality(Drawn(x)') = Cardinality(Drawn(x)) + 1 /\ Cardinality(Drawn(x)) \in Nat
          /\ browser'[x].renders = browser[x].renders + 1 /\ browser[x].renders \in Nat
      BY <1>4, <2>2, <3>2
    <3> QED
      BY <2>1, <3>3
  <2>3. CASE x # b
    <3>1. Drawn(x)' = Drawn(x)
      BY <1>0, <1>1, <1>3, <2>3 DEF Drawn
    <3> QED
      BY <1>4, <2>1, <2>3, <3>1
  <2> QED
    BY <2>2, <2>3
<1> QED
  BY <1>5, <1>6, <1>10, <1>11, <1>13, <1>15, <1>16

\* A browser that still has renders to give is shared.
LEMMA ShareShot ==
  ASSUME ShotIInv, NEW c \in ShotClients, req[c].pc = "lock", mutex = None,
         managed # 0, ~Shots!Spent(managed),
         req' = [req EXCEPT ![c].pc = "render", ![c].at = managed],
         UNCHANGED <<age, browser, disposing, managed, mutex>>
  PROVE  ShotIInv'
<1> USE DEF ShotIInv
<1>1. /\ req'[c].pc = "render" /\ req'[c].at = managed /\ req'[c].key = req[c].key
      /\ req[c].at = 0 /\ \A d \in ShotClients \ {c} : req'[d] = req[d]
  BY DEF ShotTypes, AtFits, Browsing
<1>2. managed \in Shots!Browsers /\ browser[managed].open
      /\ browser[managed].renders \in Nat /\ browser[managed].renders < ShotRenders
  BY ShotConstants DEF ShotTypes, Shots!Browsers, Shots!Spent
<1>3. ShotTypes'
  BY <1>1 DEF ShotTypes, Handling, Browsing
<1>4. AtFits'
  BY <1>1 DEF AtFits, Browsing
<1>5. \A d \in ShotClients : req[d].pc # "spawn"
  BY ShotConstants DEF StartsFit
<1>6. StartsFit'
  BY <1>1, <1>5 DEF StartsFit
<1>7. SparesFit'
  <2>1. \A x \in Shots!Browsers, d \in ShotClients :
          x # managed /\ req'[d].at = x => req'[d] = req[d]
    BY <1>1
  <2> SUFFICES ASSUME NEW x \in Shots!Browsers
               PROVE  /\ browser'[x].up => browser'[x].open
                      /\ x # managed' /\ browser'[x].up /\ browser'[x].renders < ShotRenders =>
                           /\ browser'[x].renders = 0
                           /\ \A d \in ShotClients : req'[d].at = x => req'[d].pc = "spawn"
    BY DEF SparesFit
  <2>2. /\ browser[x].up => browser[x].open
        /\ x # managed /\ browser[x].up /\ browser[x].renders < ShotRenders =>
             /\ browser[x].renders = 0
             /\ \A d \in ShotClients : req[d].at = x => req[d].pc = "spawn"
    BY DEF SparesFit
  <2> QED
    BY <2>1, <2>2
<1>8. /\ Permitted' = Permitted /\ Permitted \in SUBSET ShotClients
      /\ \A k : Drawing(k)' = Drawing(k)
      /\ \A k \in ShotPages : Shots!Hit(k)' => Shots!Hit(k)
  BY <1>1 DEF Permitted, Shots!Permitted, Drawing, Shots!Hit
<1>9. PermitsKept' /\ CacheUsed'
  BY <1>8 DEF PermitsKept, CacheUsed
<1>10. ASSUME NEW x \in Shots!Browsers
       PROVE  (browser[x].renders + Cardinality(Coming(x)) <= ShotRenders + ShotPermits - 1)'
  <2>1. Coming(x) \in SUBSET ShotClients /\ Coming(x)' \in SUBSET ShotClients
    BY DEF Coming
  <2>2. CASE x = managed
    <3>1. Coming(x)' \in SUBSET Permitted
      BY <1>1 DEF Coming, Permitted, Shots!Permitted
    <3>2. /\ Cardinality(Coming(x)') <= Cardinality(Permitted)
          /\ Cardinality(Coming(x)') \in Nat /\ Cardinality(Permitted) \in Nat
      BY <1>8, <2>1, <3>1, ClientCounts
    <3> QED
      BY <1>2, <2>2, <3>2, ShotConstants DEF PermitsKept
  <2>3. CASE x # managed
    <3>1. Coming(x)' = Coming(x)
      BY <1>1, <2>3 DEF Coming
    <3> QED
      BY <3>1 DEF SharesKept
  <2> QED
    BY <2>2, <2>3
<1>11. SharesKept'
  BY <1>10 DEF SharesKept
<1>12. ContextsFit'
  <2>1. \A x : Drawn(x)' = Drawn(x)
    BY <1>1 DEF Drawn
  <2> QED
    BY <2>1 DEF ContextsFit
<1> QED
  BY <1>3, <1>4, <1>6, <1>7, <1>9, <1>11, <1>12

\* A browser is started, under the name of one that nobody holds.
LEMMA StartShot ==
  ASSUME ShotIInv, NEW c \in ShotClients, NEW b \in Shots!Browsers,
         req[c].pc = "lock", mutex = None, managed = 0 \/ Shots!Spent(managed),
         b # managed, ~(disposing[b] > 0), \A d \in ShotClients : req[d].at # b,
         browser' = [browser EXCEPT ![b] = Shots!Fresh],
         req' = [req EXCEPT ![c].pc = "spawn", ![c].at = b],
         mutex' = c, UNCHANGED <<age, disposing, managed>>
  PROVE  ShotIInv'
<1> USE DEF ShotIInv
<1>1. /\ req'[c].pc = "spawn" /\ req'[c].at = b /\ req'[c].key = req[c].key
      /\ req[c].at = 0 /\ \A d \in ShotClients \ {c} : req'[d] = req[d]
      /\ \A d \in ShotClients : req'[d].key = req[d].key
  BY DEF ShotTypes, AtFits, Browsing
<1>2. /\ browser'[b] = Shots!Fresh /\ \A x \in Shots!Browsers \ {b} : browser'[x] = browser[x]
      /\ Shots!Fresh.renders = 0 /\ Shots!Fresh.up /\ Shots!Fresh.open
      /\ Shots!Fresh \in [up : BOOLEAN, open : BOOLEAN, renders : Nat]
      /\ b # 0 /\ b \in 0..ShotBrowsers
  BY ShotConstants DEF ShotTypes, Shots!Fresh, Shots!Browsers
<1>3. ShotTypes'
  <2>1. req' \in [ShotClients -> [pc : Handling, key : ShotPages, at : 0..ShotBrowsers]]
    BY <1>2 DEF ShotTypes, Handling, Browsing
  <2>2. browser' \in [Shots!Browsers -> [up : BOOLEAN, open : BOOLEAN, renders : Nat]]
    BY <1>2 DEF ShotTypes
  <2> QED
    BY <2>1, <2>2 DEF ShotTypes
<1>4. AtFits'
  <2> SUFFICES ASSUME NEW d \in ShotClients
               PROVE  (req'[d].pc \in Browsing) <=> (req'[d].at # 0)
    BY DEF AtFits
  <2>1. CASE d = c
    BY <1>1, <1>2, <2>1 DEF Browsing
  <2>2. CASE d # c
    BY <1>1, <2>2 DEF AtFits
  <2> QED
    BY <2>1, <2>2
<1>5. \A d \in ShotClients : req[d].pc # "spawn"
  BY ShotConstants DEF StartsFit
<1>6. managed' = 0 \/ Shots!Spent(managed)'
  <2>1. managed # 0 => managed \in Shots!Browsers
    BY ShotConstants DEF ShotTypes, Shots!Browsers
  <2> QED
    BY <1>2, <2>1 DEF Shots!Spent
<1>7. StartsFit'
  <2> SUFFICES ASSUME NEW d \in ShotClients
               PROVE  /\ mutex' = d <=> req'[d].pc = "spawn"
                      /\ req'[d].pc = "spawn" =>
                           /\ managed' = 0 \/ Shots!Spent(managed)'
                           /\ req'[d].at # managed' /\ browser'[req'[d].at].renders = 0
                           /\ \A e \in ShotClients \ {d} : req'[e].at # req'[d].at
    BY DEF StartsFit
  <2>1. CASE d = c
    <3>1. mutex' = c /\ req'[c].pc = "spawn" /\ req'[c].at # managed'
      BY <1>1
    <3>2. browser'[req'[c].at].renders = 0
      BY <1>1, <1>2
    <3>3. \A e \in ShotClients \ {c} : req'[e].at # req'[c].at
      BY <1>1
    <3> QED
      BY <1>6, <2>1, <3>1, <3>2, <3>3
  <2>2. CASE d # c
    BY <1>1, <1>5, <2>2
  <2> QED
    BY <2>1, <2>2
<1>8. SparesFit'
  <2> SUFFICES ASSUME NEW x \in Shots!Browsers
               PROVE  /\ browser'[x].up => browser'[x].open
                      /\ x # managed' /\ browser'[x].up /\ browser'[x].renders < ShotRenders =>
                           /\ browser'[x].renders = 0
                           /\ \A d \in ShotClients : req'[d].at = x => req'[d].pc = "spawn"
    BY DEF SparesFit
  <2>1. CASE x = b
    <3>1. browser'[x].renders = 0 /\ browser'[x].open
      BY <1>2, <2>1
    <3>2. \A d \in ShotClients : req'[d].at = x => req'[d].pc = "spawn"
      BY <1>1, <2>1
    <3> QED
      BY <3>1, <3>2
  <2>2. CASE x # b
    <3>1. browser'[x] = browser[x] /\ managed' = managed
      BY <1>2, <2>2
    <3>2. \A d \in ShotClients : req'[d].at = x => req'[d] = req[d]
      BY <1>1, <2>2
    <3>3. /\ browser[x].up => browser[x].open
          /\ x # managed /\ browser[x].up /\ browser[x].renders < ShotRenders =>
               /\ browser[x].renders = 0
               /\ \A d \in ShotClients : req[d].at = x => req[d].pc = "spawn"
      BY DEF SparesFit
    <3> QED
      BY <3>1, <3>2, <3>3
  <2> QED
    BY <2>1, <2>2
<1>9. /\ Permitted' = Permitted
      /\ \A x : Coming(x)' \subseteq Coming(x)
      /\ \A k : Drawing(k)' = Drawing(k)
      /\ \A k \in ShotPages : Shots!Hit(k)' => Shots!Hit(k)
  BY <1>1 DEF Permitted, Shots!Permitted, Coming, Drawing, Shots!Hit
<1>10. Coming(b)' = {}
  BY <1>1 DEF Coming
<1>11. \A x \in Shots!Browsers :
         \/ browser'[x].renders <= browser[x].renders /\ Coming(x)' \subseteq Coming(x)
         \/ browser'[x].renders = 0 /\ Coming(x)' = {}
  <2> SUFFICES ASSUME NEW x \in Shots!Browsers, x # b
               PROVE  browser'[x].renders <= browser[x].renders
    BY <1>2, <1>9, <1>10
  <2> QED
    BY <1>2 DEF ShotTypes
<1>12. (PermitsKept /\ SharesKept /\ CacheUsed)'
  BY <1>3, <1>9, <1>11, CountsFall
<1>13. ContextsFit'
  <2> SUFFICES ASSUME NEW x \in Shots!Browsers
               PROVE  disposing'[x] + Cardinality(Drawn(x)') <= browser'[x].renders
    BY DEF ContextsFit
  <2>1. CASE x = b
    <3>1. Drawn(x)' = {} /\ disposing'[x] = 0
      BY <1>1, <2>1 DEF Drawn, ShotTypes
    <3> QED
      BY <1>2, <2>1, <3>1, FS_EmptySet
  <2>2. CASE x # b
    <3>1. Drawn(x)' = Drawn(x)
      BY <1>1 DEF Drawn
    <3> QED
      BY <1>2, <2>2, <3>1 DEF ContextsFit
  <2> QED
    BY <2>1, <2>2
<1> QED
  BY <1>3, <1>4, <1>7, <1>8, <1>12, <1>13

\* Who has the mutex shares the managed browser, or starts one.
LEMMA LockShot ==
  ASSUME ShotIInv, NEW c \in ShotClients, Shots!Lock(c)
  PROVE  ShotIInv'
<1>1. CASE managed # 0 /\ ~Shots!Spent(managed)
  BY <1>1, ShareShot DEF Shots!Lock, Shots!At
<1>2. CASE ~(managed # 0 /\ ~Shots!Spent(managed))
  <2>1. PICK b \in Shots!Browsers :
          /\ b # managed /\ ~(disposing[b] > 0) /\ \A d \in ShotClients : req[d].at # b
          /\ browser' = [browser EXCEPT ![b] = Shots!Fresh]
          /\ req' = [req EXCEPT ![c].pc = "spawn", ![c].at = b]
          /\ mutex' = c
    BY <1>2 DEF Shots!Lock, Shots!NextName, Shots!Unnamed, Shots!Held
  <2> QED
    BY <1>2, <2>1, StartShot DEF Shots!Lock, Shots!At
<1> QED
  BY <1>1, <1>2

\* The new browser is the managed one: its first render comes, and whoever
\* shared the old one goes on with it.
LEMMA SpawnedShot ==
  ASSUME ShotIInv, NEW c \in ShotClients, Shots!Spawned(c)
  PROVE  ShotIInv'
<1> USE DEF ShotIInv
<1>1. PICK s : s = req[c].at
  OBVIOUS
<1>2. /\ req[c].pc = "spawn" /\ mutex = c /\ mutex' = None
      /\ managed' = s /\ UNCHANGED <<age, browser, disposing>>
      /\ req' = [req EXCEPT ![c].pc = "render"]
  BY <1>1 DEF Shots!Spawned, Shots!At, Shots!Go, StartsFit
<1>3. s \in Shots!Browsers /\ s # 0 /\ s \in 0..ShotBrowsers
  BY <1>1, <1>2, ShotConstants DEF ShotTypes, AtFits, Browsing, Shots!Browsers
<1>4. /\ req'[c].pc = "render" /\ \A d \in ShotClients \ {c} : req'[d] = req[d]
      /\ \A d \in ShotClients : req'[d].at = req[d].at /\ req'[d].key = req[d].key
      /\ \A d \in ShotClients \ {c} : req[d].pc # "spawn" /\ req[d].at # s
      /\ browser[s].renders = 0 /\ (managed = 0 \/ Shots!Spent(managed))
  BY <1>1, <1>2 DEF ShotTypes, StartsFit
<1>6. ShotTypes'
  <2>1. req' \in [ShotClients -> [pc : Handling, key : ShotPages, at : 0..ShotBrowsers]]
    BY <1>2 DEF ShotTypes, Handling, Browsing
  <2> QED
    BY <1>2, <1>3, <2>1 DEF ShotTypes
<1>7. AtFits'
  BY <1>2, <1>4 DEF AtFits, Browsing
<1>8. StartsFit'
  BY <1>2, <1>4, ShotConstants DEF StartsFit
<1>9. SparesFit'
  <2> SUFFICES ASSUME NEW b \in Shots!Browsers
               PROVE  /\ browser[b].up => browser[b].open
                      /\ b # s /\ browser[b].up /\ browser[b].renders < ShotRenders =>
                           /\ browser[b].renders = 0
                           /\ \A d \in ShotClients : req'[d].at = b => req'[d].pc = "spawn"
    BY <1>2 DEF SparesFit
  <2>1. CASE b = managed
    <3>1. b # 0 /\ browser[b].renders \in Nat
      BY ShotConstants DEF Shots!Browsers, ShotTypes
    <3>2. browser[b].renders >= ShotRenders \/ ~browser[b].open
      BY <1>4, <2>1, <3>1 DEF Shots!Spent
    <3> QED
      BY <3>1, <3>2, ShotConstants DEF SparesFit
  <2>2. CASE b # managed
    BY <1>1, <1>4, <2>2 DEF SparesFit
  <2> QED
    BY <2>1, <2>2
<1>10. /\ Permitted' = Permitted
       /\ \A k : Drawing(k)' = Drawing(k)
       /\ \A k \in ShotPages : Shots!Hit(k)' => Shots!Hit(k)
  BY <1>2, <1>4 DEF Permitted, Shots!Permitted, Drawing, Shots!Hit
<1>11. PermitsKept' /\ CacheUsed'
  BY <1>10 DEF PermitsKept, CacheUsed
<1>12. ASSUME NEW b \in Shots!Browsers
       PROVE  (browser[b].renders + Cardinality(Coming(b)) <= ShotRenders + ShotPermits - 1)'
  <2>1. CASE b = s
    <3>1. Coming(b)' = {c}
      BY <1>1, <1>4, <2>1 DEF Coming
    <3>2. Cardinality(Coming(b)') = 1
      BY <3>1, FS_Singleton
    <3>3. browser'[b].renders = 0
      BY <1>2, <1>4, <2>1
    <3> QED
      BY <3>2, <3>3, ShotConstants
  <2>2. CASE b # s
    <3>1. Coming(b)' = Coming(b) /\ Coming(b) \in SUBSET ShotClients
      BY <1>1, <1>2, <1>4, <2>2 DEF Coming
    <3>2. browser'[b].renders = browser[b].renders /\ browser[b].renders \in Nat
      BY <1>2 DEF ShotTypes
    <3>3. Cardinality(Coming(b)') = Cardinality(Coming(b)) /\ Cardinality(Coming(b)) \in Nat
      BY <3>1, ClientCounts
    <3>4. browser[b].renders + Cardinality(Coming(b)) <= ShotRenders + ShotPermits - 1
      BY DEF SharesKept
    <3> QED
      BY <3>2, <3>3, <3>4, ShotConstants
  <2> QED
    BY <2>1, <2>2
<1>13. SharesKept'
  BY <1>12 DEF SharesKept
<1>14. ContextsFit'
  <2>1. \A b : Drawn(b)' = Drawn(b)
    BY <1>2, <1>4 DEF Drawn
  <2> QED
    BY <1>2, <2>1 DEF ContextsFit
<1> QED
  BY <1>6, <1>7, <1>8, <1>9, <1>11, <1>13, <1>14

\* The invariant is inductive.
LEMMA NextShots == ShotIInv /\ Shots!Next => ShotIInv'
<1> SUFFICES ASSUME ShotIInv, Shots!Next
             PROVE  ShotIInv'
  OBVIOUS
<1>1. CASE Shots!Tick
  BY <1>1, TickShot
<1>2. CASE \E b \in Shots!Browsers : Shots!Task(b) \/ Shots!Die(b)
  BY <1>2, DieShot, DisposedShot, ExitShot DEF Shots!Task
<1>3. CASE \E c \in ShotClients : \/ Shots!Ask(c) \/ Shots!Permit(c) \/ Shots!Lock(c)
                                 \/ Shots!Handle(c) \/ Shots!Disconnect(c)
  <2>1. PICK c \in ShotClients : \/ Shots!Ask(c) \/ Shots!Permit(c) \/ Shots!Lock(c)
                                 \/ Shots!Handle(c) \/ Shots!Disconnect(c)
    BY <1>3
  <2>2. CASE Shots!Leave(c)
    BY <2>2, LeaveShot
  <2>3. CASE Shots!Look(c) \/ Shots!LookAgain(c) \/ Shots!Permit(c) \/ Shots!Rendered(c)
    BY <2>3, LooksShot
  <2>4. Shots!Handle(c) \/ Shots!Disconnect(c) =>
          \/ Shots!Leave(c) \/ Shots!Look(c) \/ Shots!LookAgain(c) \/ Shots!Rendered(c)
          \/ Shots!Spawned(c) \/ Shots!Count(c) \/ Shots!Store(c) \/ Shots!Clean(c)
    BY DEF Shots!Handle, Shots!Disconnect, Shots!SpawnFails, Shots!Fail, Shots!StoreNot
  <2> QED
    BY <2>1, <2>2, <2>3, <2>4, AskShot, LockShot, SpawnedShot, CountShot, StoreShot, CleanShot
<1> QED
  BY <1>1, <1>2, <1>3 DEF Shots!Next

\* A step of another part leaves it alone.
LEMMA StillShots == ShotIInv /\ UNCHANGED shotVars => ShotIInv'
<1> SUFFICES ASSUME ShotIInv, UNCHANGED shotVars
             PROVE  ShotIInv'
  OBVIOUS
<1>1. UNCHANGED <<req, age, browser, disposing, managed, mutex>>
  BY DEF shotVars
<1>2. /\ Permitted' = Permitted
      /\ \A b : Coming(b)' = Coming(b)
      /\ \A k : Drawing(k)' = Drawing(k)
      /\ \A b : Drawn(b)' = Drawn(b)
      /\ \A k : Shots!Hit(k)' <=> Shots!Hit(k)
  BY <1>1 DEF Permitted, Shots!Permitted, Coming, Drawing, Drawn, Shots!Hit
<1>3. ShotTypes' /\ AtFits' /\ StartsFit' /\ SparesFit'
  BY <1>1 DEF ShotIInv, ShotTypes, AtFits, StartsFit, SparesFit, Shots!Spent
<1>4. PermitsKept' /\ SharesKept' /\ CacheUsed' /\ ContextsFit'
  BY <1>1, <1>2 DEF ShotIInv, PermitsKept, SharesKept, CacheUsed, ContextsFit
<1> QED
  BY <1>3, <1>4 DEF ShotIInv

\* What the runs check of it.
LEMMA BrowsersAreBounded ==
  ShotIInv => /\ Shots!TypeOK /\ Shots!RendersBounded /\ Shots!SparesAreSpent
              /\ Shots!ContextsBounded /\ Shots!NoRedundantRender
<1> SUFFICES ASSUME ShotIInv
             PROVE  /\ Shots!TypeOK /\ Shots!RendersBounded /\ Shots!SparesAreSpent
                    /\ Shots!ContextsBounded /\ Shots!NoRedundantRender
  OBVIOUS
<1> USE DEF ShotIInv
<1>1. Shots!TypeOK
  <2>1. \A c \in ShotClients : mutex = c => Shots!At(c, "spawn")
    BY DEF StartsFit, Shots!At
  <2> QED
    BY <2>1 DEF Shots!TypeOK, ShotTypes, Handling, Browsing
<1>2. Shots!RendersBounded
  <2> SUFFICES ASSUME NEW b \in Shots!Browsers
               PROVE  browser[b].renders <= ShotRenders + ShotPermits - 1
    BY DEF Shots!RendersBounded
  <2>1. Cardinality(Coming(b)) \in Nat
    BY ClientCounts DEF Coming
  <2>2. browser[b].renders + Cardinality(Coming(b)) <= ShotRenders + ShotPermits - 1
    BY DEF SharesKept
  <2>3. browser[b].renders \in Nat
    BY DEF ShotTypes
  <2> QED
    BY <2>1, <2>2, <2>3, ShotConstants
<1>3. Shots!SparesAreSpent
  <2> SUFFICES ASSUME NEW b \in Shots!Browsers, b # managed, browser[b].up
               PROVE  browser[b].renders \notin 1..(ShotRenders - 1)
    BY DEF Shots!SparesAreSpent, Shots!Spare
  <2>1. browser[b].renders < ShotRenders => browser[b].renders = 0
    BY DEF SparesFit
  <2>2. browser[b].renders \in Nat
    BY DEF ShotTypes
  <2> QED
    BY <2>1, <2>2, ShotConstants
<1>4. Shots!NoRedundantRender
  BY ShotConstants DEF CacheUsed, Drawing, Shots!NoRedundantRender
<1>5. Shots!ContextsBounded
  <2>1. \A b : Drawn(b) = {c \in ShotClients : Shots!At(c, "drawn") /\ req[c].at = b}
    BY DEF Drawn, Shots!At
  <2> QED
    BY <2>1, ShotConstants DEF ContextsFit, Shots!ContextsBounded
<1> QED
  BY <1>1, <1>2, <1>3, <1>4, <1>5

\* Only Spawned replaces a browser, and its lock found the old one spent.
LEMMA ReplacesShots == ShotIInv /\ Shots!Next => Shots!ReplacedOnlyWhenSpent
<1> SUFFICES ASSUME ShotIInv, Shots!Next, managed' # managed
             PROVE  managed = 0 \/ Shots!Spent(managed)
  BY DEF Shots!ReplacedOnlyWhenSpent
<1>1. \A c \in ShotClients : ~Shots!Spawned(c) =>
        ~(\/ Shots!Ask(c) \/ Shots!Permit(c) \/ Shots!Lock(c)
          \/ Shots!Handle(c) \/ Shots!Disconnect(c))
  BY DEF Shots!Ask, Shots!Permit, Shots!Lock, Shots!Handle, Shots!Disconnect, Shots!Look,
         Shots!LookAgain, Shots!SpawnFails, Shots!Fail, Shots!StoreNot, Shots!Leave,
         Shots!Count, Shots!Rendered, Shots!Store, Shots!Clean
<1>2. ~Shots!Tick /\ \A b \in Shots!Browsers : ~(Shots!Task(b) \/ Shots!Die(b))
  BY DEF Shots!Tick, Shots!Die, Shots!Task, Shots!Disposed, Shots!Close, Shots!Exit
<1>3. PICK c \in ShotClients : Shots!Spawned(c)
  BY <1>1, <1>2 DEF Shots!Next
<1> QED
  BY <1>3 DEF ShotIInv, StartsFit, Shots!Spawned, Shots!At

-----------------------------------------------------------------------------
(* Fonts *)

\* The bounds of fonts.
LEMMA FontConstants == FontDirs \in Nat \ {0} /\ FontPulls \in Nat /\ FontPanics \in Nat
BY PartsAssumption DEF PartsAssumption, Clone!FontsAssumption

Entries == [slug : Families, dir : 1..FontDirs, files : SUBSET FontFiles]
Of(S, f) == {e \in S : e.slug = f}

WantTypes == want = [c \in FontClients |-> [slug |-> want[c].slug, dir |-> want[c].dir,
                                         file |-> want[c].file, at |-> want[c].at]]
\* Places of the tree, entries of the index and stages of the load.
FontTypes ==
  /\ tree \in [Families -> [dir : 0..FontDirs, files : SUBSET FontFiles]]
  /\ tree \in [Families -> Clone!Places]
  /\ pulls \in Nat /\ touched \in [Families -> Nat] /\ from \in Nat
  /\ load \in [dir : 0..FontDirs, todo : SUBSET Families, found : SUBSET Entries, from : Nat]
  /\ index \subseteq Entries
  /\ fetcher \in [FontClients -> {"idle", "lookup", "read"}]
  /\ status \in [FontClients -> {0, 200, 404}]
  /\ DOMAIN want = FontClients /\ WantTypes

\* Pulls are counted, and what they change is newer than any load begun before.
PullsCounted ==
  /\ \A f \in Families : touched[f] <= pulls
  /\ from <= pulls /\ load.from <= pulls
  /\ load.dir # 0 => from <= load.from

\* A load has found what the pulls since it began left alone, as far as it got.
LoadsAll ==
  /\ load.dir = 0 => load.todo = {}
  /\ load.dir # 0 =>
    \A f \in Families : touched[f] <= load.from =>
      /\ f \in load.todo => tree[f].dir = load.dir
      /\ Of(load.found, f) =
           IF \/ tree[f].dir \in 1..(load.dir - 1)
              \/ tree[f].dir = load.dir /\ f \notin load.todo
           THEN {Clone!Entry(f)} ELSE {}

\* The index lists what was left alone since the load that made it.
IndexFits ==
  \A f \in Families : touched[f] <= from =>
    Of(index, f) = IF tree[f].dir # 0 THEN {Clone!Entry(f)} ELSE {}

\* What a client fetches is there, unless a pull came after the load.
WantFits ==
  \A c \in FontClients : fetcher[c] # "idle" =>
    /\ want[c].slug \in Families /\ want[c].at \in Nat /\ want[c].at <= from
    /\ touched[want[c].slug] <= want[c].at =>
         /\ tree[want[c].slug].dir # 0 /\ want[c].file \in tree[want[c].slug].files
         /\ fetcher[c] = "read" => want[c].dir = tree[want[c].slug].dir

FontIInv == FontTypes /\ PullsCounted /\ LoadsAll /\ IndexFits /\ WantFits

-----------------------------------------------------------------------------

\* A place of the tree.
LEMMA PlacesShape ==
  ASSUME NEW p \in Clone!Places
  PROVE  p \in [dir : 0..FontDirs, files : SUBSET FontFiles]
BY FontConstants DEF Clone!Places

\* No load.
LEMMA NoLoadShape ==
  /\ Clone!NoLoad \in [dir : 0..FontDirs, todo : SUBSET Families,
                       found : SUBSET Entries, from : Nat]
  /\ Clone!NoLoad.dir = 0 /\ Clone!NoLoad.from = 0
BY FontConstants DEF Clone!NoLoad

\* A family's entry has its place.
LEMMA EntryShape ==
  ASSUME FontTypes, NEW f \in Families
  PROVE  /\ Clone!Entry(f).slug = f /\ Clone!Entry(f).dir = tree[f].dir
         /\ Clone!Entry(f).files = tree[f].files
         /\ tree[f].dir \in 0..FontDirs /\ tree[f].files \in SUBSET FontFiles
         /\ tree[f].dir # 0 => Clone!Entry(f) \in Entries
BY FontConstants DEF FontTypes, Clone!Entry, Entries

\* The index is of the tree.
LEMMA InitFonts == Clone!Init => FontIInv
<1> SUFFICES ASSUME Clone!Init
             PROVE  FontIInv
  OBVIOUS
<1>1. /\ tree \in [Families -> Clone!Places] /\ pulls = 0 /\ panics = 0
      /\ touched = [f \in Families |-> 0]
      /\ index = Clone!Indexed /\ from = 0 /\ load = Clone!NoLoad
      /\ fetcher = [c \in FontClients |-> "idle"] /\ want = [c \in FontClients |-> Clone!NoWant]
      /\ status = [c \in FontClients |-> 0]
  BY DEF Clone!Init
<1>2. tree \in [Families -> [dir : 0..FontDirs, files : SUBSET FontFiles]]
  BY <1>1, PlacesShape
<1>3. index = {Clone!Entry(f) : f \in {g \in Families : tree[g].dir # 0}}
  BY <1>1 DEF Clone!Indexed
<1>4. \A f \in Families :
        /\ Clone!Entry(f).slug = f
        /\ tree[f].dir # 0 => Clone!Entry(f) \in Entries
  BY <1>2, FontConstants DEF Clone!Entry, Entries
<1>5. index \subseteq Entries
  BY <1>3, <1>4
<1>6. FontTypes
  BY <1>1, <1>2, <1>5, NoLoadShape DEF FontTypes, WantTypes, Clone!NoWant
<1>7. PullsCounted /\ LoadsAll /\ WantFits
  BY <1>1, NoLoadShape DEF PullsCounted, LoadsAll, WantFits, Clone!NoLoad
<1>8. IndexFits
  BY <1>3, <1>4 DEF IndexFits, Of
<1> QED
  BY <1>6, <1>7, <1>8 DEF FontIInv

\* A pull changes one family, and marks it.
LEMMA PullFont ==
  ASSUME FontIInv, NEW g \in Families, Clone!Pull(g)
  PROVE  FontIInv'
<1> USE DEF FontIInv
<1>1. PICK p \in Clone!Places : tree' = [tree EXCEPT ![g] = p]
  BY DEF Clone!Pull
<1>2. /\ pulls' = pulls + 1 /\ touched' = [touched EXCEPT ![g] = pulls + 1]
      /\ UNCHANGED <<panics, index, from, load, fetcher, want, status>>
  BY DEF Clone!Pull, Clone!clients
<1>3. /\ touched'[g] = pulls + 1
      /\ \A f \in Families \ {g} : tree'[f] = tree[f] /\ touched'[f] = touched[f]
      /\ \A f \in Families \ {g} : Clone!Entry(f)' = Clone!Entry(f)
  BY <1>1, <1>2 DEF FontTypes, Clone!Entry
<1>4. FontTypes'
  BY <1>1, <1>2, PlacesShape DEF FontTypes, WantTypes
<1>5. PullsCounted'
  BY <1>2, <1>3 DEF PullsCounted, FontTypes
<1>6. \A f \in Families : touched'[f] <= load.from \/ touched'[f] <= from => f # g
  BY <1>3 DEF PullsCounted, FontTypes
<1>7. LoadsAll'
  BY <1>2, <1>3, <1>6 DEF LoadsAll, Of
<1>8. IndexFits'
  BY <1>2, <1>3, <1>6 DEF IndexFits, Of
<1>9. WantFits'
  <2> SUFFICES ASSUME NEW c \in FontClients, fetcher[c] # "idle"
               PROVE  /\ want[c].slug \in Families /\ want[c].at \in Nat /\ want[c].at <= from
                      /\ touched'[want[c].slug] <= want[c].at =>
                           /\ tree'[want[c].slug].dir # 0
                           /\ want[c].file \in tree'[want[c].slug].files
                           /\ fetcher[c] = "read" => want[c].dir = tree'[want[c].slug].dir
    BY <1>2 DEF WantFits
  <2>1. want[c].slug \in Families /\ want[c].at \in Nat /\ want[c].at <= from
    BY DEF WantFits
  <2>2. touched'[want[c].slug] <= want[c].at => want[c].slug # g
    BY <1>3, <2>1 DEF PullsCounted, FontTypes
  <2> QED
    BY <1>3, <2>1, <2>2 DEF WantFits
<1> QED
  BY <1>4, <1>5, <1>7, <1>8, <1>9

\* A directory is listed, the first or the next.
LEMMA ListFonts ==
  ASSUME FontIInv, Clone!LoadStart \/ Clone!NextDir
  PROVE  FontIInv'
<1> USE DEF FontIInv
<1>1. UNCHANGED <<tree, pulls, touched, panics, index, from, fetcher, want, status>>
  BY DEF Clone!LoadStart, Clone!NextDir, Clone!clone, Clone!clients
<1>2. CASE Clone!LoadStart
  <2>1. load' = [dir |-> 1, todo |-> {f \in Families : tree[f].dir = 1}, found |-> {},
                 from |-> pulls]
    BY <1>2 DEF Clone!LoadStart
  <2>2. FontTypes'
    BY <1>1, <2>1, FontConstants DEF FontTypes, WantTypes
  <2>3. PullsCounted'
    BY <1>1, <2>1 DEF PullsCounted, FontTypes
  <2>4. LoadsAll'
    BY <1>1, <2>1 DEF LoadsAll, Of
  <2>5. IndexFits' /\ WantFits'
    BY <1>1 DEF IndexFits, WantFits, Of, Clone!Entry
  <2> QED
    BY <2>2, <2>3, <2>4, <2>5
<1>3. CASE Clone!NextDir
  <2>1. /\ load.dir \in 1..(FontDirs - 1) /\ load.todo = {}
        /\ load' = [load EXCEPT !.dir = @ + 1,
                                !.todo = {f \in Families : tree[f].dir = load.dir + 1}]
    BY <1>3 DEF Clone!NextDir
  <2>2. /\ load'.dir = load.dir + 1 /\ load'.found = load.found /\ load'.from = load.from
        /\ load'.todo = {f \in Families : tree[f].dir = load.dir + 1}
        /\ load' = [dir |-> load'.dir, todo |-> load'.todo, found |-> load'.found,
                    from |-> load'.from]
    BY <2>1 DEF FontTypes
  <2>3. FontTypes'
    <3>1. load'.dir \in 0..FontDirs /\ load'.todo \in SUBSET Families
      BY <2>1, <2>2, FontConstants
    <3>2. load'.found \in SUBSET Entries /\ load'.from \in Nat
      BY <2>2 DEF FontTypes
    <3>3. load' \in [dir : 0..FontDirs, todo : SUBSET Families, found : SUBSET Entries, from : Nat]
      BY <2>2, <3>1, <3>2
    <3> QED
      BY <1>1, <3>3 DEF FontTypes, WantTypes
  <2>4. PullsCounted'
    BY <1>1, <2>1, <2>2 DEF PullsCounted, FontTypes
  <2>5. LoadsAll'
    <3> SUFFICES ASSUME NEW f \in Families, touched[f] <= load.from
                 PROVE  /\ f \in load'.todo => tree[f].dir = load'.dir
                        /\ Of(load.found, f) =
                             IF \/ tree[f].dir \in 1..(load'.dir - 1)
                                \/ tree[f].dir = load'.dir /\ f \notin load'.todo
                             THEN {Clone!Entry(f)} ELSE {}
      BY <1>1, <2>1, <2>2 DEF LoadsAll, Of, Clone!Entry
    <3>1. Of(load.found, f) = IF \/ tree[f].dir \in 1..(load.dir - 1)
                                 \/ tree[f].dir = load.dir
                              THEN {Clone!Entry(f)} ELSE {}
      BY <2>1 DEF LoadsAll
    <3>2. tree[f].dir \in Int
      BY EntryShape
    <3> QED
      BY <2>1, <2>2, <3>1, <3>2 DEF FontTypes
  <2>6. IndexFits' /\ WantFits'
    BY <1>1 DEF IndexFits, WantFits, Of, Clone!Entry
  <2> QED
    BY <2>3, <2>4, <2>5, <2>6
<1> QED
  BY <1>2, <1>3

\* A load begins, lists directories, and ends.
LEMMA LoadFont ==
  ASSUME FontIInv, NEW g \in Families, Clone!LoadFamily(g)
  PROVE  FontIInv'
<1> USE DEF FontIInv
<1>1. /\ g \in load.todo
      /\ UNCHANGED <<tree, pulls, touched, panics, index, from, fetcher, want, status>>
  BY DEF Clone!LoadFamily, Clone!clone, Clone!clients
<1>2. load' = [dir |-> load.dir, todo |-> load.todo \ {g},
               found |-> IF tree[g].dir = load.dir
                         THEN load.found \cup {Clone!Entry(g)} ELSE load.found,
               from |-> load.from]
  <2>1. load = [dir |-> load.dir, todo |-> load.todo, found |-> load.found, from |-> load.from]
    BY DEF FontTypes
  <2>2. CASE tree[g].dir = load.dir
    BY <2>1, <2>2 DEF Clone!LoadFamily
  <2>3. CASE tree[g].dir # load.dir
    BY <2>1, <2>3 DEF Clone!LoadFamily, Clone!LeftOut
  <2> QED
    BY <2>2, <2>3
<1>3. load.dir # 0
  BY <1>1 DEF LoadsAll
<1>4. tree[g].dir = load.dir => Clone!Entry(g) \in Entries
  BY <1>3, EntryShape
<1>5. FontTypes'
  <2>1. load' \in [dir : 0..FontDirs, todo : SUBSET Families, found : SUBSET Entries, from : Nat]
    BY <1>2, <1>4 DEF FontTypes
  <2> QED
    BY <1>1, <2>1 DEF FontTypes, WantTypes
<1>6. PullsCounted'
  BY <1>1, <1>2 DEF PullsCounted
<1>7. LoadsAll'
  <2> SUFFICES ASSUME NEW f \in Families, touched[f] <= load.from
               PROVE  /\ f \in load'.todo => tree[f].dir = load.dir
                      /\ Of(load'.found, f) =
                           IF \/ tree[f].dir \in 1..(load.dir - 1)
                              \/ tree[f].dir = load.dir /\ f \notin load'.todo
                           THEN {Clone!Entry(f)} ELSE {}
    BY <1>1, <1>2, <1>3 DEF LoadsAll, Of, Clone!Entry
  <2>1. /\ f \in load.todo => tree[f].dir = load.dir
        /\ Of(load.found, f) =
             IF \/ tree[f].dir \in 1..(load.dir - 1)
                \/ tree[f].dir = load.dir /\ f \notin load.todo
             THEN {Clone!Entry(f)} ELSE {}
    BY <1>3 DEF LoadsAll
  <2>2. CASE f = g
    <3>1. tree[g].dir = load.dir /\ load.dir \in Int /\ Of(load.found, g) = {}
      BY <1>1, <2>1, <2>2 DEF FontTypes
    <3>2. Of(load'.found, g) = {Clone!Entry(g)}
      BY <1>2, <3>1, EntryShape DEF Of
    <3> QED
      BY <1>2, <2>2, <3>1, <3>2
  <2>3. CASE f # g
    <3>1. Of(load'.found, f) = Of(load.found, f)
      BY <1>2, <2>3, EntryShape DEF Of
    <3> QED
      BY <1>2, <2>1, <2>3, <3>1
  <2> QED
    BY <2>2, <2>3
<1>8. IndexFits' /\ WantFits'
  BY <1>1 DEF IndexFits, WantFits, Of, Clone!Entry
<1> QED
  BY <1>5, <1>6, <1>7, <1>8

\* The load has seen every directory.
LEMMA SwapFont ==
  ASSUME FontIInv, Clone!Swap
  PROVE  FontIInv'
<1> USE DEF FontIInv
<1>1. /\ load.dir = FontDirs /\ load.todo = {}
      /\ index' = load.found /\ from' = load.from /\ load' = Clone!NoLoad
      /\ UNCHANGED <<tree, pulls, touched, panics, fetcher, want, status>>
  BY DEF Clone!Swap, Clone!clone, Clone!clients
<1>2. load.dir # 0 /\ from <= load.from
  BY <1>1, FontConstants DEF PullsCounted
<1>3. FontTypes'
  BY <1>1, NoLoadShape DEF FontTypes, WantTypes
<1>4. PullsCounted'
  BY <1>1, NoLoadShape DEF PullsCounted, FontTypes
<1>5. LoadsAll'
  BY <1>1, NoLoadShape DEF LoadsAll, Clone!NoLoad
<1>6. IndexFits'
  <2> SUFFICES ASSUME NEW f \in Families, touched[f] <= load.from
               PROVE  Of(load.found, f) = IF tree[f].dir # 0 THEN {Clone!Entry(f)} ELSE {}
    BY <1>1 DEF IndexFits, Of, Clone!Entry
  <2>1. Of(load.found, f) = IF \/ tree[f].dir \in 1..(FontDirs - 1)
                               \/ tree[f].dir = FontDirs
                            THEN {Clone!Entry(f)} ELSE {}
    BY <1>1, <1>2 DEF LoadsAll
  <2>2. tree[f].dir \in 0..FontDirs
    BY EntryShape
  <2> QED
    BY <2>1, <2>2, FontConstants
<1>7. WantFits'
  <2> SUFFICES ASSUME NEW c \in FontClients, fetcher[c] # "idle"
               PROVE  want[c].at <= load.from
    BY <1>1 DEF WantFits
  <2> QED
    BY <1>2 DEF WantFits, FontTypes
<1> QED
  BY <1>3, <1>4, <1>5, <1>6, <1>7

\* A load panics, and is begun again.
LEMMA PanicFont ==
  ASSUME FontIInv, Clone!Panic
  PROVE  FontIInv'
<1> USE DEF FontIInv
<1>1. /\ load' = Clone!NoLoad
      /\ UNCHANGED <<tree, pulls, touched, index, from, fetcher, want, status>>
  BY DEF Clone!Panic, Clone!clone, Clone!clients
<1>2. FontTypes'
  BY <1>1, NoLoadShape DEF FontTypes, WantTypes
<1>3. PullsCounted' /\ LoadsAll'
  BY <1>1, NoLoadShape DEF PullsCounted, LoadsAll, FontTypes, Clone!NoLoad
<1>4. IndexFits' /\ WantFits'
  BY <1>1 DEF IndexFits, WantFits, Of, Clone!Entry
<1> QED
  BY <1>2, <1>3, <1>4

\* What one client has is replaced.
LEMMA WantReplaced ==
  ASSUME FontTypes, NEW c \in FontClients, NEW slug_, NEW dir_, NEW file_, NEW at_,
         want' = [want EXCEPT ![c] = [slug |-> slug_, dir |-> dir_, file |-> file_, at |-> at_]]
  PROVE  /\ WantTypes' /\ DOMAIN want' = FontClients
         /\ \A d \in FontClients \ {c} : want'[d] = want[d]
<1>1. /\ DOMAIN want' = FontClients
      /\ want' = [d \in FontClients |-> want'[d]]
      /\ want'[c] = [slug |-> slug_, dir |-> dir_, file |-> file_, at |-> at_]
      /\ \A d \in FontClients \ {c} : want'[d] = want[d]
  BY DEF FontTypes, WantTypes
<1>2. \A d \in FontClients : want[d] = [slug |-> want[d].slug, dir |-> want[d].dir,
                                       file |-> want[d].file, at |-> want[d].at]
  BY DEF FontTypes, WantTypes
<1>3. \A d \in FontClients : want'[d] = [slug |-> want'[d].slug, dir |-> want'[d].dir,
                                        file |-> want'[d].file, at |-> want'[d].at]
  <2> SUFFICES ASSUME NEW d \in FontClients
               PROVE  want'[d] = [slug |-> want'[d].slug, dir |-> want'[d].dir,
                                  file |-> want'[d].file, at |-> want'[d].at]
    OBVIOUS
  <2>1. CASE d = c
    BY <1>1, <2>1
  <2>2. CASE d # c
    BY <1>1, <1>2, <2>2
  <2> QED
    BY <2>1, <2>2
<1> QED
  BY <1>1, <1>3 DEF WantTypes

\* The steps of clients change nothing but what the client has.
LEMMA ClientFont ==
  ASSUME FontIInv, NEW c \in FontClients, Clone!Search(c) \/ Clone!Lookup(c) \/ Clone!Read(c)
  PROVE  FontIInv'
<1> USE DEF FontIInv
<1>1. UNCHANGED <<tree, pulls, touched, panics, index, from, load>>
  BY DEF Clone!Search, Clone!Lookup, Clone!Read, Clone!clone
<1>2. PullsCounted' /\ LoadsAll' /\ IndexFits'
  BY <1>1 DEF PullsCounted, LoadsAll, IndexFits, Of, Clone!Entry
<1>3. FontTypes' /\ \A d \in FontClients \ {c} : fetcher'[d] = fetcher[d] /\ want'[d] = want[d]
  <2>1. ASSUME NEW answer_ \in {200, 404}, Clone!Done(c, answer_)
        PROVE  FontTypes' /\ \A d \in FontClients \ {c} :
                               fetcher'[d] = fetcher[d] /\ want'[d] = want[d]
    <3>1. /\ fetcher' = [fetcher EXCEPT ![c] = "idle"]
          /\ want' = [want EXCEPT ![c] = Clone!NoWant]
          /\ status' = [status EXCEPT ![c] = answer_]
      BY <2>1 DEF Clone!Done
    <3>2. WantTypes' /\ DOMAIN want' = FontClients
      BY <3>1, WantReplaced DEF Clone!NoWant
    <3>3. /\ fetcher' \in [FontClients -> {"idle", "lookup", "read"}]
          /\ status' \in [FontClients -> {0, 200, 404}]
      BY <3>1 DEF FontTypes
    <3>4. \A d \in FontClients \ {c} : fetcher'[d] = fetcher[d] /\ want'[d] = want[d]
      BY <3>1 DEF FontTypes
    <3> QED
      BY <1>1, <3>2, <3>3, <3>4 DEF FontTypes
  <2>2. CASE Clone!Search(c)
    <3>1. /\ fetcher' = [fetcher EXCEPT ![c] = "lookup"]
          /\ status' = [status EXCEPT ![c] = 0]
      BY <2>2 DEF Clone!Search
    <3>2. /\ WantTypes' /\ DOMAIN want' = FontClients
          /\ \A d \in FontClients \ {c} : want'[d] = want[d]
      <4>1. PICK e \in index : \E x \in e.files :
              want' = [want EXCEPT ![c] = [slug |-> e.slug, dir |-> 0, file |-> x, at |-> from]]
        BY <2>2 DEF Clone!Search
      <4> QED
        BY <4>1, WantReplaced
    <3> QED
      BY <1>1, <3>1, <3>2 DEF FontTypes
  <2>3. CASE Clone!Lookup(c)
    <3>1. CASE Clone!Done(c, 404)
      BY <2>1, <3>1
    <3>2. CASE ~Clone!Done(c, 404)
      <4>1. PICK place : /\ want' = [want EXCEPT ![c].dir = place]
                         /\ fetcher' = [fetcher EXCEPT ![c] = "read"] /\ status' = status
        BY <2>3, <3>2 DEF Clone!Lookup
      <4>2. WantTypes' /\ DOMAIN want' = FontClients
        BY <4>1 DEF FontTypes, WantTypes
      <4> QED
        BY <1>1, <4>1, <4>2 DEF FontTypes
    <3> QED
      BY <3>1, <3>2
  <2>4. CASE Clone!Read(c)
    <3>1. PICK answer_ \in {200, 404} : Clone!Done(c, answer_)
      BY <2>4 DEF Clone!Read
    <3> QED
      BY <2>1, <3>1
  <2> QED
    BY <2>2, <2>3, <2>4
<1>4. ASSUME fetcher'[c] # "idle"
      PROVE  /\ want'[c].slug \in Families /\ want'[c].at \in Nat /\ want'[c].at <= from
             /\ touched[want'[c].slug] <= want'[c].at =>
                  /\ tree[want'[c].slug].dir # 0
                  /\ want'[c].file \in tree[want'[c].slug].files
                  /\ fetcher'[c] = "read" => want'[c].dir = tree[want'[c].slug].dir
  <2>1. ~Clone!Read(c) /\ \A answer_ : ~Clone!Done(c, answer_)
    BY <1>4 DEF Clone!Read, Clone!Done, FontTypes
  <2>2. CASE Clone!Search(c)
    <3>0. PICK e \in index : \E x \in e.files :
            want' = [want EXCEPT ![c] = [slug |-> e.slug, dir |-> 0, file |-> x, at |-> from]]
      BY <2>2 DEF Clone!Search
    <3>1. PICK x \in e.files :
            want' = [want EXCEPT ![c] = [slug |-> e.slug, dir |-> 0, file |-> x, at |-> from]]
      BY <3>0
    <3>2. /\ want'[c].slug = e.slug /\ want'[c].file = x /\ want'[c].at = from
          /\ fetcher'[c] = "lookup" /\ e.slug \in Families /\ from \in Nat
      BY <2>2, <3>1 DEF Clone!Search, FontTypes, Entries
    <3>3. touched[e.slug] <= from => e = Clone!Entry(e.slug) /\ tree[e.slug].dir # 0
      BY <3>2 DEF IndexFits, Of
    <3>4. touched[e.slug] <= from => tree[e.slug].dir # 0 /\ x \in tree[e.slug].files
      BY <3>1, <3>2, <3>3, EntryShape
    <3> QED
      BY <3>2, <3>4
  <2>3. CASE Clone!Lookup(c)
    <3>1. PICK e \in Clone!Found(want[c].slug) :
            /\ want[c].file \in e.files /\ want' = [want EXCEPT ![c].dir = e.dir]
            /\ fetcher' = [fetcher EXCEPT ![c] = "read"]
      BY <2>1, <2>3 DEF Clone!Lookup
    <3>2. /\ want'[c].slug = want[c].slug /\ want'[c].file = want[c].file
          /\ want'[c].at = want[c].at /\ want'[c].dir = e.dir
      BY <3>1 DEF FontTypes, WantTypes
    <3>3. want[c].slug \in Families /\ want[c].at \in Nat /\ want[c].at <= from
      BY <2>3 DEF Clone!Lookup, WantFits
    <3>4. touched[want[c].slug] <= want[c].at =>
            e = Clone!Entry(want[c].slug) /\ tree[want[c].slug].dir # 0
      BY <3>1, <3>3 DEF IndexFits, Of, Clone!Found, FontTypes
    <3>5. touched[want[c].slug] <= want[c].at =>
            /\ e.dir = tree[want[c].slug].dir /\ tree[want[c].slug].dir # 0
            /\ want[c].file \in tree[want[c].slug].files
      BY <3>1, <3>3, <3>4, EntryShape
    <3> QED
      BY <3>2, <3>3, <3>5
  <2> QED
    BY <2>1, <2>2, <2>3
<1>5. WantFits'
  <2> SUFFICES ASSUME NEW d \in FontClients, fetcher'[d] # "idle"
               PROVE  /\ want'[d].slug \in Families /\ want'[d].at \in Nat /\ want'[d].at <= from
                      /\ touched[want'[d].slug] <= want'[d].at =>
                           /\ tree[want'[d].slug].dir # 0
                           /\ want'[d].file \in tree[want'[d].slug].files
                           /\ fetcher'[d] = "read" => want'[d].dir = tree[want'[d].slug].dir
    BY <1>1 DEF WantFits
  <2>1. CASE d = c
    BY <1>4, <2>1
  <2>2. CASE d # c
    BY <1>3, <2>2 DEF WantFits
  <2> QED
    BY <2>1, <2>2
<1> QED
  BY <1>2, <1>3, <1>5

\* The invariant is inductive.
LEMMA NextFonts == FontIInv /\ Clone!Next => FontIInv'
<1> SUFFICES ASSUME FontIInv, Clone!Next
             PROVE  FontIInv'
  OBVIOUS
<1>1. CASE \E f \in Families : Clone!Pull(f)
  BY <1>1, PullFont
<1>2. CASE Clone!LoadStart \/ Clone!NextDir
  BY <1>2, ListFonts
<1>3. CASE Clone!Swap
  BY <1>3, SwapFont
<1>4. CASE Clone!Panic
  BY <1>4, PanicFont
<1>5. CASE \E f \in Families : Clone!LoadFamily(f)
  BY <1>5, LoadFont
<1>6. CASE \E c \in FontClients : Clone!Search(c) \/ Clone!Lookup(c) \/ Clone!Read(c)
  BY <1>6, ClientFont
<1> QED
  BY <1>1, <1>2, <1>3, <1>4, <1>5, <1>6, Zenon DEF Clone!Next, Clone!Loads

\* A step of another part leaves it alone.
LEMMA StillFonts == FontIInv /\ UNCHANGED fontVars => FontIInv'
<1> SUFFICES ASSUME FontIInv, UNCHANGED fontVars
             PROVE  FontIInv'
  OBVIOUS
<1>1. UNCHANGED <<tree, pulls, panics, touched, index, from, load, fetcher, want, status>>
  BY DEF fontVars
<1> QED
  BY <1>1 DEF FontIInv, FontTypes, PullsCounted, LoadsAll, IndexFits, WantFits, WantTypes, Of,
              Clone!Entry

\* What the runs check of it.
LEMMA FontsAreListed == FontIInv => Clone!TypeOK /\ Clone!UntouchedIsListed
<1> SUFFICES ASSUME FontIInv
             PROVE  Clone!TypeOK /\ Clone!UntouchedIsListed
  OBVIOUS
<1>1. Clone!TypeOK
  BY DEF FontIInv, FontTypes, Clone!TypeOK, Entries
<1>2. ASSUME NEW f \in Families, touched[f] <= from
      PROVE  {e \in index : e.slug = f} = {e \in Clone!Indexed : e.slug = f}
  <2>1. {e \in Clone!Indexed : e.slug = f} = IF tree[f].dir # 0 THEN {Clone!Entry(f)} ELSE {}
    BY EntryShape DEF FontIInv, Clone!Indexed
  <2> QED
    BY <1>2, <2>1 DEF FontIInv, IndexFits, Of
<1> QED
  BY <1>1, <1>2 DEF Clone!UntouchedIsListed

\* What is not found is newer than the load that listed it.
LEMMA ServesFonts ==
  FontIInv /\ Clone!Next => Clone!ListedIsServed
<1> SUFFICES ASSUME FontIInv, Clone!Next, NEW c \in FontClients,
                    fetcher[c] # "idle", status'[c] = 404, status[c] # 404
             PROVE  touched[want[c].slug] > want[c].at
  BY DEF Clone!ListedIsServed
<1>1. want[c].slug \in Families /\ want[c].at \in Nat /\ want[c].at <= from
      /\ touched[want[c].slug] \in Nat /\ from \in Nat
  BY DEF FontIInv, FontTypes, WantFits
<1>2. PICK d \in FontClients : Clone!Search(d) \/ Clone!Lookup(d) \/ Clone!Read(d)
  BY DEF Clone!Next, Clone!Loads, Clone!Pull, Clone!LoadStart, Clone!NextDir, Clone!Swap,
         Clone!Panic, Clone!LoadFamily, Clone!clients
<1>3. \A answer_ : Clone!Done(d, answer_) => d = c /\ answer_ = 404
  BY DEF Clone!Done, FontIInv, FontTypes
<1>4. ~Clone!Search(d)
  BY DEF Clone!Search, FontIInv, FontTypes
<1> SUFFICES ASSUME touched[want[c].slug] <= want[c].at
             PROVE  FALSE
  BY <1>1
<1>5. /\ tree[want[c].slug].dir # 0 /\ want[c].file \in tree[want[c].slug].files
      /\ fetcher[c] = "read" => want[c].dir = tree[want[c].slug].dir
  BY DEF FontIInv, WantFits
<1>6. CASE Clone!Read(d)
  <2>1. PICK code : Clone!Done(d, code) /\ fetcher[d] = "read"
          /\ code = IF /\ tree[want[d].slug].dir = want[d].dir
                       /\ want[d].file \in tree[want[d].slug].files
                    THEN 200 ELSE 404
    BY <1>6 DEF Clone!Read
  <2> QED
    BY <1>3, <1>5, <2>1
<1>7. CASE Clone!Lookup(d)
  <2>1. Clone!Done(d, 404) /\ d = c
    BY <1>3, <1>7 DEF Clone!Lookup, FontIInv, FontTypes
  <2>2. Clone!Found(want[c].slug) = {Clone!Entry(want[c].slug)}
    BY <1>1, <1>5 DEF FontIInv, IndexFits, Of, Clone!Found
  <2>3. want[c].file \notin Clone!Entry(want[c].slug).files
    BY <1>7, <2>1, <2>2 DEF Clone!Lookup
  <2> QED
    BY <1>1, <1>5, <2>3, EntryShape DEF FontIInv
<1> QED
  BY <1>2, <1>4, <1>6, <1>7

-----------------------------------------------------------------------------
(* Favicons *)

SitesMet == {Sites[s] : s \in IconSites}
Visitors == {ann, bob}

\* The sites are of the type the component takes.
LEMMA IconConstants == SitesMet \subseteq Icons!SiteType /\ IconChanges \in Nat
BY PartsAssumption DEF PartsAssumption, Icons!FaviconAssumption, SitesMet

\* What a search may find.
Finds == [from : {"inline", "nowhere"} \cup Icons!Resources,
          is : {"image", "declared", "none"}]
Said == {"", "404", "500", "image"}
LEMMA NotFoundShape == Icons!NotFound \in Finds /\ Icons!NotFound.from = "nowhere"
BY DEF Icons!NotFound, Finds

\* Sites, faults, rows and visits.
IconTypes ==
  /\ site \in SitesMet
  /\ changes \in 0..IconChanges /\ faults \in 0..1
  /\ row \in [found : Finds, age : 0..4]
  /\ visit \in [Visitors -> {"idle", "lookup", "page", "icons", "store"}]
  /\ left \in [Visitors -> SUBSET (Nat \X Icons!Resources)]
  /\ icon \in [Visitors -> Finds]
  /\ DOMAIN seen = Visitors
  /\ answer \in [Visitors -> Said]

\* A fetch has candidates left while it looks at them.
LeftFits == \A r \in Visitors : (left[r] = {}) = (visit[r] # "icons")

\* What a fetch has seen is still there, or it is marked.
SeenFits == \A r \in Visitors : seen[r] \in {site, Icons!Changed}

\* Of the candidates of a page those that are not left were no images.
Searched(q, s) ==
  /\ ~Icons!Inline(s) /\ q \subseteq Icons!Candidates(s)
  /\ \A c \in Icons!Candidates(s) \ q : ~Icons!Accepted(s.has[c[2]])

\* A fetch has found nothing yet.
SearchFits ==
  \A r \in Visitors :
    /\ visit[r] # "store" => icon[r] = Icons!NotFound
    /\ visit[r] = "icons" /\ seen[r] # Icons!Changed => Searched(left[r], site)
    /\ visit[r] = "store" /\ seen[r] # Icons!Changed => Icons!IsIcon(icon[r], site)

IconIInv == IconTypes /\ LeftFits /\ SeenFits /\ SearchFits

-----------------------------------------------------------------------------

\* A row that is as old as can be told.
LEMMA IconOld == Icons!Old = 4
BY DEF Icons!Old

\* A candidate is a place of the page, or /favicon.ico behind it.
LEMMA CandidatesFit ==
  ASSUME NEW s \in SitesMet
  PROVE  /\ Icons!Candidates(s) \in SUBSET (Nat \X Icons!Resources)
         /\ Icons!Candidates(s) # {}
         /\ \A c \in Icons!Candidates(s) :
              c[1] \in DOMAIN Icons!Tried(s) /\ Icons!Tried(s)[c[1]] = c[2]
         /\ \A i \in DOMAIN Icons!Tried(s) :
              Icons!Tried(s)[i] \in Icons!Resources => <<i, Icons!Tried(s)[i]>> \in Icons!Candidates(s)
         /\ DOMAIN Icons!Tried(s) \subseteq Nat
<1> DEFINE h == s.hrefs
           n == Len(s.hrefs)
<1>1. h \in Seq(Icons!Hrefs)
  BY IconConstants DEF Icons!SiteType
<1>2. DOMAIN h = 1..n /\ n \in Nat
  BY <1>1
<1>3. "ico" \in Icons!Hrefs /\ "ico" \in Icons!Resources
  BY DEF Icons!Hrefs, Icons!Resources
<1>4. /\ Icons!Tried(s) = Append(h, "ico") /\ DOMAIN Icons!Tried(s) = 1..(n + 1)
      /\ Icons!Tried(s)[n + 1] = "ico" /\ \A i \in 1..n : Icons!Tried(s)[i] = h[i]
  BY <1>1, <1>2, <1>3 DEF Icons!Tried
<1>5. \A c : c \in Icons!Candidates(s) <=>
        \/ \E i \in 1..n : h[i] \in Icons!Resources /\ c = <<i, h[i]>>
        \/ c = <<n + 1, "ico">>
  BY <1>2 DEF Icons!Candidates
<1> HIDE DEF h, n
<1>6. ASSUME NEW c \in Icons!Candidates(s)
      PROVE  /\ c \in Nat \X Icons!Resources
             /\ c[1] \in 1..(n + 1) /\ Icons!Tried(s)[c[1]] = c[2]
  <2>1. CASE c = <<n + 1, "ico">>
    BY <1>2, <1>3, <1>4, <2>1
  <2>2. ASSUME NEW i \in 1..n, h[i] \in Icons!Resources, c = <<i, h[i]>>
        PROVE  /\ c \in Nat \X Icons!Resources
               /\ c[1] \in 1..(n + 1) /\ Icons!Tried(s)[c[1]] = c[2]
    BY <1>2, <1>4, <2>2
  <2> QED
    BY <1>5, <2>1, <2>2
<1>7. ASSUME NEW i \in 1..(n + 1), Icons!Tried(s)[i] \in Icons!Resources
      PROVE  <<i, Icons!Tried(s)[i]>> \in Icons!Candidates(s)
  <2>1. CASE i = n + 1
    BY <1>4, <1>5, <2>1
  <2>2. CASE i # n + 1
    <3>1. i \in 1..n
      BY <1>2, <2>2
    <3> QED
      BY <1>4, <1>5, <1>7, <3>1
  <2> QED
    BY <2>1, <2>2
<1>8. Icons!Candidates(s) # {}
  BY <1>5
<1>9. 1..(n + 1) \subseteq Nat
  BY <1>2
<1> QED
  BY <1>4, <1>6, <1>7, <1>8, <1>9

\* The first candidate that is left and leads to an image is what is looked for.
LEMMA FirstIsIcon ==
  ASSUME NEW s \in SitesMet, NEW q, Searched(q, s), NEW c \in q,
         \A d \in q : c[1] <= d[1], Icons!Accepted(s.has[c[2]])
  PROVE  Icons!IsIcon([from |-> c[2], is |-> s.has[c[2]]], s)
<1> DEFINE T == Icons!Tried(s)
<1>1. /\ ~Icons!Inline(s) /\ q \subseteq Icons!Candidates(s)
      /\ \A d \in Icons!Candidates(s) \ q : ~Icons!Accepted(s.has[d[2]])
  BY DEF Searched
<1>2. /\ c[1] \in DOMAIN T /\ T[c[1]] = c[2] /\ c \in Nat \X Icons!Resources
  BY <1>1, CandidatesFit
<1>3. c[1] \in Icons!Images(s)
  BY <1>2 DEF Icons!Images
<1>4. ASSUME NEW j \in Icons!Images(s)
      PROVE  c[1] <= j
  <2>1. j \in DOMAIN T /\ T[j] \in Icons!Resources /\ Icons!Accepted(s.has[T[j]])
    BY DEF Icons!Images
  <2>2. <<j, T[j]>> \in Icons!Candidates(s)
    BY <2>1, CandidatesFit
  <2> HIDE DEF T
  <2>3. <<j, T[j]>> \in q
    BY <1>1, <2>1, <2>2
  <2> QED
    BY <2>3
<1>5. [from |-> c[2], is |-> s.has[c[2]]] = [from |-> T[c[1]], is |-> s.has[T[c[1]]]]
  BY <1>2
<1> QED
  BY <1>1, <1>3, <1>4, <1>5 DEF Icons!IsIcon

\* Where no candidate is left there is no icon.
LEMMA NoneIsNotFound ==
  ASSUME NEW s \in SitesMet, Searched({}, s)
  PROVE  Icons!IsIcon(Icons!NotFound, s)
<1>1. ASSUME NEW j \in Icons!Images(s)
      PROVE  FALSE
  <2> DEFINE T == Icons!Tried(s)
  <2>1. j \in DOMAIN T /\ T[j] \in Icons!Resources /\ Icons!Accepted(s.has[T[j]])
    BY <1>1 DEF Icons!Images
  <2>2. <<j, T[j]>> \in Icons!Candidates(s)
    BY <2>1, CandidatesFit
  <2> HIDE DEF T
  <2> QED
    BY <2>1, <2>2 DEF Searched
<1>2. ~Icons!HasIcon(s)
  BY <1>1 DEF Icons!HasIcon, Searched
<1> QED
  BY <1>2 DEF Icons!IsIcon

\* Nobody has asked for an icon.
LEMMA InitIcons == Icons!Init => IconIInv
<1> SUFFICES ASSUME Icons!Init
             PROVE  IconIInv
  OBVIOUS
<1>1. /\ site \in SitesMet /\ changes = 0 /\ faults = 0 /\ row = Icons!NoRow
      /\ visit = [r \in Visitors |-> "idle"] /\ left = [r \in Visitors |-> {}]
      /\ icon = [r \in Visitors |-> Icons!NotFound] /\ seen = [r \in Visitors |-> Icons!Changed]
      /\ answer \in [Visitors -> Said]
  <2>1. answer = [r \in Visitors |-> ""] /\ "" \in Said
    BY Zenon DEF Icons!Init, Said, Visitors
  <2>2. answer \in [Visitors -> Said]
    BY Zenon, <2>1
  <2>3. /\ site \in SitesMet /\ changes = 0 /\ faults = 0 /\ row = Icons!NoRow
        /\ visit = [r \in Visitors |-> "idle"] /\ left = [r \in Visitors |-> {}]
        /\ icon = [r \in Visitors |-> Icons!NotFound]
        /\ seen = [r \in Visitors |-> Icons!Changed]
    BY Zenon DEF Icons!Init, Visitors, SitesMet
  <2> QED
    BY <2>2, <2>3
<1>2. IconTypes
  BY <1>1, IconConstants, IconOld, NotFoundShape DEF IconTypes, Icons!NoRow
<1>3. LeftFits /\ SeenFits /\ SearchFits
  BY <1>1 DEF LeftFits, SeenFits, SearchFits
<1> QED
  BY <1>2, <1>3 DEF IconIInv

\* A step of one visitor, or of none.
LEMMA OthersSearch ==
  ASSUME IconIInv, IconTypes', NEW r \in Visitors, site' = site,
         \A d \in Visitors \ {r} :
           /\ visit'[d] = visit[d] /\ left'[d] = left[d]
           /\ icon'[d] = icon[d] /\ seen'[d] = seen[d],
         (left'[r] = {}) = (visit'[r] # "icons"),
         seen'[r] \in {site, Icons!Changed},
         visit'[r] # "store" => icon'[r] = Icons!NotFound,
         visit'[r] = "icons" /\ seen'[r] # Icons!Changed => Searched(left'[r], site),
         visit'[r] = "store" /\ seen'[r] # Icons!Changed => Icons!IsIcon(icon'[r], site)
  PROVE  IconIInv'
<1> USE DEF IconIInv
<1>1. LeftFits'
  BY DEF LeftFits
<1>2. SeenFits'
  BY DEF SeenFits
<1>3. SearchFits'
  <2> SUFFICES ASSUME NEW d \in Visitors
               PROVE  /\ visit'[d] # "store" => icon'[d] = Icons!NotFound
                      /\ visit'[d] = "icons" /\ seen'[d] # Icons!Changed => Searched(left'[d], site)
                      /\ visit'[d] = "store" /\ seen'[d] # Icons!Changed =>
                           Icons!IsIcon(icon'[d], site)
    BY DEF SearchFits, Searched, Icons!IsIcon, Icons!HasIcon
  <2>1. CASE d = r
    BY <2>1
  <2>2. CASE d # r
    BY <2>2 DEF SearchFits
  <2> QED
    BY <2>1, <2>2
<1> QED
  BY <1>1, <1>2, <1>3

\* A visitor asks, and a fetch begins where the row is stale.
LEMMA AskIcon ==
  ASSUME IconIInv, NEW r \in Visitors, Icons!Ask(r) \/ Icons!Lookup(r)
  PROVE  IconIInv'
<1> USE DEF IconIInv
<1>1. /\ UNCHANGED <<site, changes, faults, row, left, icon, seen>>
      /\ visit[r] # "icons" /\ visit[r] # "store"
  BY DEF Icons!Ask, Icons!Lookup, Icons!world, Icons!fetch
<1>2. PICK to \in {"idle", "lookup", "page"} : visit' = [visit EXCEPT ![r] = to]
  BY DEF Icons!Ask, Icons!Lookup, Icons!Show, Icons!Reply, Icons!Go
<1>3. answer' \in [Visitors -> Said]
  <2>1. "404" \in Said /\ "image" \in Said
    BY Zenon DEF Said
  <2>2. answer' = answer \/ \E x \in Said : answer' = [answer EXCEPT ![r] = x]
    BY <2>1 DEF Icons!Ask, Icons!Lookup, Icons!Show, Icons!Reply
  <2> QED
    BY <2>2 DEF IconTypes
<1>4. IconTypes'
  BY <1>1, <1>2, <1>3 DEF IconTypes
<1>5. visit'[r] = to /\ \A d \in Visitors \ {r} : visit'[d] = visit[d]
  BY <1>2 DEF IconTypes
<1>6. left[r] = {} /\ icon[r] = Icons!NotFound /\ seen[r] \in {site, Icons!Changed}
  BY <1>1 DEF LeftFits, SearchFits, SeenFits
<1> QED
  BY <1>1, <1>4, <1>5, <1>6, OthersSearch

\* The page is fetched: its candidates are all to be looked at.
LEMMA PageIcon ==
  ASSUME IconIInv, NEW r \in Visitors, Icons!FetchPage(r)
  PROVE  IconIInv'
<1> USE DEF IconIInv
<1>1. /\ UNCHANGED <<site, changes, faults, row, answer>>
      /\ visit[r] = "page" /\ seen' = [seen EXCEPT ![r] = site]
      /\ left[r] = {} /\ icon[r] = Icons!NotFound /\ site \in SitesMet
  BY DEF Icons!FetchPage, Icons!world, LeftFits, SearchFits, IconTypes
<1>2. seen'[r] = site /\ DOMAIN seen' = Visitors /\ \A d \in Visitors \ {r} : seen'[d] = seen[d]
  BY <1>1 DEF IconTypes
<1>3. CASE Icons!Inline(site)
  <2>1. /\ icon' = [icon EXCEPT ![r] = [from |-> "inline", is |-> "image"]]
        /\ visit' = [visit EXCEPT ![r] = "store"] /\ left' = left
    BY <1>3 DEF Icons!FetchPage, Icons!Go
  <2>2. IconTypes'
    BY <1>1, <1>2, <2>1 DEF IconTypes, Finds
  <2>3. icon'[r] = [from |-> "inline", is |-> "image"] /\ visit'[r] = "store"
        /\ \A d \in Visitors \ {r} : icon'[d] = icon[d] /\ visit'[d] = visit[d]
    BY <2>1 DEF IconTypes
  <2>4. Icons!IsIcon(icon'[r], site)
    BY <1>3, <2>3 DEF Icons!IsIcon
  <2> QED
    BY <1>1, <1>2, <2>1, <2>2, <2>3, <2>4, OthersSearch
<1>4. CASE ~Icons!Inline(site)
  <2> DEFINE q == Icons!Candidates(site)
  <2>1. /\ left' = [left EXCEPT ![r] = q] /\ visit' = [visit EXCEPT ![r] = "icons"]
        /\ icon' = icon
    BY <1>4 DEF Icons!FetchPage, Icons!Go
  <2>2. q \in SUBSET (Nat \X Icons!Resources) /\ q # {} /\ Searched(q, site)
    BY <1>1, <1>4, CandidatesFit DEF Searched
  <2> HIDE DEF q
  <2>3. IconTypes'
    BY <1>1, <1>2, <2>1, <2>2 DEF IconTypes
  <2>4. left'[r] = q /\ visit'[r] = "icons"
        /\ \A d \in Visitors \ {r} : left'[d] = left[d] /\ visit'[d] = visit[d]
    BY <2>1 DEF IconTypes
  <2> QED
    BY <1>1, <1>2, <2>1, <2>2, <2>3, <2>4, OthersSearch
<1> QED
  BY <1>3, <1>4

\* A candidate is fetched.
LEMMA FetchIconKeeps ==
  ASSUME IconIInv, NEW r \in Visitors, Icons!FetchIcon(r)
  PROVE  IconIInv'
<1> USE DEF IconIInv
<1> DEFINE q == left[r]
<1>1. /\ UNCHANGED <<site, changes, faults, row, seen, answer>> /\ visit[r] = "icons"
      /\ icon[r] = Icons!NotFound /\ seen[r] \in {site, Icons!Changed} /\ site \in SitesMet
      /\ seen[r] # Icons!Changed => Searched(q, site)
  BY DEF Icons!FetchIcon, Icons!world, SearchFits, SeenFits, IconTypes
<1>2. PICK c \in q : (\A d \in q : c[1] <= d[1]) /\ Icons!Try(r, c)
  BY DEF Icons!FetchIcon
<1>3. q \in SUBSET (Nat \X Icons!Resources) /\ c[2] \in Icons!Resources
  BY <1>2 DEF IconTypes
<1> DEFINE response == site.has[c[2]]
<1>4. CASE Icons!Accepted(response)
  <2> DEFINE f == [from |-> c[2], is |-> response]
  <2>1. /\ icon' = [icon EXCEPT ![r] = f] /\ left' = [left EXCEPT ![r] = {}]
        /\ visit' = [visit EXCEPT ![r] = "store"]
    BY <1>2, <1>4 DEF Icons!Try, Icons!Go
  <2>2. seen[r] # Icons!Changed => Icons!IsIcon(f, site)
    <3>1. SUFFICES ASSUME seen[r] # Icons!Changed
                   PROVE  Icons!IsIcon(f, site)
      OBVIOUS
    <3>2. Searched(q, site)
      BY <1>1, <3>1
    <3> QED
      BY <1>1, <1>2, <1>4, <3>2, FirstIsIcon
  <2>3. f \in Finds
    BY <1>3, <1>4 DEF Icons!Accepted, Finds
  <2> HIDE DEF f, q
  <2>4. IconTypes'
    BY <1>1, <2>1, <2>3 DEF IconTypes
  <2>5. icon'[r] = f /\ visit'[r] = "store" /\ left'[r] = {}
        /\ \A d \in Visitors \ {r} :
             icon'[d] = icon[d] /\ visit'[d] = visit[d] /\ left'[d] = left[d]
    BY <2>1 DEF IconTypes
  <2> QED
    BY <1>1, <2>2, <2>4, <2>5, OthersSearch
<1>5. CASE ~Icons!Accepted(response)
  <2>1. /\ icon' = icon /\ left' = [left EXCEPT ![r] = q \ {c}]
        /\ visit' = IF q = {c} THEN [visit EXCEPT ![r] = "store"] ELSE visit
    BY <1>2, <1>5 DEF Icons!Try, Icons!Go
  <2>2. Searched(q, site) => Searched(q \ {c}, site)
    BY <1>5 DEF Searched
  <2>3. (q \ {c} = {}) <=> q = {c}
    BY <1>2
  <2>4. Searched({}, site) => Icons!IsIcon(Icons!NotFound, site)
    BY <1>1, NoneIsNotFound
  <2>5. q \ {c} \in SUBSET (Nat \X Icons!Resources)
    BY <1>3
  <2> HIDE DEF q
  <2>6. IconTypes'
    BY <1>1, <2>1, <2>5 DEF IconTypes
  <2>7. /\ left'[r] = q \ {c} /\ visit'[r] = IF q = {c} THEN "store" ELSE "icons"
        /\ icon'[r] = Icons!NotFound /\ seen'[r] = seen[r]
        /\ \A d \in Visitors \ {r} : /\ visit'[d] = visit[d] /\ left'[d] = left[d]
                                     /\ icon'[d] = icon[d] /\ seen'[d] = seen[d]
    BY <1>1, <2>1 DEF IconTypes
  <2>8. CASE q = {c}
    <3>1. left'[r] = {} /\ visit'[r] = "store"
      BY <2>3, <2>7, <2>8
    <3>2. seen'[r] # Icons!Changed => Icons!IsIcon(icon'[r], site)
      BY <1>1, <2>2, <2>4, <2>7, <3>1
    <3> QED
      BY <1>1, <2>6, <2>7, <3>1, <3>2, OthersSearch
  <2>9. CASE q # {c}
    <3>1. left'[r] # {} /\ visit'[r] = "icons"
      BY <2>3, <2>7, <2>9
    <3>2. seen'[r] # Icons!Changed => Searched(left'[r], site)
      BY <1>1, <2>2, <2>7
    <3> QED
      BY <1>1, <2>6, <2>7, <3>1, <3>2, OthersSearch
  <2> QED
    BY <2>8, <2>9
<1> QED
  BY <1>4, <1>5

\* A fetch is over.
LEMMA OverIcon ==
  ASSUME IconIInv, NEW r \in Visitors,
         Icons!Store(r) \/ Icons!Fault(r) \/ Icons!Leave(r)
  PROVE  IconIInv'
<1> USE DEF IconIInv
<1>1. /\ site' = site /\ changes' = changes
      /\ visit' = [visit EXCEPT ![r] = "idle"] /\ icon' = [icon EXCEPT ![r] = Icons!NotFound]
      /\ seen' = [seen EXCEPT ![r] = Icons!Changed]
  BY DEF Icons!Store, Icons!Fault, Icons!Leave, Icons!Reset, Icons!Show, Icons!Reply, Icons!Go,
         Icons!world
<1>2. left' \in {left, [left EXCEPT ![r] = {}]} /\ (left' = left => left[r] = {})
  <2>1. CASE Icons!Store(r)
    BY <2>1 DEF Icons!Store, LeftFits
  <2>2. CASE Icons!Fault(r)
    BY <2>2 DEF Icons!Fault, Icons!Reset, LeftFits
  <2>3. CASE Icons!Leave(r)
    <3>1. left' = [left EXCEPT ![r] = {}]
      BY <2>3 DEF Icons!Leave, Icons!Reset
    <3> QED
      BY <3>1 DEF IconTypes
  <2> QED
    BY <2>1, <2>2, <2>3
<1>3. /\ faults' \in 0..1 /\ row' \in [found : Finds, age : 0..4]
      /\ answer' \in [Visitors -> Said]
  <2>0. "404" \in Said /\ "500" \in Said /\ "image" \in Said
    BY Zenon DEF Said
  <2>1. CASE Icons!Store(r)
    <3>1. row' = [found |-> icon[r], age |-> 0] /\ faults' = faults /\ icon[r] \in Finds
      BY <2>1 DEF Icons!Store, Icons!world, IconTypes
    <3>2. \E x \in Said : answer' = [answer EXCEPT ![r] = x]
      BY <2>0, <2>1 DEF Icons!Store, Icons!Show, Icons!Reply
    <3> QED
      BY <3>1, <3>2 DEF IconTypes
  <2>2. CASE Icons!Fault(r)
    BY <2>0, <2>2 DEF Icons!Fault, Icons!Reply, IconTypes
  <2>3. CASE Icons!Leave(r)
    BY <2>3 DEF Icons!Leave, IconTypes
  <2> QED
    BY <2>1, <2>2, <2>3
<1>4. /\ visit'[r] = "idle" /\ icon'[r] = Icons!NotFound /\ seen'[r] = Icons!Changed
      /\ left'[r] = {}
      /\ \A d \in Visitors \ {r} : /\ visit'[d] = visit[d] /\ left'[d] = left[d]
                                   /\ icon'[d] = icon[d] /\ seen'[d] = seen[d]
  BY <1>1, <1>2 DEF IconTypes
<1>5. IconTypes'
  <2>1. left' \in [Visitors -> SUBSET (Nat \X Icons!Resources)]
    BY <1>2 DEF IconTypes
  <2> QED
    BY <1>1, <1>3, <2>1, NotFoundShape DEF IconTypes
<1> QED
  BY <1>1, <1>4, <1>5, OthersSearch

\* A change marks every fetch.
LEMMA ChangeIcon ==
  ASSUME IconIInv, Icons!Change
  PROVE  IconIInv'
<1> USE DEF IconIInv
<1>1. /\ changes < IconChanges /\ changes' = changes + 1 /\ site' \in SitesMet
      /\ seen' = [r \in Visitors |-> Icons!Changed]
      /\ UNCHANGED <<faults, row, visit, left, icon, answer>>
  BY DEF Icons!Change, SitesMet, Visitors
<1>2. IconTypes'
  BY <1>1, IconConstants DEF IconTypes
<1>3. LeftFits' /\ SeenFits'
  BY <1>1 DEF LeftFits, SeenFits
<1>4. SearchFits'
  BY <1>1 DEF SearchFits
<1> QED
  BY <1>2, <1>3, <1>4

\* Rows grow old.
LEMMA TickIcon ==
  ASSUME IconIInv, Icons!Tick
  PROVE  IconIInv'
<1> USE DEF IconIInv
<1>1. /\ row' = [row EXCEPT !.age = Icons!Older(row.age)]
      /\ UNCHANGED <<site, changes, faults, visit, left, icon, seen, answer>>
  BY DEF Icons!Tick, Icons!world, Icons!fetch
<1>2. Icons!Older(row.age) \in 0..4
  BY IconOld DEF Icons!Older, IconTypes
<1>3. IconTypes'
  BY <1>1, <1>2 DEF IconTypes
<1> QED
  BY <1>1, <1>3 DEF LeftFits, SeenFits, SearchFits

\* The invariant is inductive.
LEMMA NextIcons == IconIInv /\ Icons!Next => IconIInv'
BY AskIcon, PageIcon, FetchIconKeeps, OverIcon, ChangeIcon, TickIcon DEF Icons!Next, Visitors

\* A step of another part leaves it alone.
LEMMA StillIcons == IconIInv /\ UNCHANGED iconVars => IconIInv'
<1> SUFFICES ASSUME IconIInv, UNCHANGED iconVars
             PROVE  IconIInv'
  OBVIOUS
<1>1. UNCHANGED <<site, changes, faults, row, visit, left, icon, seen, answer>>
  BY DEF iconVars
<1>2. IconTypes' /\ LeftFits' /\ SeenFits'
  BY <1>1 DEF IconIInv, IconTypes, LeftFits, SeenFits
<1>3. SearchFits'
  BY <1>1 DEF IconIInv, SearchFits, Searched, Icons!IsIcon, Icons!HasIcon
<1> QED
  BY <1>2, <1>3 DEF IconIInv

\* What the runs check of it.
LEMMA IconsAreFound == IconIInv => Icons!TypeOK /\ Icons!FetchFindsIcon
<1> SUFFICES ASSUME IconIInv
             PROVE  Icons!TypeOK /\ Icons!FetchFindsIcon
  OBVIOUS
<1>1. Icons!TypeOK
  <2>1. /\ site \in SitesMet /\ changes \in 0..IconChanges /\ faults \in 0..1
        /\ row.age \in 0..Icons!Old
    BY IconOld DEF IconIInv, IconTypes
  <2>2. \A r \in Visitors :
          /\ visit[r] \in {"idle", "lookup", "page", "icons", "store"}
          /\ (left[r] = {}) = (visit[r] # "icons")
          /\ answer[r] \in Said
    BY DEF IconIInv, IconTypes, LeftFits
  <2> QED
    BY Zenon, <2>1, <2>2 DEF Icons!TypeOK, Visitors, SitesMet, Said
<1>2. Icons!FetchFindsIcon
  BY DEF IconIInv, SeenFits, SearchFits, Icons!FetchFindsIcon, Visitors
<1> QED
  BY <1>1, <1>2

-----------------------------------------------------------------------------
(* What a request for a screenshot is let through for *)

\* Powers of two, as they are defined.
LEMMA Powers ==
  /\ Gate!Power[0] = 1
  /\ \A n \in Nat : Gate!Power[n] \in Nat \ {0} /\ Gate!Power[n + 1] = 2 * Gate!Power[n]
<1> DEFINE double == [p \in Nat \X Nat |-> 2 * p[2]]
<1>1. double \in [Nat \X Nat -> Nat]
  OBVIOUS
<1> HIDE DEF double
<1>2. PICK f : Follows(f, Nat, 1, double)
  BY <1>1, Recursion
<1>3. f[0] = 1 /\ f \in [Nat -> Nat] /\ \A n \in Nat : f[n + 1] = 2 * f[n]
  BY <1>2 DEF Follows, double
<1>4. f = [n \in Nat |-> IF n = 0 THEN 1 ELSE 2 * f[n - 1]]
  <2>1. \A n \in Nat : f[n] = IF n = 0 THEN 1 ELSE 2 * f[n - 1]
    <3> SUFFICES ASSUME NEW n \in Nat, n # 0
                 PROVE  f[n] = 2 * f[n - 1]
      BY <1>3
    <3>1. n - 1 \in Nat /\ (n - 1) + 1 = n
      OBVIOUS
    <3> QED
      BY <1>3, <3>1
  <2> QED
    BY <1>3, <2>1
<1>5. Gate!Power = [n \in Nat |-> IF n = 0 THEN 1 ELSE 2 * Gate!Power[n - 1]]
  <2> DEFINE P(g) == g = [n \in Nat |-> IF n = 0 THEN 1 ELSE 2 * g[n - 1]]
  <2>1. \E g : P(g)
    BY <1>4
  <2>2. Gate!Power = CHOOSE g : P(g)
    BY DEF Gate!Power
  <2> HIDE DEF P
  <2>3. P(Gate!Power)
    BY <2>1, <2>2, Zenon
  <2> QED
    BY <2>3 DEF P
<1> DEFINE S == {n \in Nat : Gate!Power[n] \in Nat \ {0}}
<1>6. Gate!Power[0] = 1 /\ \A n \in Nat : Gate!Power[n + 1] = 2 * Gate!Power[n]
  <2>1. \A n \in Nat : n + 1 \in Nat /\ n + 1 # 0 /\ (n + 1) - 1 = n
    OBVIOUS
  <2> QED
    BY <1>5, <2>1
<1>7. 0 \in S /\ \A n \in Nat : n \in S => n + 1 \in S
  BY <1>6
<1> HIDE DEF S
<1>8. \A n \in Nat : n \in S
  BY <1>7, Induction
<1> QED
  BY <1>6, <1>8 DEF S

LEMMA PowersMultiply ==
  ASSUME NEW m \in Nat, NEW n \in Nat
  PROVE  Gate!Power[m + n] = Gate!Power[m] * Gate!Power[n]
<1> DEFINE S == {k \in Nat : Gate!Power[m + k] = Gate!Power[m] * Gate!Power[k]}
<1>1. 0 \in S
  BY Powers
<1>2. ASSUME NEW k \in Nat, k \in S
      PROVE  k + 1 \in S
  <2>1. /\ Gate!Power[k + 1] = 2 * Gate!Power[k] /\ Gate!Power[k] \in Nat
        /\ Gate!Power[(m + k) + 1] = 2 * Gate!Power[m + k] /\ Gate!Power[m] \in Nat
    BY Powers
  <2>2. m + (k + 1) = (m + k) + 1
    OBVIOUS
  <2>3. \A a, b \in Nat : 2 * (a * b) = a * (2 * b)
    OBVIOUS
  <2> QED
    BY <1>2, <2>1, <2>2, <2>3
<1> HIDE DEF S
<1>3. n \in S
  BY <1>1, <1>2, Induction
<1> QED
  BY <1>3 DEF S

\* A byte that is not zero ends with fewer zero bits than it has bits.
LEMMA ZerosOfByte ==
  ASSUME NEW w \in Nat \ {0}, NEW b \in 1..(Gate!Power[w] - 1)
  PROVE  \E n \in 0..(w - 1) : b % Gate!Power[n] = 0 /\ (b \div Gate!Power[n]) % 2 = 1
<1>1. b \in Nat \ {0} /\ Gate!Power[w] \in Nat \ {0} /\ b < Gate!Power[w]
  BY Powers
<1> DEFINE S == {n \in Nat : b % Gate!Power[n + 1] # 0}
<1>2. w - 1 \in S
  <2>1. (w - 1) + 1 = w /\ w - 1 \in Nat
    OBVIOUS
  <2>2. b % Gate!Power[w] = b
    BY <1>1
  <2> QED
    BY <1>1, <2>1, <2>2
<1>3. PICK n \in S : \A k \in S : n <= k
  <2> HIDE DEF S
  <2>1. S \in SUBSET Nat
    BY DEF S
  <2> QED
    BY <1>2, <2>1, LeastNumber
<1>4. n \in 0..(w - 1) /\ n \in Nat
  BY <1>2, <1>3
<1>5. b % Gate!Power[n] = 0
  <2>1. CASE n = 0
    BY <1>1, <2>1, Powers
  <2>2. CASE n # 0
    <3>1. n - 1 \in Nat /\ n - 1 \notin S /\ (n - 1) + 1 = n
      BY <1>3, <1>4, <2>2
    <3> QED
      BY <3>1
  <2> QED
    BY <2>1, <2>2
<1>6. (b \div Gate!Power[n]) % 2 = 1
  <2> DEFINE p == Gate!Power[n]
             q == b \div p
  <2>1. p \in Nat \ {0} /\ Gate!Power[n + 1] = 2 * p
    BY <1>4, Powers
  <2>2. q \in Nat /\ b = q * p
    BY <1>1, <1>5, <2>1
  <2>3. q % 2 = 0 => b % (2 * p) = 0
    <3> HIDE DEF q, p
    <3> SUFFICES ASSUME q % 2 = 0
                 PROVE  b % (2 * p) = 0
      OBVIOUS
    <3>1. q = (q \div 2) * 2 /\ q \div 2 \in Nat
      BY <2>2
    <3>2. b = (q \div 2) * (2 * p)
      BY <2>1, <2>2, <3>1
    <3>3. 2 * p \in Nat \ {0}
      BY <2>1
    <3>4. \A k \in Nat, m \in Nat \ {0} : (k * m) % m = 0
      OBVIOUS
    <3>5. \A k \in Nat, m \in Nat \ {0} : b = k * m => b % m = 0
      BY <3>4
    <3> QED
      BY <3>1, <3>2, <3>3, <3>5
  <2>4. q % 2 \in {0, 1}
    BY <2>2
  <2> QED
    BY <1>3, <2>1, <2>3, <2>4
<1> QED
  BY <1>4, <1>5, <1>6

LEMMA OddMultiple ==
  ASSUME NEW o \in Nat, o % 2 = 1, NEW p \in Nat \ {0}
  PROVE  (o * p) % p = 0 /\ o * p # 0 /\ (o * p) % (2 * p) # 0
<1>1. \A k \in Nat, m \in Nat \ {0} : (k * m) % m = 0
  OBVIOUS
<1>2. \A k \in Nat, m \in Nat \ {0} : \A r \in 0..(m - 1) : (k * m + r) % m = r
  OBVIOUS
<1>3. PICK k \in Nat : o = 2 * k + 1
  <2>1. o = 2 * (o \div 2) + 1 /\ o \div 2 \in Nat
    OBVIOUS
  <2> QED
    BY <2>1
<1>4. o * p = k * (2 * p) + p
  BY <1>3
<1>5. 2 * p \in Nat \ {0} /\ p \in 0..(2 * p - 1)
  OBVIOUS
<1>6. (k * (2 * p) + p) % (2 * p) = p
  <2> DEFINE m == 2 * p
  <2>1. m \in Nat \ {0} /\ p \in 0..(m - 1)
    BY <1>5
  <2> HIDE DEF m
  <2>2. (k * m + p) % m = p
    BY <1>2, <2>1
  <2> QED
    BY <2>2 DEF m
<1>7. o * p # 0
  <2>1. k * (2 * p) \in Nat
    OBVIOUS
  <2> QED
    BY <1>4, <2>1
<1> QED
  BY <1>1, <1>4, <1>6, <1>7

\* The number a digest is, from its first bytes on.
Digits(v) ==
  /\ v \in [0..GateBytes -> Nat] /\ v[0] = 0
  /\ \A n \in 1..GateBytes : v[n] = v[n - 1] * Gate!Power[GateBits] + digest[n]

LEMMA DigitsMakeNumber ==
  ASSUME Gate!GateAssumption, digest \in [1..GateBytes -> Nat]
  PROVE  \E v : Digits(v) /\ Gate!Number = v[GateBytes]
<1> DEFINE B == Gate!Power[GateBits]
           step == [p \in Nat \X Nat |-> p[2] * B + (IF p[1] + 1 \in 1..GateBytes THEN digest[p[1] + 1] ELSE 0)]
<1>1. GateBytes \in Nat \ {0} /\ GateBits \in Nat /\ B \in Nat
  BY Powers DEF Gate!GateAssumption
<1> HIDE DEF B
<1>2. step \in [Nat \X Nat -> Nat]
  <2> SUFFICES ASSUME NEW p \in Nat \X Nat
               PROVE  p[2] * B + (IF p[1] + 1 \in 1..GateBytes THEN digest[p[1] + 1] ELSE 0) \in Nat
    OBVIOUS
  <2>1. p[2] \in Nat /\ p[2] * B \in Nat
    BY <1>1
  <2> QED
    BY <2>1
<1> HIDE DEF step
<1>3. PICK f : Follows(f, Nat, 0, step)
  BY <1>2, Recursion
<1>4. /\ f \in [Nat -> Nat] /\ f[0] = 0
      /\ \A n \in Nat : n + 1 \in 1..GateBytes => f[n + 1] = f[n] * B + digest[n + 1]
  BY <1>3 DEF Follows, step
<1> DEFINE P(v) == v = [n \in 0..GateBytes |-> IF n = 0 THEN 0 ELSE v[n - 1] * B + digest[n]]
           g == [n \in 0..GateBytes |-> f[n]]
<1>5. P(g)
  <2>1. ASSUME NEW n \in 0..GateBytes, n # 0
        PROVE  g[n] = g[n - 1] * B + digest[n]
    <3>1. n - 1 \in Nat /\ (n - 1) + 1 = n /\ n - 1 \in 0..GateBytes /\ n \in 1..GateBytes
      BY <1>1, <2>1
    <3> QED
      BY <1>4, <3>1
  <2>2. 0 \in 0..GateBytes /\ g[0] = 0
    BY <1>1, <1>4
  <2>3. \A n \in 0..GateBytes : g[n] = IF n = 0 THEN 0 ELSE g[n - 1] * B + digest[n]
    BY <2>1, <2>2
  <2> HIDE DEF g
  <2>4. g = [n \in 0..GateBytes |-> g[n]]
    BY DEF g
  <2> QED
    BY <2>3, <2>4
<1> DEFINE v == CHOOSE x : P(x)
<1>6. P(v)
  <2> HIDE DEF P, g
  <2> QED
    BY <1>5, Zenon
<1>7. Gate!Number = v[GateBytes]
  BY DEF Gate!Number, B
<1> HIDE DEF v
<1>8. \A n \in 0..GateBytes : v[n] = IF n = 0 THEN 0 ELSE v[n - 1] * B + digest[n]
  BY <1>6
<1> HIDE DEF P
<1> DEFINE S == {n \in Nat : n <= GateBytes => v[n] \in Nat}
<1>9. 0 \in S
  BY <1>1, <1>8
<1>10. ASSUME NEW n \in Nat, n \in S
       PROVE  n + 1 \in S
  <2> SUFFICES ASSUME n + 1 <= GateBytes
               PROVE  v[n + 1] \in Nat
    OBVIOUS
  <2>1. n + 1 \in 0..GateBytes /\ n + 1 # 0 /\ (n + 1) - 1 = n /\ n + 1 \in 1..GateBytes
    BY <1>1
  <2>2. v[n + 1] = v[n] * B + digest[n + 1] /\ v[n] \in Nat
    BY <1>1, <1>8, <1>10, <2>1
  <2>3. v[n] * B \in Nat /\ digest[n + 1] \in Nat
    BY <1>1, <2>1, <2>2
  <2> QED
    BY <2>2, <2>3
<1>11. \A n \in 0..GateBytes : v[n] \in Nat
  <2> HIDE DEF S
  <2>1. \A n \in Nat : n \in S
    BY <1>9, <1>10, Induction
  <2> QED
    BY <1>1, <2>1 DEF S
<1>12. Digits(v)
  <2>1. v = [n \in 0..GateBytes |-> v[n]]
    BY <1>6 DEF P
  <2>2. v \in [0..GateBytes -> Nat]
    BY <1>11, <2>1
  <2>3. v[0] = 0
    <3>1. 0 \in 0..GateBytes
      BY <1>1
    <3> QED
      BY <1>8, <3>1
  <2>4. \A n \in 1..GateBytes : v[n] = v[n - 1] * B + digest[n]
    <3>1. \A n \in 1..GateBytes : n \in 0..GateBytes /\ n # 0
      BY <1>1
    <3> QED
      BY <1>8, <3>1
  <2> QED
    BY <2>2, <2>3, <2>4 DEF Digits, B
<1> QED
  BY <1>7, <1>12

\* Bytes that are zero at the end shift what is before them.
LEMMA ZerosShift ==
  ASSUME Gate!GateAssumption, digest \in [1..GateBytes -> Nat], NEW v, Digits(v),
         NEW k \in 0..GateBytes, \A i \in (k + 1)..GateBytes : digest[i] = 0
  PROVE  v[GateBytes] = v[k] * Gate!Power[GateBits * (GateBytes - k)]
<1> DEFINE D == GateBytes  W == GateBits
           S == {j \in Nat : k + j <= D => v[k + j] = v[k] * Gate!Power[W * j]}
<1>1. D \in Nat /\ W \in Nat /\ k \in Nat /\ k <= D /\ v[k] \in Nat
  BY DEF Gate!GateAssumption, Digits
<1>2. 0 \in S
  <2>1. W * 0 = 0 /\ k + 0 = k /\ v[k] * 1 = v[k]
    BY <1>1
  <2> QED
    BY <2>1, Powers
<1>3. ASSUME NEW j \in Nat, j \in S
      PROVE  j + 1 \in S
  <2> SUFFICES ASSUME k + (j + 1) <= D
               PROVE  v[k + (j + 1)] = v[k] * Gate!Power[W * (j + 1)]
    OBVIOUS
  <2>1. /\ k + (j + 1) \in 1..D /\ k + (j + 1) \in (k + 1)..D
        /\ (k + (j + 1)) - 1 = k + j /\ k + j <= D
    BY <1>1
  <2>2. v[k + (j + 1)] = v[k + j] * Gate!Power[W]
    <3>1. v[k + (j + 1)] = v[k + j] * Gate!Power[W] + digest[k + (j + 1)]
      BY <2>1 DEF Digits
    <3>2. digest[k + (j + 1)] = 0
      BY <2>1
    <3>4. k + j \in 0..D
      BY <1>1, <2>1
    <3>5. v[k + j] \in Nat /\ Gate!Power[W] \in Nat
      BY <1>1, <3>4, Powers DEF Digits
    <3>3. v[k + j] * Gate!Power[W] \in Nat
      BY <3>5
    <3> QED
      BY <3>1, <3>2, <3>3
  <2>3. v[k + j] = v[k] * Gate!Power[W * j]
    BY <1>3, <2>1
  <2>4. Gate!Power[W * (j + 1)] = Gate!Power[W * j] * Gate!Power[W]
    <3>1. W * (j + 1) = W * j + W /\ W * j \in Nat
      BY <1>1
    <3> QED
      BY <1>1, <3>1, PowersMultiply
  <2>5. \A a, b, c \in Nat : (a * b) * c = a * (b * c)
    OBVIOUS
  <2>6. Gate!Power[W * j] \in Nat /\ Gate!Power[W] \in Nat
    <3>1. W * j \in Nat
      BY <1>1
    <3> QED
      BY <1>1, <3>1, Powers
  <2> QED
    BY <1>1, <2>2, <2>3, <2>4, <2>5, <2>6
<1> HIDE DEF S
<1>4. \A j \in Nat : j \in S
  BY <1>2, <1>3, Induction
<1>5. D - k \in Nat /\ k + (D - k) = D
  BY <1>1
<1> QED
  BY <1>4, <1>5 DEF S

\* So many zero bits does the digest end with.
Exact(b) ==
  /\ b \in 0..(GateBits * GateBytes)
  /\ Gate!Number % Gate!Power[b] = 0
  /\ Gate!Number = 0 => b = GateBits * GateBytes
  /\ Gate!Number # 0 => Gate!Number % Gate!Power[b + 1] # 0

LEMMA BytesAreNumbers ==
  Gate!GateAssumption => Gate!Bytes \subseteq Nat /\ [1..GateBytes -> Gate!Bytes] \subseteq [1..GateBytes -> Nat]
<1> SUFFICES ASSUME Gate!GateAssumption
             PROVE  Gate!Bytes \subseteq Nat /\ [1..GateBytes -> Gate!Bytes] \subseteq [1..GateBytes -> Nat]
  OBVIOUS
<1>1. Gate!Power[GateBits] \in Nat
  BY Powers DEF Gate!GateAssumption
<1> QED
  BY <1>1 DEF Gate!Bytes

\* The zero bits of the last byte that is not zero, and of those behind it.
LEMMA LastByteCounts ==
  ASSUME Gate!GateAssumption, digest \in [1..GateBytes -> Gate!Bytes],
         NEW k \in 1..GateBytes, \A i \in (k + 1)..GateBytes : digest[i] = 0, digest[k] # 0
  PROVE  Exact(GateBits * (GateBytes - k) + Gate!TrailingZeros(digest[k]))
<1> DEFINE D == GateBytes  W == GateBits  d == digest[k]
           t == Gate!TrailingZeros(d)  z == W * (D - k)
<1>1. /\ D \in Nat /\ W \in Nat \ {0} /\ k \in Nat \ {0} /\ k <= D
      /\ D - k \in Nat /\ k \in 0..D /\ k - 1 \in 0..D
  BY DEF Gate!GateAssumption
<1>2. digest \in [1..D -> Nat] /\ d \in Nat \ {0} /\ d \in 1..(Gate!Power[W] - 1)
  <2>1. d \in Gate!Bytes /\ Gate!Power[W] \in Nat
    BY <1>1, Powers
  <2> QED
    BY <2>1, BytesAreNumbers DEF Gate!Bytes
<1>3. t \in 0..(W - 1) /\ d % Gate!Power[t] = 0 /\ (d \div Gate!Power[t]) % 2 = 1
  <2> HIDE DEF d
  <2>1. \E n \in 0..(W - 1) : d % Gate!Power[n] = 0 /\ (d \div Gate!Power[n]) % 2 = 1
    BY <1>1, <1>2, ZerosOfByte
  <2> QED
    BY <2>1, Zenon DEF Gate!TrailingZeros
<1>4. PICK v : Digits(v) /\ Gate!Number = v[D]
  BY <1>2, DigitsMakeNumber
<1>5. v[D] = v[k] * Gate!Power[z]
  BY <1>1, <1>2, <1>4, ZerosShift
<1>6. v[k] = v[k - 1] * Gate!Power[W] + d /\ v[k - 1] \in Nat
  BY <1>1, <1>4 DEF Digits
<1> DEFINE p == Gate!Power[t]  q == d \div p  r == Gate!Power[(W - t) - 1]  x == v[k - 1]
<1>7. t \in Nat /\ z \in Nat /\ (W - t) - 1 \in Nat
  <2>1. z \in Nat
    BY <1>1
  <2> QED
    BY <1>1, <1>3, <2>1
<1>8. /\ p \in Nat \ {0} /\ r \in Nat /\ Gate!Power[z] \in Nat \ {0}
  BY <1>7, Powers
<1>9. Gate!Power[W] = p * (2 * r)
  <2>1. /\ t + (((W - t) - 1) + 1) = W /\ ((W - t) - 1) + 1 \in Nat
    BY <1>1, <1>7
  <2>2. Gate!Power[t + (((W - t) - 1) + 1)] = p * Gate!Power[((W - t) - 1) + 1]
    <3> HIDE DEF t, z
    <3> QED
      BY <1>7, <2>1, PowersMultiply
  <2>3. Gate!Power[((W - t) - 1) + 1] = 2 * r
    BY <1>7, Powers
  <2> QED
    BY <2>1, <2>2, <2>3
<1>10. d = q * p /\ q \in Nat /\ q % 2 = 1
  <2>1. \A a \in Nat, b \in Nat \ {0} : a % b = 0 => a = (a \div b) * b /\ a \div b \in Nat
    OBVIOUS
  <2>2. d \in Nat /\ p \in Nat \ {0} /\ d % p = 0
    BY <1>2, <1>3, <1>8
  <2>3. d = q * p /\ q \in Nat
    <3> HIDE DEF d, p
    <3> QED
      BY <2>1, <2>2
  <2> QED
    BY <1>3, <2>3
<1> DEFINE o == x * (2 * r) + q
<1>11. o \in Nat /\ o % 2 = 1
  <2> HIDE DEF x, r, q
  <2>1. x * r \in Nat /\ x * (2 * r) = 2 * (x * r)
    BY <1>6, <1>8 DEF x
  <2>2. \A m, n \in Nat : (2 * m + n) % 2 = n % 2
    OBVIOUS
  <2> QED
    BY <1>10, <2>1, <2>2
<1>12. v[D] = o * (p * Gate!Power[z])
  <2>1. \A a, b, c, e, f \in Nat : ((a * (b * c)) + e * b) * f = (a * c + e) * (b * f)
    OBVIOUS
  <2>2. v[k] = x * (p * (2 * r)) + q * p
    BY <1>6, <1>9, <1>10
  <2>3. x \in Nat /\ 2 * r \in Nat
    BY <1>6, <1>8
  <2> HIDE DEF x, p, q, r, d, t, z
  <2> QED
    BY <1>5, <1>8, <1>10, <2>1, <2>2, <2>3
<1>13. Gate!Power[z + t] = p * Gate!Power[z] /\ z + t \in Nat
  <2>1. z + t = t + z /\ z + t \in Nat
    BY <1>7
  <2> HIDE DEF z, t
  <2> QED
    BY <1>7, <2>1, PowersMultiply DEF p
<1>14. Gate!Power[(z + t) + 1] = 2 * Gate!Power[z + t] /\ Gate!Power[z + t] \in Nat \ {0}
  <2> HIDE DEF z, t
  <2> QED
    BY <1>13, Powers
<1>15. /\ v[D] % Gate!Power[z + t] = 0 /\ v[D] # 0
       /\ v[D] % Gate!Power[(z + t) + 1] # 0
  <2> HIDE DEF o, z, t, p
  <2> DEFINE e == Gate!Power[z + t]
  <2>1. v[D] = o * e
    BY <1>12, <1>13
  <2>2. e \in Nat \ {0} /\ Gate!Power[(z + t) + 1] = 2 * e
    BY <1>14
  <2> HIDE DEF e
  <2>3. (o * e) % e = 0 /\ o * e # 0 /\ (o * e) % (2 * e) # 0
    BY <1>11, <2>2, OddMultiple
  <2> QED
    BY <2>1, <2>2, <2>3 DEF e
<1>16. z + t \in 0..(W * D)
  <2>1. W * D = z + W * k /\ W * k = W * (k - 1) + W /\ W * (k - 1) \in Nat
    BY <1>1
  <2> HIDE DEF z, t
  <2> QED
    BY <1>1, <1>3, <1>7, <2>1
<1> QED
  BY <1>4, <1>15, <1>16 DEF Exact

\* A digest of zeros has them all.
LEMMA ZeroCounts ==
  ASSUME Gate!GateAssumption, digest \in [1..GateBytes -> Gate!Bytes],
         \A i \in 1..GateBytes : digest[i] = 0
  PROVE  Exact(GateBits * GateBytes)
<1>1. GateBits \in Nat /\ GateBytes \in Nat /\ GateBits * GateBytes \in Nat
  <2>1. GateBits \in Nat /\ GateBytes \in Nat
    BY DEF Gate!GateAssumption
  <2> QED
    BY <2>1
<1>2. digest \in [1..GateBytes -> Nat]
  BY BytesAreNumbers
<1>3. PICK v : Digits(v) /\ Gate!Number = v[GateBytes]
  BY <1>2, DigitsMakeNumber
<1>4. 0 \in 0..GateBytes /\ \A i \in (0 + 1)..GateBytes : digest[i] = 0
  BY <1>1
<1>5. v[GateBytes] = v[0] * Gate!Power[GateBits * (GateBytes - 0)]
  BY <1>2, <1>3, <1>4, ZerosShift
<1>6. v[0] = 0 /\ GateBytes - 0 = GateBytes
  BY <1>1, <1>3 DEF Digits
<1>7. Gate!Power[GateBits * GateBytes] \in Nat \ {0}
  BY <1>1, Powers
<1>8. Gate!Number = 0
  BY <1>3, <1>5, <1>6, <1>7
<1> QED
  BY <1>1, <1>7, <1>8 DEF Exact

GateTypes ==
  /\ token \in Gate!Tokens /\ digest \in [1..GateBytes -> Gate!Bytes]
  /\ spec \in Gate!Specs \cup {Gate!Plain}
  /\ gate \in {"token", "level", "spec", "url", "answered"}
  /\ next \in 0..GateBytes /\ bits \in Nat

\* The bytes that were looked at are zeros and counted, or the count is over.
CountFits ==
  /\ next > 0 => /\ bits = GateBits * (GateBytes - next)
                 /\ \A i \in (next + 1)..GateBytes : digest[i] = 0
  /\ next = 0 => Exact(bits)

\* Only a good token that was paid for comes to the spec, and a valid spec to
\* its URL.
Paid == token = "good" /\ next = 0 /\ bits >= GateLevel
PathFits ==
  /\ gate \in {"spec", "url"} => Paid
  /\ resolved => gate = "answered" /\ Paid
  /\ gate = "url" => Gate!Valid(spec)
  /\ gate = "level" => token \in {"no spec", "good"}

GateIInv == GateTypes /\ CountFits /\ PathFits

LEMMA GateConstants ==
  /\ Gate!GateAssumption
  /\ GateBits \in Nat \ {0} /\ GateBytes \in Nat \ {0} /\ GateLevel \in Nat /\ GateDim \in Nat \ {0}
BY PartsAssumption DEF Gate!GateAssumption

LEMMA InitGate == Gate!Init => GateIInv
<1> SUFFICES ASSUME Gate!Init
             PROVE  GateIInv
  OBVIOUS
<1>1. GateBits * (GateBytes - GateBytes) = 0 /\ GateBytes > 0 /\ GateBytes \in 0..GateBytes
  <2>1. GateBytes - GateBytes = 0 /\ GateBits * 0 = 0
    BY GateConstants
  <2> QED
    BY <2>1, GateConstants
<1>2. GateTypes
  <2>1. spec \in Gate!Specs \cup {Gate!Plain}
    BY DEF Gate!Init
  <2> QED
    BY <1>1, <2>1 DEF Gate!Init, GateTypes
<1>3. CountFits
  <2>1. (GateBytes + 1)..GateBytes = {}
    BY GateConstants
  <2> QED
    BY <1>1, <2>1 DEF Gate!Init, CountFits
<1>4. PathFits
  BY DEF Gate!Init, PathFits
<1> QED
  BY <1>2, <1>3, <1>4 DEF GateIInv

\* What is counted stays so while the digest does.
LEMMA CountStays ==
  ASSUME CountFits, UNCHANGED <<digest, bits, next>>
  PROVE  CountFits'
BY DEF CountFits, Exact, Gate!Number

LEMMA TypesStay ==
  ASSUME GateTypes, UNCHANGED <<token, digest, spec, bits, next>>,
         gate' \in {"token", "level", "spec", "url", "answered"}
  PROVE  GateTypes'
BY DEF GateTypes

LEMMA CountGate == GateIInv /\ Gate!CountBits => GateIInv'
<1> SUFFICES ASSUME GateIInv, Gate!CountBits
             PROVE  GateIInv'
  OBVIOUS
<1> DEFINE D == GateBytes  W == GateBits  d == digest[next]
<1>1. /\ gate = "level" /\ next \in 1..D /\ bits \in Nat /\ bits = W * (D - next)
      /\ \A i \in (next + 1)..D : digest[i] = 0
      /\ digest \in [1..D -> Gate!Bytes] /\ D \in Nat \ {0} /\ W \in Nat \ {0}
  BY GateConstants DEF GateIInv, GateTypes, CountFits, Gate!CountBits
<1>2. digest' = digest /\ token' = token /\ spec' = spec /\ gate' = gate /\ resolved' = resolved
  BY DEF Gate!CountBits, Gate!input
<1>3. PathFits'
  BY <1>1, <1>2 DEF GateIInv, PathFits
<1>4. CASE d = 0
  <2>1. bits' = bits + W /\ next' = next - 1
    BY <1>4 DEF Gate!CountBits, Gate!LastByte
  <2>2. bits' = W * (D - next') /\ next' \in 0..D /\ bits' \in Nat
    <3>1. D - (next - 1) = (D - next) + 1 /\ D - next \in Nat
      BY <1>1
    <3>2. \A n \in Nat : W * (n + 1) = W * n + W
      BY <1>1
    <3> QED
      BY <1>1, <2>1, <3>1, <3>2
  <2>3. \A i \in (next' + 1)..D : digest[i] = 0
    <3>1. \A i \in (next' + 1)..D : i = next \/ i \in (next + 1)..D
      BY <1>1, <2>1
    <3> QED
      BY <1>1, <1>4, <3>1
  <2>4. next' = 0 => Exact(bits')
    <3> SUFFICES ASSUME next' = 0
                 PROVE  Exact(bits')
      OBVIOUS
    <3>1. \A i \in 1..D : digest[i] = 0
      BY <2>3
    <3>2. bits' = W * D
      BY <1>1, <2>2
    <3> QED
      BY <1>1, <3>1, <3>2, ZeroCounts, GateConstants
  <2>5. CountFits'
    BY <1>2, <2>2, <2>3, <2>4 DEF CountFits, Exact, Gate!Number
  <2>6. GateTypes'
    BY <1>2, <2>2 DEF GateIInv, GateTypes
  <2> QED
    BY <1>3, <2>5, <2>6 DEF GateIInv
<1>5. CASE d # 0
  <2>1. bits' = bits + Gate!TrailingZeros(d) /\ next' = 0
    BY <1>5 DEF Gate!CountBits, Gate!LastByte
  <2>2. Exact(bits')
    BY <1>1, <1>5, <2>1, LastByteCounts, GateConstants
  <2>3. CountFits'
    BY <1>2, <2>1, <2>2 DEF CountFits, Exact, Gate!Number
  <2>4. GateTypes'
    <3>1. bits' \in Nat /\ next' \in 0..D
      <4>1. bits' \in 0..(W * D)
        BY <2>2 DEF Exact
      <4> QED
        BY <1>1, <2>1, <4>1
    <3> QED
      BY <1>2, <3>1 DEF GateIInv, GateTypes
  <2> QED
    BY <1>3, <2>3, <2>4 DEF GateIInv
<1> QED
  BY <1>4, <1>5

LEMMA NextGate == GateIInv /\ Gate!Next => GateIInv'
<1> SUFFICES ASSUME GateIInv, Gate!Next
             PROVE  GateIInv'
  OBVIOUS
<1>1. CASE Gate!ReadToken
  <2>1. GateTypes'
    BY <1>1, TypesStay DEF GateIInv, Gate!ReadToken, Gate!input, Gate!Answer, Gate!On
  <2>2. CountFits'
    BY <1>1, CountStays DEF GateIInv, Gate!ReadToken, Gate!input
  <2>3. PathFits'
    BY <1>1 DEF GateIInv, PathFits, GateTypes, Gate!Tokens, Gate!ReadToken, Gate!input, Gate!Answer, Gate!On
  <2> QED
    BY <2>1, <2>2, <2>3 DEF GateIInv
<1>2. CASE Gate!CountBits
  BY <1>2, CountGate
<1>3. CASE Gate!CheckLevel
  <2>1. GateTypes'
    BY <1>3, TypesStay DEF GateIInv, Gate!CheckLevel, Gate!input, Gate!Answer, Gate!On
  <2>2. CountFits'
    BY <1>3, CountStays DEF GateIInv, Gate!CheckLevel, Gate!input
  <2>3. PathFits'
    <3>1. token' = token /\ bits' = bits /\ next' = next /\ resolved' = resolved /\ next = 0
      BY <1>3 DEF Gate!CheckLevel, Gate!input
    <3>2. ~ resolved /\ token \in {"no spec", "good"}
      BY <1>3 DEF GateIInv, PathFits, Gate!CheckLevel
    <3>3. CASE gate' = "answered"
      BY <3>1, <3>2, <3>3 DEF PathFits
    <3>4. CASE gate' = "spec"
      <4>1. bits >= GateLevel
        <5>1. ~ (bits < GateLevel)
          BY <1>3, <3>4 DEF Gate!CheckLevel, Gate!Answer
        <5>2. bits \in Nat
          BY DEF GateIInv, GateTypes
        <5> QED
          BY <5>1, <5>2, GateConstants
      <4>2. token = "good"
        BY <1>3, <3>2, <3>4 DEF Gate!CheckLevel, Gate!Answer
      <4> QED
        BY <3>1, <3>2, <3>4, <4>1, <4>2 DEF PathFits, Paid
    <3> QED
      BY <1>3, <3>3, <3>4 DEF Gate!CheckLevel, Gate!Answer, Gate!On
  <2> QED
    BY <2>1, <2>2, <2>3 DEF GateIInv
<1>4. CASE Gate!CheckSpec
  <2>1. GateTypes'
    BY <1>4, TypesStay DEF GateIInv, Gate!CheckSpec, Gate!input, Gate!Answer, Gate!On
  <2>2. CountFits'
    BY <1>4, CountStays DEF GateIInv, Gate!CheckSpec, Gate!input
  <2>3. PathFits'
    <3>1. UNCHANGED <<token, spec, bits, next, resolved>> /\ ~ resolved /\ Paid
      BY <1>4 DEF Gate!CheckSpec, Gate!input, GateIInv, PathFits
    <3>2. CASE Gate!Valid(spec)
      <4>1. gate' = "url"
        BY <1>4, <3>2 DEF Gate!CheckSpec, Gate!On
      <4> QED
        BY <3>1, <3>2, <4>1 DEF PathFits, Paid, Gate!Valid
    <3>3. CASE ~ Gate!Valid(spec)
      <4>1. gate' = "answered"
        BY <1>4, <3>3 DEF Gate!CheckSpec, Gate!Answer
      <4> QED
        BY <3>1, <4>1 DEF PathFits
    <3> QED
      BY <3>2, <3>3
  <2> QED
    BY <2>1, <2>2, <2>3 DEF GateIInv
<1>5. CASE Gate!CheckUrl
  <2>1. gate' = "answered" /\ UNCHANGED <<token, digest, spec, bits, next>> /\ Paid
    BY <1>5 DEF Gate!CheckUrl, Gate!input, Gate!Answer, GateIInv, PathFits
  <2>2. GateTypes'
    BY <2>1, TypesStay DEF GateIInv
  <2>3. CountFits'
    BY <2>1, CountStays DEF GateIInv
  <2>4. PathFits'
    BY <2>1 DEF PathFits, Paid
  <2> QED
    BY <2>2, <2>3, <2>4 DEF GateIInv
<1> QED
  BY <1>1, <1>2, <1>3, <1>4, <1>5 DEF Gate!Next

LEMMA StillGate == GateIInv /\ UNCHANGED gateVars => GateIInv'
<1> SUFFICES ASSUME GateIInv, UNCHANGED gateVars
             PROVE  GateIInv'
  OBVIOUS
<1>1. UNCHANGED <<token, digest, spec, gate, bits, next, resolved>>
  BY DEF gateVars
<1>2. GateTypes'
  BY <1>1, TypesStay DEF GateIInv, GateTypes
<1>3. CountFits'
  BY <1>1, CountStays DEF GateIInv
<1>4. PathFits'
  BY <1>1 DEF GateIInv, PathFits, Paid, Gate!Valid
<1> QED
  BY <1>2, <1>3, <1>4 DEF GateIInv

\* A count says how many zero bits a digest ends with; a name is looked up for
\* a digest that ends with enough; a picture that is drawn is neither empty nor
\* too large.
LEMMA GateIsKept ==
  GateIInv => Gate!LevelExact /\ Gate!LookupIsPaid /\ Gate!ImageInRange
<1> SUFFICES ASSUME GateIInv
             PROVE  Gate!LevelExact /\ Gate!LookupIsPaid /\ Gate!ImageInRange
  OBVIOUS
<1>1. Gate!LevelExact
  BY DEF GateIInv, CountFits, Exact, Gate!LevelExact
<1>2. ASSUME resolved
      PROVE  token = "good" /\ Gate!Number % Gate!Power[GateLevel] = 0
  <2>1. Paid /\ Exact(bits) /\ bits \in Nat
    BY <1>2 DEF GateIInv, GateTypes, CountFits, PathFits, Paid
  <2> DEFINE more == bits - GateLevel  N == Gate!Number
             p == Gate!Power[GateLevel]  q == Gate!Power[more]
  <2>2. more \in Nat /\ bits = GateLevel + more
    BY <2>1, GateConstants DEF Paid
  <2>3. Gate!Power[bits] = p * q /\ p \in Nat \ {0} /\ q \in Nat \ {0}
    <3> HIDE DEF more
    <3> QED
      BY <2>2, PowersMultiply, Powers, GateConstants
  <2>4. N % (p * q) = 0
    BY <2>1, <2>3 DEF Exact
  <2>5. N \in Nat
    <3>1. digest \in [1..GateBytes -> Nat]
      BY BytesAreNumbers, GateConstants DEF GateIInv, GateTypes
    <3>2. PICK v : Digits(v) /\ N = v[GateBytes]
      BY <3>1, DigitsMakeNumber, GateConstants
    <3>3. GateBytes \in 0..GateBytes
      BY GateConstants
    <3> QED
      BY <3>2, <3>3 DEF Digits
  <2>6. N % p = 0
    <3> HIDE DEF N, p, q
    <3> DEFINE m == p * q  k == N \div m
    <3>1. m \in Nat \ {0}
      BY <2>3
    <3>2. N = k * m /\ k \in Nat
      <4> HIDE DEF m
      <4> QED
        BY <2>4, <2>5, <3>1 DEF m
    <3>3. N = (k * q) * p /\ k * q \in Nat
      <4> HIDE DEF k
      <4> QED
        BY <2>3, <3>2
    <3>4. \A a \in Nat, b \in Nat \ {0} : (a * b) % b = 0
      OBVIOUS
    <3> DEFINE a == k * q
    <3>5. N = a * p /\ a \in Nat
      BY <3>3
    <3> HIDE DEF a
    <3> QED
      BY <2>3, <3>4, <3>5
  <2> QED
    BY <2>1, <2>6 DEF Paid
<1>3. ASSUME gate = "url", NEW side \in {spec.width, spec.height}
      PROVE  side * spec.scale >= 2 /\ side * spec.scale <= 2 * GateDim
  <2>1. Gate!Valid(spec)
    BY <1>3 DEF GateIInv, PathFits
  <2>2. spec.scale \in Int
    BY DEF GateIInv, GateTypes, Gate!Specs, Gate!Plain
  <2>3. spec.scale \in {1, 2} /\ side \in 1..GateDim /\ side * spec.scale >= 2
    BY <2>1, <2>2 DEF Gate!Valid
  <2> QED
    BY <2>3, GateConstants
<1> QED
  BY <1>1, <1>2, <1>3 DEF Gate!LookupIsPaid, Gate!ImageInRange

-----------------------------------------------------------------------------
(* Queries *)

\* What is left at the end of a loop.
End(T, b, s, q) == (CHOOSE g : Results(g, T, b, s, q))[Len(q)]

EndsAs(g, T, b, s, q) == Results(g, T, b, s, q) /\ End(T, b, s, q) = g[Len(q)]
Grows(T, b, P, s) ==
  /\ End(T, b, s, <<>>) = b
  /\ \A q \in Seq(P) : End(T, b, s, q) \in T
  /\ \A q \in Seq(P), p \in P : End(T, b, s, Append(q, p)) = s[<<End(T, b, s, q), p>>]

LEMMA EndIsResult ==
  ASSUME NEW T, NEW b \in T, NEW P, NEW s \in [T \X P -> T], NEW q \in Seq(P)
  PROVE  \E g : EndsAs(g, T, b, s, q)
<1> DEFINE R(g) == Results(g, T, b, s, q)
           c == CHOOSE g : R(g)
<1>1. \E g : R(g)
  BY LoopHasResults
<1>2. R(c)
  <2> HIDE DEF R
  <2> QED
    BY <1>1, Zenon
<1>3. End(T, b, s, q) = c[Len(q)]
  BY DEF End
<1> QED
  BY <1>2, <1>3 DEF EndsAs

\* A parameter more is a step more.
LEMMA EndGrows ==
  ASSUME NEW T, NEW b \in T, NEW P, NEW s \in [T \X P -> T]
  PROVE  Grows(T, b, P, s)
<1>1. ASSUME NEW q \in Seq(P)
      PROVE  End(T, b, s, q) \in T
  <2>1. PICK g : EndsAs(g, T, b, s, q)
    BY EndIsResult
  <2>2. Len(q) \in 0..Len(q)
    OBVIOUS
  <2> QED
    BY <2>1, <2>2 DEF EndsAs, Results
<1>2. End(T, b, s, <<>>) = b
  <2>1. <<>> \in Seq(P) /\ Len(<<>>) = 0
    OBVIOUS
  <2>2. PICK g : EndsAs(g, T, b, s, <<>>)
    BY <2>1, EndIsResult
  <2> QED
    BY <2>1, <2>2 DEF EndsAs, Results
<1>3. ASSUME NEW q \in Seq(P), NEW p \in P
      PROVE  End(T, b, s, Append(q, p)) = s[<<End(T, b, s, q), p>>]
  <2> DEFINE L == Len(q)  r == Append(q, p)
  <2>1. /\ L \in Nat /\ Len(r) = L + 1 /\ r[L + 1] = p /\ \A n \in 1..L : r[n] = q[n]
        /\ L \in 0..L /\ L + 1 \in 1..(L + 1) /\ (L + 1) - 1 = L /\ r \in Seq(P)
    OBVIOUS
  <2>2. PICK g : EndsAs(g, T, b, s, q)
    BY EndIsResult
  <2>3. PICK h : EndsAs(h, T, b, s, r)
    BY <2>1, EndIsResult
  <2>4. /\ g[0] = b /\ h[0] = b
        /\ \A n \in 1..L : g[n] = s[<<g[n - 1], q[n]>>]
        /\ \A n \in 1..(L + 1) : h[n] = s[<<h[n - 1], r[n]>>]
    BY <2>1, <2>2, <2>3 DEF EndsAs, Results
  <2>5. \A n \in 1..L : g[n - 1] = h[n - 1] => g[n] = h[n]
    <3>1. \A n \in 1..L : n \in 1..(L + 1)
      BY <2>1
    <3> QED
      BY <2>1, <2>4, <3>1
  <2>6. \A n \in 0..L : g[n] = h[n]
    <3>1. GoOnAlike(g, h, L)
      BY <2>4, <2>5 DEF GoOnAlike
    <3>2. AreAlike(g, h, L)
      BY <2>1, <3>1, Alike
    <3> QED
      BY <3>2 DEF AreAlike
  <2>7. h[L + 1] = s[<<h[L], p>>] /\ h[L] = g[L]
    BY <2>1, <2>4, <2>6
  <2> QED
    BY <2>1, <2>2, <2>3, <2>7 DEF EndsAs
<1> QED
  BY <1>1, <1>2, <1>3 DEF Grows

\* What is found among the parameters, and the results of the handlers.
Found == {Query!NoValue} \cup {Query!Some(p[2]) : p \in Parameters}
TargetReads == [bad : BOOLEAN, target : Found, pairs : Seq(Parameters)]
TargetStart == [bad |-> FALSE, target |-> Query!NoValue, pairs |-> <<>>]
WebSubReads == [bad : BOOLEAN, challenge : Found]
WebSubStart == [bad |-> FALSE, challenge |-> Query!NoValue]
MetaReads == [bad : BOOLEAN, challenge : Found, token : Found, expected : Found]
MetaStart == [bad |-> FALSE, challenge |-> Query!NoValue, token |-> Query!NoValue, expected |-> Query!NoValue]
MentionReads == [source : Found, target : Found]
MentionStart == [source |-> Query!NoValue, target |-> Query!NoValue]
Held == {p[2] : p \in Parameters}

LEMMA OwnFits ==
  /\ Own \in Seq(Parameters) /\ Query!NoValue \in Found /\ <<>> \in Seq(Parameters) /\ <<>> \in Seq(Held)
  /\ \A f \in Found, p \in Parameters : Query!First(f, p[2]) \in Found
  /\ \A p \in Parameters : p[2] \in Held /\ Query!Some(p[2]) \in Found
BY PartsAssumption DEF PartsAssumption, Query!QueriesAssumption, Found, Held, Query!First

LEMMA TargetShape ==
  /\ TargetStart \in TargetReads
  /\ \A a \in TargetReads, p \in Parameters : Query!TargetStep(a, p) \in TargetReads
<1>1. TargetStart \in TargetReads
  BY OwnFits DEF TargetStart, TargetReads
<1>2. ASSUME NEW a \in TargetReads, NEW p \in Parameters
      PROVE  Query!TargetStep(a, p) \in TargetReads
  <2>1. a.bad \in BOOLEAN /\ a.target \in Found /\ a.pairs \in Seq(Parameters)
    BY DEF TargetReads
  <2>2. Own \o a.pairs \in Seq(Parameters) /\ Append(a.pairs, p) \in Seq(Parameters)
    BY <2>1, OwnFits
  <2>3. [bad |-> ~ Query!IsHttp(p[2]), target |-> Query!Some(p[2]), pairs |-> Own \o a.pairs] \in TargetReads
    BY <2>2, OwnFits DEF TargetReads, Query!IsHttp
  <2>4. [a EXCEPT !.pairs = Append(@, p)] \in TargetReads
    BY <2>2 DEF TargetReads
  <2> QED
    BY <2>3, <2>4 DEF Query!TargetStep
<1> QED
  BY <1>1, <1>2

LEMMA TargetLoop ==
  /\ Query!Trampoline(<<>>) = TargetStart
  /\ \A q \in Seq(Parameters) : Query!Trampoline(q) \in TargetReads
  /\ \A q \in Seq(Parameters), p \in Parameters :
       Query!Trampoline(Append(q, p)) = Query!TargetStep(Query!Trampoline(q), p)
<1> DEFINE s == [x \in TargetReads \X Parameters |-> Query!TargetStep(x[1], x[2])]
<1>1. TargetStart \in TargetReads /\ s \in [TargetReads \X Parameters -> TargetReads]
  BY TargetShape
<1>2. \A a \in TargetReads, p \in Parameters : s[<<a, p>>] = Query!TargetStep(a, p)
  OBVIOUS
<1> HIDE DEF s
<1>3. ASSUME NEW q \in Seq(Parameters)
      PROVE  Query!Trampoline(q) = End(TargetReads, TargetStart, s, q)
  <2> DEFINE P(g) == g = [n \in 0..Len(q) |-> IF n = 0 THEN TargetStart ELSE Query!TargetStep(g[n - 1], q[n])]
             c == CHOOSE g : P(g)
  <2>1. PICK h : EndsAs(h, TargetReads, TargetStart, s, q)
    BY <1>1, EndIsResult
  <2>2. /\ Len(q) \in Nat /\ 0 \in 0..Len(q) /\ Len(q) \in 0..Len(q)
        /\ \A n \in 1..Len(q) : q[n] \in Parameters /\ n - 1 \in 0..Len(q) /\ n \in 0..Len(q) /\ n # 0
        /\ \A n \in 0..Len(q) : n = 0 \/ n \in 1..Len(q)
    OBVIOUS
  <2>3. /\ h \in [0..Len(q) -> TargetReads] /\ h[0] = TargetStart
        /\ \A n \in 1..Len(q) : h[n] = Query!TargetStep(h[n - 1], q[n])
    <3>1. /\ h \in [0..Len(q) -> TargetReads] /\ h[0] = TargetStart
          /\ \A n \in 1..Len(q) : h[n] = s[<<h[n - 1], q[n]>>]
      BY <2>1 DEF EndsAs, Results
    <3> QED
      BY <1>2, <2>2, <3>1
  <2>4. P(h)
    <3>1. \A n \in 0..Len(q) : h[n] = IF n = 0 THEN TargetStart ELSE Query!TargetStep(h[n - 1], q[n])
      BY <2>2, <2>3
    <3> QED
      BY <2>3, <3>1
  <2>5. P(c)
    <3> HIDE DEF P
    <3> QED
      BY <2>4, Zenon
  <2>6. c[Len(q)] = h[Len(q)]
    <3> HIDE DEF c
    <3>1. \A n \in 0..Len(q) : c[n] = IF n = 0 THEN TargetStart ELSE Query!TargetStep(c[n - 1], q[n])
      BY <2>5
    <3>2. \A n \in 1..Len(q) : c[n - 1] = h[n - 1] => c[n] = h[n]
      BY <2>2, <2>3, <3>1
    <3>3. c[0] = h[0]
      BY <2>2, <2>3, <3>1
    <3>4. GoOnAlike(c, h, Len(q))
      BY <3>2, <3>3 DEF GoOnAlike
    <3>5. AreAlike(c, h, Len(q))
      BY <2>2, <3>4, Alike
    <3> QED
      BY <2>2, <3>5 DEF AreAlike
  <2>7. Query!Trampoline(q) = c[Len(q)]
    BY DEF Query!Trampoline, Query!Loop, TargetStart
  <2> QED
    BY <2>1, <2>6, <2>7 DEF EndsAs
<1>4. Grows(TargetReads, TargetStart, Parameters, s)
  BY <1>1, EndGrows
<1>5. <<>> \in Seq(Parameters) /\ \A q \in Seq(Parameters), p \in Parameters : Append(q, p) \in Seq(Parameters)
  OBVIOUS
<1>6. Query!Trampoline(<<>>) = TargetStart
  BY <1>3, <1>4, <1>5 DEF Grows
<1>7. \A q \in Seq(Parameters) : Query!Trampoline(q) \in TargetReads
  BY <1>3, <1>4 DEF Grows
<1>8. ASSUME NEW q \in Seq(Parameters), NEW p \in Parameters
      PROVE  Query!Trampoline(Append(q, p)) = Query!TargetStep(Query!Trampoline(q), p)
  <2>1. Query!Trampoline(Append(q, p)) = End(TargetReads, TargetStart, s, Append(q, p))
    BY <1>3, <1>5
  <2>2. Query!Trampoline(q) = End(TargetReads, TargetStart, s, q) /\ End(TargetReads, TargetStart, s, q) \in TargetReads
    BY <1>3, <1>4 DEF Grows
  <2>3. End(TargetReads, TargetStart, s, Append(q, p)) = s[<<End(TargetReads, TargetStart, s, q), p>>]
    BY <1>4 DEF Grows
  <2> QED
    BY <1>2, <2>1, <2>2, <2>3
<1> QED
  BY <1>6, <1>7, <1>8

LEMMA WebSubShape ==
  /\ WebSubStart \in WebSubReads
  /\ \A a \in WebSubReads, p \in Parameters : Query!WebSubStep(a, p) \in WebSubReads
<1>1. WebSubStart \in WebSubReads
  BY OwnFits DEF WebSubStart, WebSubReads
<1>2. ASSUME NEW a \in WebSubReads, NEW p \in Parameters
      PROVE  Query!WebSubStep(a, p) \in WebSubReads
  <2>1. a.challenge \in Found
    BY DEF WebSubReads
  <2>2. Query!First(a.challenge, p[2]) \in Found
    BY <2>1, OwnFits
  <2>3. /\ [a EXCEPT !.challenge = Query!First(@, p[2])] \in WebSubReads
        /\ [a EXCEPT !.bad = TRUE] \in WebSubReads
    BY <2>2 DEF WebSubReads
  <2> QED
    BY <2>3 DEF Query!WebSubStep
<1> QED
  BY <1>1, <1>2

LEMMA WebSubLoop ==
  /\ Query!WebSubEnd(<<>>) = WebSubStart
  /\ \A q \in Seq(Parameters) : Query!WebSubEnd(q) \in WebSubReads
  /\ \A q \in Seq(Parameters), p \in Parameters :
       Query!WebSubEnd(Append(q, p)) = Query!WebSubStep(Query!WebSubEnd(q), p)
<1> DEFINE s == [x \in WebSubReads \X Parameters |-> Query!WebSubStep(x[1], x[2])]
<1>1. WebSubStart \in WebSubReads /\ s \in [WebSubReads \X Parameters -> WebSubReads]
  BY WebSubShape
<1>2. \A a \in WebSubReads, p \in Parameters : s[<<a, p>>] = Query!WebSubStep(a, p)
  OBVIOUS
<1> HIDE DEF s
<1>3. ASSUME NEW q \in Seq(Parameters)
      PROVE  Query!WebSubEnd(q) = End(WebSubReads, WebSubStart, s, q)
  <2> DEFINE P(g) == g = [n \in 0..Len(q) |-> IF n = 0 THEN WebSubStart ELSE Query!WebSubStep(g[n - 1], q[n])]
             c == CHOOSE g : P(g)
  <2>1. PICK h : EndsAs(h, WebSubReads, WebSubStart, s, q)
    BY <1>1, EndIsResult
  <2>2. /\ Len(q) \in Nat /\ 0 \in 0..Len(q) /\ Len(q) \in 0..Len(q)
        /\ \A n \in 1..Len(q) : q[n] \in Parameters /\ n - 1 \in 0..Len(q) /\ n \in 0..Len(q) /\ n # 0
        /\ \A n \in 0..Len(q) : n = 0 \/ n \in 1..Len(q)
    OBVIOUS
  <2>3. /\ h \in [0..Len(q) -> WebSubReads] /\ h[0] = WebSubStart
        /\ \A n \in 1..Len(q) : h[n] = Query!WebSubStep(h[n - 1], q[n])
    <3>1. /\ h \in [0..Len(q) -> WebSubReads] /\ h[0] = WebSubStart
          /\ \A n \in 1..Len(q) : h[n] = s[<<h[n - 1], q[n]>>]
      BY <2>1 DEF EndsAs, Results
    <3> QED
      BY <1>2, <2>2, <3>1
  <2>4. P(h)
    <3>1. \A n \in 0..Len(q) : h[n] = IF n = 0 THEN WebSubStart ELSE Query!WebSubStep(h[n - 1], q[n])
      BY <2>2, <2>3
    <3> QED
      BY <2>3, <3>1
  <2>5. P(c)
    <3> HIDE DEF P
    <3> QED
      BY <2>4, Zenon
  <2>6. c[Len(q)] = h[Len(q)]
    <3> HIDE DEF c
    <3>1. \A n \in 0..Len(q) : c[n] = IF n = 0 THEN WebSubStart ELSE Query!WebSubStep(c[n - 1], q[n])
      BY <2>5
    <3>2. \A n \in 1..Len(q) : c[n - 1] = h[n - 1] => c[n] = h[n]
      BY <2>2, <2>3, <3>1
    <3>3. c[0] = h[0]
      BY <2>2, <2>3, <3>1
    <3>4. GoOnAlike(c, h, Len(q))
      BY <3>2, <3>3 DEF GoOnAlike
    <3>5. AreAlike(c, h, Len(q))
      BY <2>2, <3>4, Alike
    <3> QED
      BY <2>2, <3>5 DEF AreAlike
  <2>7. Query!WebSubEnd(q) = c[Len(q)]
    BY DEF Query!WebSubEnd, Query!Loop, WebSubStart
  <2> QED
    BY <2>1, <2>6, <2>7 DEF EndsAs
<1>4. Grows(WebSubReads, WebSubStart, Parameters, s)
  BY <1>1, EndGrows
<1>5. <<>> \in Seq(Parameters) /\ \A q \in Seq(Parameters), p \in Parameters : Append(q, p) \in Seq(Parameters)
  OBVIOUS
<1>6. Query!WebSubEnd(<<>>) = WebSubStart
  BY <1>3, <1>4, <1>5 DEF Grows
<1>7. \A q \in Seq(Parameters) : Query!WebSubEnd(q) \in WebSubReads
  BY <1>3, <1>4 DEF Grows
<1>8. ASSUME NEW q \in Seq(Parameters), NEW p \in Parameters
      PROVE  Query!WebSubEnd(Append(q, p)) = Query!WebSubStep(Query!WebSubEnd(q), p)
  <2>1. Query!WebSubEnd(Append(q, p)) = End(WebSubReads, WebSubStart, s, Append(q, p))
    BY <1>3, <1>5
  <2>2. Query!WebSubEnd(q) = End(WebSubReads, WebSubStart, s, q) /\ End(WebSubReads, WebSubStart, s, q) \in WebSubReads
    BY <1>3, <1>4 DEF Grows
  <2>3. End(WebSubReads, WebSubStart, s, Append(q, p)) = s[<<End(WebSubReads, WebSubStart, s, q), p>>]
    BY <1>4 DEF Grows
  <2> QED
    BY <1>2, <2>1, <2>2, <2>3
<1> QED
  BY <1>6, <1>7, <1>8

LEMMA MetaShape ==
  /\ MetaStart \in MetaReads
  /\ \A a \in MetaReads, p \in Parameters : Query!MetaStep(a, p) \in MetaReads
<1>1. MetaStart \in MetaReads
  BY OwnFits DEF MetaStart, MetaReads
<1>2. ASSUME NEW a \in MetaReads, NEW p \in Parameters
      PROVE  Query!MetaStep(a, p) \in MetaReads
  <2>1. a.challenge \in Found /\ a.token \in Found /\ a.expected \in Found
    BY DEF MetaReads
  <2>2. Query!First(a.challenge, p[2]) \in Found /\ Query!First(a.token, p[2]) \in Found /\ Query!First(a.expected, p[2]) \in Found
    BY <2>1, OwnFits
  <2>3. /\ [a EXCEPT !.challenge = Query!First(@, p[2])] \in MetaReads
        /\ [a EXCEPT !.token = Query!First(@, p[2])] \in MetaReads
        /\ [a EXCEPT !.expected = Query!First(@, p[2])] \in MetaReads
        /\ [a EXCEPT !.bad = TRUE] \in MetaReads
    BY <2>2 DEF MetaReads
  <2> QED
    BY <2>3 DEF Query!MetaStep
<1> QED
  BY <1>1, <1>2

LEMMA MetaLoop ==
  /\ Query!MetaEnd(<<>>) = MetaStart
  /\ \A q \in Seq(Parameters) : Query!MetaEnd(q) \in MetaReads
  /\ \A q \in Seq(Parameters), p \in Parameters :
       Query!MetaEnd(Append(q, p)) = Query!MetaStep(Query!MetaEnd(q), p)
<1> DEFINE s == [x \in MetaReads \X Parameters |-> Query!MetaStep(x[1], x[2])]
<1>1. MetaStart \in MetaReads /\ s \in [MetaReads \X Parameters -> MetaReads]
  BY MetaShape
<1>2. \A a \in MetaReads, p \in Parameters : s[<<a, p>>] = Query!MetaStep(a, p)
  OBVIOUS
<1> HIDE DEF s
<1>3. ASSUME NEW q \in Seq(Parameters)
      PROVE  Query!MetaEnd(q) = End(MetaReads, MetaStart, s, q)
  <2> DEFINE P(g) == g = [n \in 0..Len(q) |-> IF n = 0 THEN MetaStart ELSE Query!MetaStep(g[n - 1], q[n])]
             c == CHOOSE g : P(g)
  <2>1. PICK h : EndsAs(h, MetaReads, MetaStart, s, q)
    BY <1>1, EndIsResult
  <2>2. /\ Len(q) \in Nat /\ 0 \in 0..Len(q) /\ Len(q) \in 0..Len(q)
        /\ \A n \in 1..Len(q) : q[n] \in Parameters /\ n - 1 \in 0..Len(q) /\ n \in 0..Len(q) /\ n # 0
        /\ \A n \in 0..Len(q) : n = 0 \/ n \in 1..Len(q)
    OBVIOUS
  <2>3. /\ h \in [0..Len(q) -> MetaReads] /\ h[0] = MetaStart
        /\ \A n \in 1..Len(q) : h[n] = Query!MetaStep(h[n - 1], q[n])
    <3>1. /\ h \in [0..Len(q) -> MetaReads] /\ h[0] = MetaStart
          /\ \A n \in 1..Len(q) : h[n] = s[<<h[n - 1], q[n]>>]
      BY <2>1 DEF EndsAs, Results
    <3> QED
      BY <1>2, <2>2, <3>1
  <2>4. P(h)
    <3>1. \A n \in 0..Len(q) : h[n] = IF n = 0 THEN MetaStart ELSE Query!MetaStep(h[n - 1], q[n])
      BY <2>2, <2>3
    <3> QED
      BY <2>3, <3>1
  <2>5. P(c)
    <3> HIDE DEF P
    <3> QED
      BY <2>4, Zenon
  <2>6. c[Len(q)] = h[Len(q)]
    <3> HIDE DEF c
    <3>1. \A n \in 0..Len(q) : c[n] = IF n = 0 THEN MetaStart ELSE Query!MetaStep(c[n - 1], q[n])
      BY <2>5
    <3>2. \A n \in 1..Len(q) : c[n - 1] = h[n - 1] => c[n] = h[n]
      BY <2>2, <2>3, <3>1
    <3>3. c[0] = h[0]
      BY <2>2, <2>3, <3>1
    <3>4. GoOnAlike(c, h, Len(q))
      BY <3>2, <3>3 DEF GoOnAlike
    <3>5. AreAlike(c, h, Len(q))
      BY <2>2, <3>4, Alike
    <3> QED
      BY <2>2, <3>5 DEF AreAlike
  <2>7. Query!MetaEnd(q) = c[Len(q)]
    BY DEF Query!MetaEnd, Query!Loop, MetaStart
  <2> QED
    BY <2>1, <2>6, <2>7 DEF EndsAs
<1>4. Grows(MetaReads, MetaStart, Parameters, s)
  BY <1>1, EndGrows
<1>5. <<>> \in Seq(Parameters) /\ \A q \in Seq(Parameters), p \in Parameters : Append(q, p) \in Seq(Parameters)
  OBVIOUS
<1>6. Query!MetaEnd(<<>>) = MetaStart
  BY <1>3, <1>4, <1>5 DEF Grows
<1>7. \A q \in Seq(Parameters) : Query!MetaEnd(q) \in MetaReads
  BY <1>3, <1>4 DEF Grows
<1>8. ASSUME NEW q \in Seq(Parameters), NEW p \in Parameters
      PROVE  Query!MetaEnd(Append(q, p)) = Query!MetaStep(Query!MetaEnd(q), p)
  <2>1. Query!MetaEnd(Append(q, p)) = End(MetaReads, MetaStart, s, Append(q, p))
    BY <1>3, <1>5
  <2>2. Query!MetaEnd(q) = End(MetaReads, MetaStart, s, q) /\ End(MetaReads, MetaStart, s, q) \in MetaReads
    BY <1>3, <1>4 DEF Grows
  <2>3. End(MetaReads, MetaStart, s, Append(q, p)) = s[<<End(MetaReads, MetaStart, s, q), p>>]
    BY <1>4 DEF Grows
  <2> QED
    BY <1>2, <2>1, <2>2, <2>3
<1> QED
  BY <1>6, <1>7, <1>8

LEMMA MentionShape ==
  /\ MentionStart \in MentionReads
  /\ \A a \in MentionReads, p \in Parameters : Query!MentionStep(a, p) \in MentionReads
<1>1. MentionStart \in MentionReads
  BY OwnFits DEF MentionStart, MentionReads
<1>2. ASSUME NEW a \in MentionReads, NEW p \in Parameters
      PROVE  Query!MentionStep(a, p) \in MentionReads
  <2>1. a.source \in Found /\ a.target \in Found
    BY DEF MentionReads
  <2>2. Query!First(a.source, p[2]) \in Found /\ Query!First(a.target, p[2]) \in Found
    BY <2>1, OwnFits
  <2>3. /\ [a EXCEPT !.source = Query!First(@, p[2])] \in MentionReads
        /\ [a EXCEPT !.target = Query!First(@, p[2])] \in MentionReads
    BY <2>2 DEF MentionReads
  <2> QED
    BY <2>3 DEF Query!MentionStep
<1> QED
  BY <1>1, <1>2

LEMMA MentionLoop ==
  /\ Query!MentionEnd(<<>>) = MentionStart
  /\ \A q \in Seq(Parameters) : Query!MentionEnd(q) \in MentionReads
  /\ \A q \in Seq(Parameters), p \in Parameters :
       Query!MentionEnd(Append(q, p)) = Query!MentionStep(Query!MentionEnd(q), p)
<1> DEFINE s == [x \in MentionReads \X Parameters |-> Query!MentionStep(x[1], x[2])]
<1>1. MentionStart \in MentionReads /\ s \in [MentionReads \X Parameters -> MentionReads]
  BY MentionShape
<1>2. \A a \in MentionReads, p \in Parameters : s[<<a, p>>] = Query!MentionStep(a, p)
  OBVIOUS
<1> HIDE DEF s
<1>3. ASSUME NEW q \in Seq(Parameters)
      PROVE  Query!MentionEnd(q) = End(MentionReads, MentionStart, s, q)
  <2> DEFINE P(g) == g = [n \in 0..Len(q) |-> IF n = 0 THEN MentionStart ELSE Query!MentionStep(g[n - 1], q[n])]
             c == CHOOSE g : P(g)
  <2>1. PICK h : EndsAs(h, MentionReads, MentionStart, s, q)
    BY <1>1, EndIsResult
  <2>2. /\ Len(q) \in Nat /\ 0 \in 0..Len(q) /\ Len(q) \in 0..Len(q)
        /\ \A n \in 1..Len(q) : q[n] \in Parameters /\ n - 1 \in 0..Len(q) /\ n \in 0..Len(q) /\ n # 0
        /\ \A n \in 0..Len(q) : n = 0 \/ n \in 1..Len(q)
    OBVIOUS
  <2>3. /\ h \in [0..Len(q) -> MentionReads] /\ h[0] = MentionStart
        /\ \A n \in 1..Len(q) : h[n] = Query!MentionStep(h[n - 1], q[n])
    <3>1. /\ h \in [0..Len(q) -> MentionReads] /\ h[0] = MentionStart
          /\ \A n \in 1..Len(q) : h[n] = s[<<h[n - 1], q[n]>>]
      BY <2>1 DEF EndsAs, Results
    <3> QED
      BY <1>2, <2>2, <3>1
  <2>4. P(h)
    <3>1. \A n \in 0..Len(q) : h[n] = IF n = 0 THEN MentionStart ELSE Query!MentionStep(h[n - 1], q[n])
      BY <2>2, <2>3
    <3> QED
      BY <2>3, <3>1
  <2>5. P(c)
    <3> HIDE DEF P
    <3> QED
      BY <2>4, Zenon
  <2>6. c[Len(q)] = h[Len(q)]
    <3> HIDE DEF c
    <3>1. \A n \in 0..Len(q) : c[n] = IF n = 0 THEN MentionStart ELSE Query!MentionStep(c[n - 1], q[n])
      BY <2>5
    <3>2. \A n \in 1..Len(q) : c[n - 1] = h[n - 1] => c[n] = h[n]
      BY <2>2, <2>3, <3>1
    <3>3. c[0] = h[0]
      BY <2>2, <2>3, <3>1
    <3>4. GoOnAlike(c, h, Len(q))
      BY <3>2, <3>3 DEF GoOnAlike
    <3>5. AreAlike(c, h, Len(q))
      BY <2>2, <3>4, Alike
    <3> QED
      BY <2>2, <3>5 DEF AreAlike
  <2>7. Query!MentionEnd(q) = c[Len(q)]
    BY DEF Query!MentionEnd, Query!Loop, MentionStart
  <2> QED
    BY <2>1, <2>6, <2>7 DEF EndsAs
<1>4. Grows(MentionReads, MentionStart, Parameters, s)
  BY <1>1, EndGrows
<1>5. <<>> \in Seq(Parameters) /\ \A q \in Seq(Parameters), p \in Parameters : Append(q, p) \in Seq(Parameters)
  OBVIOUS
<1>6. Query!MentionEnd(<<>>) = MentionStart
  BY <1>3, <1>4, <1>5 DEF Grows
<1>7. \A q \in Seq(Parameters) : Query!MentionEnd(q) \in MentionReads
  BY <1>3, <1>4 DEF Grows
<1>8. ASSUME NEW q \in Seq(Parameters), NEW p \in Parameters
      PROVE  Query!MentionEnd(Append(q, p)) = Query!MentionStep(Query!MentionEnd(q), p)
  <2>1. Query!MentionEnd(Append(q, p)) = End(MentionReads, MentionStart, s, Append(q, p))
    BY <1>3, <1>5
  <2>2. Query!MentionEnd(q) = End(MentionReads, MentionStart, s, q) /\ End(MentionReads, MentionStart, s, q) \in MentionReads
    BY <1>3, <1>4 DEF Grows
  <2>3. End(MentionReads, MentionStart, s, Append(q, p)) = s[<<End(MentionReads, MentionStart, s, q), p>>]
    BY <1>4 DEF Grows
  <2> QED
    BY <1>2, <2>1, <2>2, <2>3
<1> QED
  BY <1>6, <1>7, <1>8

LEMMA ValuesShape ==
  ASSUME NEW keys
  PROVE  /\ <<>> \in Seq(Held)
         /\ \A a \in Seq(Held), p \in Parameters : (IF p[1] \in keys THEN Append(a, p[2]) ELSE a) \in Seq(Held)
BY OwnFits

LEMMA ValuesLoop ==
  ASSUME NEW keys
  PROVE  /\ Query!Values(<<>>, keys) = <<>>
         /\ \A q \in Seq(Parameters) : Query!Values(q, keys) \in Seq(Held)
         /\ \A q \in Seq(Parameters), p \in Parameters :
              Query!Values(Append(q, p), keys) = (IF p[1] \in keys THEN Append(Query!Values(q, keys), p[2]) ELSE Query!Values(q, keys))
<1> DEFINE s == [x \in Seq(Held) \X Parameters |-> (IF x[2][1] \in keys THEN Append(x[1], x[2][2]) ELSE x[1])]
<1>1. <<>> \in Seq(Held) /\ s \in [Seq(Held) \X Parameters -> Seq(Held)]
  BY ValuesShape
<1>2. \A a \in Seq(Held), p \in Parameters : s[<<a, p>>] = (IF p[1] \in keys THEN Append(a, p[2]) ELSE a)
  OBVIOUS
<1> HIDE DEF s
<1>3. ASSUME NEW q \in Seq(Parameters)
      PROVE  Query!Values(q, keys) = End(Seq(Held), <<>>, s, q)
  <2> DEFINE P(g) == g = [n \in 0..Len(q) |-> IF n = 0 THEN <<>> ELSE (IF q[n][1] \in keys THEN Append(g[n - 1], q[n][2]) ELSE g[n - 1])]
             c == CHOOSE g : P(g)
  <2>1. PICK h : EndsAs(h, Seq(Held), <<>>, s, q)
    BY <1>1, EndIsResult
  <2>2. /\ Len(q) \in Nat /\ 0 \in 0..Len(q) /\ Len(q) \in 0..Len(q)
        /\ \A n \in 1..Len(q) : q[n] \in Parameters /\ n - 1 \in 0..Len(q) /\ n \in 0..Len(q) /\ n # 0
        /\ \A n \in 0..Len(q) : n = 0 \/ n \in 1..Len(q)
    OBVIOUS
  <2>3. /\ h \in [0..Len(q) -> Seq(Held)] /\ h[0] = <<>>
        /\ \A n \in 1..Len(q) : h[n] = (IF q[n][1] \in keys THEN Append(h[n - 1], q[n][2]) ELSE h[n - 1])
    <3>1. /\ h \in [0..Len(q) -> Seq(Held)] /\ h[0] = <<>>
          /\ \A n \in 1..Len(q) : h[n] = s[<<h[n - 1], q[n]>>]
      BY <2>1 DEF EndsAs, Results
    <3> QED
      BY <1>2, <2>2, <3>1
  <2>4. P(h)
    <3>1. \A n \in 0..Len(q) : h[n] = IF n = 0 THEN <<>> ELSE (IF q[n][1] \in keys THEN Append(h[n - 1], q[n][2]) ELSE h[n - 1])
      BY <2>2, <2>3
    <3> QED
      BY <2>3, <3>1
  <2>5. P(c)
    <3> HIDE DEF P
    <3> QED
      BY <2>4, Zenon
  <2>6. c[Len(q)] = h[Len(q)]
    <3> HIDE DEF c
    <3>1. \A n \in 0..Len(q) : c[n] = IF n = 0 THEN <<>> ELSE (IF q[n][1] \in keys THEN Append(c[n - 1], q[n][2]) ELSE c[n - 1])
      BY <2>5
    <3>2. \A n \in 1..Len(q) : c[n - 1] = h[n - 1] => c[n] = h[n]
      BY <2>2, <2>3, <3>1
    <3>3. c[0] = h[0]
      BY <2>2, <2>3, <3>1
    <3>4. GoOnAlike(c, h, Len(q))
      BY <3>2, <3>3 DEF GoOnAlike
    <3>5. AreAlike(c, h, Len(q))
      BY <2>2, <3>4, Alike
    <3> QED
      BY <2>2, <3>5 DEF AreAlike
  <2>7. Query!Values(q, keys) = c[Len(q)]
    BY DEF Query!Values, Query!Loop
  <2> QED
    BY <2>1, <2>6, <2>7 DEF EndsAs
<1>4. Grows(Seq(Held), <<>>, Parameters, s)
  BY <1>1, EndGrows
<1>5. <<>> \in Seq(Parameters) /\ \A q \in Seq(Parameters), p \in Parameters : Append(q, p) \in Seq(Parameters)
  OBVIOUS
<1>6. Query!Values(<<>>, keys) = <<>>
  BY <1>3, <1>4, <1>5 DEF Grows
<1>7. \A q \in Seq(Parameters) : Query!Values(q, keys) \in Seq(Held)
  BY <1>3, <1>4 DEF Grows
<1>8. ASSUME NEW q \in Seq(Parameters), NEW p \in Parameters
      PROVE  Query!Values(Append(q, p), keys) = (IF p[1] \in keys THEN Append(Query!Values(q, keys), p[2]) ELSE Query!Values(q, keys))
  <2>1. Query!Values(Append(q, p), keys) = End(Seq(Held), <<>>, s, Append(q, p))
    BY <1>3, <1>5
  <2>2. Query!Values(q, keys) = End(Seq(Held), <<>>, s, q) /\ End(Seq(Held), <<>>, s, q) \in Seq(Held)
    BY <1>3, <1>4 DEF Grows
  <2>3. End(Seq(Held), <<>>, s, Append(q, p)) = s[<<End(Seq(Held), <<>>, s, q), p>>]
    BY <1>4 DEF Grows
  <2> QED
    BY <1>2, <2>1, <2>2, <2>3
<1> QED
  BY <1>6, <1>7, <1>8

LEMMA OthersShape ==
  ASSUME NEW keys
  PROVE  /\ <<>> \in Seq(Parameters)
         /\ \A a \in Seq(Parameters), p \in Parameters : (IF p[1] \in keys THEN a ELSE Append(a, p)) \in Seq(Parameters)
BY OwnFits

LEMMA OthersLoop ==
  ASSUME NEW keys
  PROVE  /\ Query!Others(<<>>, keys) = <<>>
         /\ \A q \in Seq(Parameters) : Query!Others(q, keys) \in Seq(Parameters)
         /\ \A q \in Seq(Parameters), p \in Parameters :
              Query!Others(Append(q, p), keys) = (IF p[1] \in keys THEN Query!Others(q, keys) ELSE Append(Query!Others(q, keys), p))
<1> DEFINE s == [x \in Seq(Parameters) \X Parameters |-> (IF x[2][1] \in keys THEN x[1] ELSE Append(x[1], x[2]))]
<1>1. <<>> \in Seq(Parameters) /\ s \in [Seq(Parameters) \X Parameters -> Seq(Parameters)]
  BY OthersShape
<1>2. \A a \in Seq(Parameters), p \in Parameters : s[<<a, p>>] = (IF p[1] \in keys THEN a ELSE Append(a, p))
  OBVIOUS
<1> HIDE DEF s
<1>3. ASSUME NEW q \in Seq(Parameters)
      PROVE  Query!Others(q, keys) = End(Seq(Parameters), <<>>, s, q)
  <2> DEFINE P(g) == g = [n \in 0..Len(q) |-> IF n = 0 THEN <<>> ELSE (IF q[n][1] \in keys THEN g[n - 1] ELSE Append(g[n - 1], q[n]))]
             c == CHOOSE g : P(g)
  <2>1. PICK h : EndsAs(h, Seq(Parameters), <<>>, s, q)
    BY <1>1, EndIsResult
  <2>2. /\ Len(q) \in Nat /\ 0 \in 0..Len(q) /\ Len(q) \in 0..Len(q)
        /\ \A n \in 1..Len(q) : q[n] \in Parameters /\ n - 1 \in 0..Len(q) /\ n \in 0..Len(q) /\ n # 0
        /\ \A n \in 0..Len(q) : n = 0 \/ n \in 1..Len(q)
    OBVIOUS
  <2>3. /\ h \in [0..Len(q) -> Seq(Parameters)] /\ h[0] = <<>>
        /\ \A n \in 1..Len(q) : h[n] = (IF q[n][1] \in keys THEN h[n - 1] ELSE Append(h[n - 1], q[n]))
    <3>1. /\ h \in [0..Len(q) -> Seq(Parameters)] /\ h[0] = <<>>
          /\ \A n \in 1..Len(q) : h[n] = s[<<h[n - 1], q[n]>>]
      BY <2>1 DEF EndsAs, Results
    <3> QED
      BY <1>2, <2>2, <3>1
  <2>4. P(h)
    <3>1. \A n \in 0..Len(q) : h[n] = IF n = 0 THEN <<>> ELSE (IF q[n][1] \in keys THEN h[n - 1] ELSE Append(h[n - 1], q[n]))
      BY <2>2, <2>3
    <3> QED
      BY <2>3, <3>1
  <2>5. P(c)
    <3> HIDE DEF P
    <3> QED
      BY <2>4, Zenon
  <2>6. c[Len(q)] = h[Len(q)]
    <3> HIDE DEF c
    <3>1. \A n \in 0..Len(q) : c[n] = IF n = 0 THEN <<>> ELSE (IF q[n][1] \in keys THEN c[n - 1] ELSE Append(c[n - 1], q[n]))
      BY <2>5
    <3>2. \A n \in 1..Len(q) : c[n - 1] = h[n - 1] => c[n] = h[n]
      BY <2>2, <2>3, <3>1
    <3>3. c[0] = h[0]
      BY <2>2, <2>3, <3>1
    <3>4. GoOnAlike(c, h, Len(q))
      BY <3>2, <3>3 DEF GoOnAlike
    <3>5. AreAlike(c, h, Len(q))
      BY <2>2, <3>4, Alike
    <3> QED
      BY <2>2, <3>5 DEF AreAlike
  <2>7. Query!Others(q, keys) = c[Len(q)]
    BY DEF Query!Others, Query!Loop
  <2> QED
    BY <2>1, <2>6, <2>7 DEF EndsAs
<1>4. Grows(Seq(Parameters), <<>>, Parameters, s)
  BY <1>1, EndGrows
<1>5. <<>> \in Seq(Parameters) /\ \A q \in Seq(Parameters), p \in Parameters : Append(q, p) \in Seq(Parameters)
  OBVIOUS
<1>6. Query!Others(<<>>, keys) = <<>>
  BY <1>3, <1>4, <1>5 DEF Grows
<1>7. \A q \in Seq(Parameters) : Query!Others(q, keys) \in Seq(Parameters)
  BY <1>3, <1>4 DEF Grows
<1>8. ASSUME NEW q \in Seq(Parameters), NEW p \in Parameters
      PROVE  Query!Others(Append(q, p), keys) = (IF p[1] \in keys THEN Query!Others(q, keys) ELSE Append(Query!Others(q, keys), p))
  <2>1. Query!Others(Append(q, p), keys) = End(Seq(Parameters), <<>>, s, Append(q, p))
    BY <1>3, <1>5
  <2>2. Query!Others(q, keys) = End(Seq(Parameters), <<>>, s, q) /\ End(Seq(Parameters), <<>>, s, q) \in Seq(Parameters)
    BY <1>3, <1>4 DEF Grows
  <2>3. End(Seq(Parameters), <<>>, s, Append(q, p)) = s[<<End(Seq(Parameters), <<>>, s, q), p>>]
    BY <1>4 DEF Grows
  <2> QED
    BY <1>2, <2>1, <2>2, <2>3
<1> QED
  BY <1>6, <1>7, <1>8

LEMMA AppendedFirst ==
  ASSUME NEW S, NEW s \in Seq(S), NEW x \in S
  PROVE  Append(s, x) # <<>> /\ Append(s, x)[1] = IF s = <<>> THEN x ELSE s[1]
<1>1. /\ Append(s, x) # <<>> /\ Append(s, x)[Len(s) + 1] = x
      /\ \A i \in 1..Len(s) : Append(s, x)[i] = s[i]
  BY AppendProperties
<1>2. CASE s = <<>>
  <2>1. Len(s) = 0
    BY <1>2
  <2> QED
    BY <1>1, <1>2, <2>1
<1>3. CASE s # <<>>
  <2>1. Len(s) \in Nat \ {0}
    BY <1>3, EmptySeq
  <2>2. 1 \in 1..Len(s)
    BY <2>1
  <2> QED
    BY <1>1, <1>3, <2>2
<1> QED
  BY <1>2, <1>3

LEMMA AppendedBehind ==
  \A s, t \in Seq(Parameters), x \in Parameters : Append(s \o t, x) = s \o Append(t, x)
<1> SUFFICES ASSUME NEW s \in Seq(Parameters), NEW t \in Seq(Parameters), NEW x \in Parameters
             PROVE  Append(s \o t, x) = s \o Append(t, x)
  OBVIOUS
<1>1. s \o t \in Seq(Parameters) /\ <<x>> \in Seq(Parameters)
  OBVIOUS
<1>2. Append(s \o t, x) = (s \o t) \o <<x>> /\ Append(t, x) = t \o <<x>>
  BY <1>1, AppendIsConcat
<1> QED
  BY <1>1, <1>2, ConcatAssociative

\* The first of what a key has.
FirstOf(q, keys) ==
  IF Query!Values(q, keys) = <<>> THEN Query!NoValue ELSE Query!Some(Query!Values(q, keys)[1])

\* Before its first at a query waits as it is; behind it the target has what
\* stands beside it.
TargetFits(q) ==
  LET ats == Query!Values(q, {"at"})
      end == Query!Trampoline(q)
      rest == Query!Others(q, {"at"})
  IN /\ ats = <<>> => ~ end.bad /\ end.target = Query!NoValue /\ end.pairs = q /\ rest = q
     /\ ats # <<>> => /\ end.target = Query!Some(ats[1]) /\ (end.bad <=> ~ Query!IsHttp(ats[1]))
                      /\ ~ end.bad => end.pairs = Own \o rest

\* A target that is put into a query without one has all of it.
At == <<"at", "url">>
HasAll(q, i) ==
  LET end == Query!Trampoline(Query!InsertAt(q, i, At)) IN
  ~ end.bad /\ end.target = Query!Some("url") /\ end.pairs = Own \o q
AliasFits(q) == Query!Values(q, {"at"}) = <<>> => \A i \in 1..(Len(q) + 1) : HasAll(q, i)

MetaFits(q) ==
  /\ Query!MetaEnd(q).token = FirstOf(q, {"hub.verify_token"})
  /\ Query!MetaEnd(q).expected = FirstOf(q, {"v", "verify_token"})

\* Two results of the handlers are one.
SameEnds(q, r) ==
  /\ Query!WebSubEnd(q) = Query!WebSubEnd(r) /\ Query!MetaEnd(q) = Query!MetaEnd(r)
  /\ Query!MentionEnd(q) = Query!MentionEnd(r)
OrderFits(q) ==
  \A i \in 1..(Len(q) - 1) :
    ~ Query!SameKind(q[i], q[i + 1]) => SameEnds(Query!Swapped(q, i), q)

QueryIInv ==
  /\ query \in Seq(Parameters)
  /\ TargetFits(query) /\ AliasFits(query) /\ MetaFits(query) /\ OrderFits(query)
  /\ Query!ChallengeStands

LEMMA ValuesGrow ==
  ASSUME NEW q \in Seq(Parameters), NEW p \in Parameters, NEW keys
  PROVE  /\ Query!Values(q, keys) \in Seq(Held) /\ p[2] \in Held
         /\ p[1] \in keys => Query!Values(Append(q, p), keys) = Append(Query!Values(q, keys), p[2])
         /\ p[1] \notin keys => Query!Values(Append(q, p), keys) = Query!Values(q, keys)
<1>1. /\ \A r \in Seq(Parameters) : Query!Values(r, keys) \in Seq(Held)
      /\ \A r \in Seq(Parameters), s \in Parameters :
           Query!Values(Append(r, s), keys) =
             IF s[1] \in keys THEN Append(Query!Values(r, keys), s[2]) ELSE Query!Values(r, keys)
  BY ValuesLoop
<1> QED
  BY <1>1, OwnFits

LEMMA OthersGrow ==
  ASSUME NEW q \in Seq(Parameters), NEW p \in Parameters, NEW keys
  PROVE  /\ Query!Others(q, keys) \in Seq(Parameters)
         /\ p[1] \in keys => Query!Others(Append(q, p), keys) = Query!Others(q, keys)
         /\ p[1] \notin keys => Query!Others(Append(q, p), keys) = Append(Query!Others(q, keys), p)
<1>1. /\ \A r \in Seq(Parameters) : Query!Others(r, keys) \in Seq(Parameters)
      /\ \A r \in Seq(Parameters), s \in Parameters :
           Query!Others(Append(r, s), keys) =
             IF s[1] \in keys THEN Query!Others(r, keys) ELSE Append(Query!Others(r, keys), s)
  BY OthersLoop
<1> QED
  BY <1>1

\* The first value stays the first.
LEMMA FirstGrows ==
  ASSUME NEW q \in Seq(Parameters), NEW p \in Parameters, NEW keys
  PROVE  FirstOf(Append(q, p), keys) =
           IF p[1] \in keys THEN Query!First(FirstOf(q, keys), p[2]) ELSE FirstOf(q, keys)
<1> DEFINE v == Query!Values(q, keys)
<1>1. v \in Seq(Held) /\ p[2] \in Held
  BY ValuesGrow
<1>2. CASE p[1] \in keys
  <2>1. Query!Values(Append(q, p), keys) = Append(v, p[2])
    BY <1>2, ValuesGrow
  <2> HIDE DEF v
  <2>2. Append(v, p[2]) # <<>> /\ Append(v, p[2])[1] = IF v = <<>> THEN p[2] ELSE v[1]
    BY <1>1, AppendedFirst
  <2>3. \A x : Query!Some(x) # Query!NoValue
    BY DEF Query!Some, Query!NoValue
  <2>4. FirstOf(q, keys) = IF v = <<>> THEN Query!NoValue ELSE Query!Some(v[1])
    BY DEF FirstOf, v
  <2>5. FirstOf(Append(q, p), keys) = Query!Some(Append(v, p[2])[1])
    BY <2>1, <2>2 DEF FirstOf
  <2> QED
    BY <1>2, <2>2, <2>3, <2>4, <2>5 DEF Query!First
<1>3. CASE p[1] \notin keys
  BY <1>3, ValuesGrow DEF FirstOf
<1> QED
  BY <1>2, <1>3

LEMMA TargetKeeps ==
  ASSUME NEW q \in Seq(Parameters), NEW p \in Parameters, TargetFits(q)
  PROVE  TargetFits(Append(q, p))
<1> DEFINE keys == {"at"}
           ats == Query!Values(q, keys)  end == Query!Trampoline(q)  rest == Query!Others(q, keys)
           r == Append(q, p)
<1>1. /\ ats \in Seq(Held) /\ p[2] \in Held /\ rest \in Seq(Parameters) /\ end \in TargetReads
      /\ Query!Trampoline(r) = Query!TargetStep(end, p) /\ Own \in Seq(Parameters)
  BY ValuesGrow, OthersGrow, TargetLoop, OwnFits
<1>2. \A x : Query!Some(x) # Query!NoValue
  BY DEF Query!Some, Query!NoValue
<1>3. CASE p[1] = "at"
  <2>1. Query!Values(r, keys) = Append(ats, p[2]) /\ Query!Others(r, keys) = rest
    BY <1>3, ValuesGrow, OthersGrow
  <2>2. CASE ats = <<>>
    <3>1. ~ end.bad /\ end.target = Query!NoValue /\ end.pairs = q /\ rest = q
      BY <2>2 DEF TargetFits
    <3>2. Query!TargetStep(end, p) =
            [bad |-> ~ Query!IsHttp(p[2]), target |-> Query!Some(p[2]), pairs |-> Own \o q]
      BY <1>3, <3>1 DEF Query!TargetStep, Query!Repeated
    <3>3. Append(ats, p[2]) # <<>> /\ Append(ats, p[2])[1] = p[2]
      <4> HIDE DEF ats
      <4> QED
        BY <1>1, <2>2, AppendedFirst
    <3>4. /\ Query!Trampoline(r).target = Query!Some(p[2])
          /\ Query!Trampoline(r).bad <=> ~ Query!IsHttp(p[2])
          /\ Query!Trampoline(r).pairs = Own \o rest
      <4> DEFINE e == Query!Trampoline(r)
      <4>1. e = [bad |-> ~ (p[2] = "url"), target |-> Query!Some(p[2]), pairs |-> Own \o q]
        BY <1>1, <3>2 DEF Query!IsHttp
      <4> HIDE DEF e
      <4>2. e.target = Query!Some(p[2]) /\ (e.bad <=> ~ (p[2] = "url")) /\ e.pairs = Own \o q
        BY <4>1
      <4> QED
        BY <3>1, <4>2 DEF e, Query!IsHttp
    <3> QED
      BY <2>1, <3>3, <3>4 DEF TargetFits
  <2>3. CASE ats # <<>>
    <3>1. /\ end.target = Query!Some(ats[1]) /\ (end.bad <=> ~ Query!IsHttp(ats[1]))
          /\ ~ end.bad => end.pairs = Own \o rest
      BY <2>3 DEF TargetFits
    <3>2. Query!TargetStep(end, p) = end
      BY <1>2, <1>3, <3>1 DEF Query!TargetStep, Query!Repeated
    <3>3. Append(ats, p[2]) # <<>> /\ Append(ats, p[2])[1] = ats[1]
      <4> HIDE DEF ats
      <4> QED
        BY <1>1, <2>3, AppendedFirst
    <3> QED
      BY <1>1, <2>1, <3>1, <3>2, <3>3 DEF TargetFits
  <2> QED
    BY <2>2, <2>3
<1>4. CASE p[1] # "at"
  <2>1. Query!Values(r, keys) = ats /\ Query!Others(r, keys) = Append(rest, p)
    BY <1>4, ValuesGrow, OthersGrow
  <2>2. CASE ats = <<>>
    <3>1. ~ end.bad /\ end.target = Query!NoValue /\ end.pairs = q /\ rest = q
      BY <2>2 DEF TargetFits
    <3>2. Query!TargetStep(end, p) = [end EXCEPT !.pairs = Append(@, p)]
      BY <1>4, <3>1 DEF Query!TargetStep, Query!Repeated
    <3>3. /\ [end EXCEPT !.pairs = Append(@, p)].pairs = Append(end.pairs, p)
          /\ [end EXCEPT !.pairs = Append(@, p)].bad = end.bad
          /\ [end EXCEPT !.pairs = Append(@, p)].target = end.target
      BY <1>1 DEF TargetReads
    <3> QED
      BY <1>1, <2>1, <2>2, <3>1, <3>2, <3>3 DEF TargetFits
  <2>3. CASE ats # <<>>
    <3>1. /\ end.target = Query!Some(ats[1]) /\ (end.bad <=> ~ Query!IsHttp(ats[1]))
          /\ ~ end.bad => end.pairs = Own \o rest
      BY <2>3 DEF TargetFits
    <3>2. CASE end.bad
      <4>1. Query!TargetStep(end, p) = end
        BY <3>2 DEF Query!TargetStep
      <4> QED
        BY <1>1, <2>1, <2>3, <3>1, <3>2, <4>1 DEF TargetFits
    <3>3. CASE ~ end.bad
      <4>1. Query!TargetStep(end, p) = [end EXCEPT !.pairs = Append(@, p)]
        BY <1>4, <3>3 DEF Query!TargetStep, Query!Repeated
      <4>2. Append(Own \o rest, p) = Own \o Append(rest, p)
        BY <1>1, AppendedBehind
      <4>3. /\ [end EXCEPT !.pairs = Append(@, p)].pairs = Append(end.pairs, p)
            /\ [end EXCEPT !.pairs = Append(@, p)].bad = end.bad
            /\ [end EXCEPT !.pairs = Append(@, p)].target = end.target
        BY <1>1 DEF TargetReads
      <4> QED
        BY <1>1, <2>1, <2>3, <3>1, <3>3, <4>1, <4>2, <4>3 DEF TargetFits
    <3> QED
      BY <3>2, <3>3
  <2> QED
    BY <2>2, <2>3
<1> QED
  BY <1>3, <1>4

\* Where a parameter is put in.
LEMMA InsertShape ==
  \A q \in Seq(Parameters), e, p \in Parameters :
    /\ Query!InsertAt(q, Len(q) + 1, e) = Append(q, e)
    /\ \A i \in 1..(Len(q) + 1) :
         /\ Query!InsertAt(q, i, e) \in Seq(Parameters)
         /\ Query!InsertAt(Append(q, p), i, e) = Append(Query!InsertAt(q, i, e), p)
<1> SUFFICES ASSUME NEW q \in Seq(Parameters), NEW e \in Parameters, NEW p \in Parameters
             PROVE  /\ Query!InsertAt(q, Len(q) + 1, e) = Append(q, e)
                    /\ \A i \in 1..(Len(q) + 1) :
                         /\ Query!InsertAt(q, i, e) \in Seq(Parameters)
                         /\ Query!InsertAt(Append(q, p), i, e) = Append(Query!InsertAt(q, i, e), p)
  OBVIOUS
<1>1. Len(q) \in Nat /\ Append(q, p) \in Seq(Parameters) /\ Len(Append(q, p)) = Len(q) + 1
  OBVIOUS
<1>2. ASSUME NEW i \in 1..(Len(q) + 1)
      PROVE  /\ Query!InsertAt(q, i, e) \in Seq(Parameters)
             /\ Query!InsertAt(Append(q, p), i, e) = Append(Query!InsertAt(q, i, e), p)
  <2> DEFINE a == SubSeq(q, 1, i - 1)  b == SubSeq(q, i, Len(q))  m == <<e>>
  <2>1. a \in Seq(Parameters) /\ b \in Seq(Parameters) /\ m \in Seq(Parameters)
    OBVIOUS
  <2>2. SubSeq(Append(q, p), 1, i - 1) = a
    <3> DEFINE c == SubSeq(Append(q, p), 1, i - 1)
    <3>1. c \in Seq(Parameters) /\ Len(c) = i - 1 /\ Len(a) = i - 1
      BY <1>1
    <3>2. \A k \in 1..(i - 1) : c[k] = a[k]
      BY <1>1
    <3> HIDE DEF a, c
    <3>3. c = a
      BY <2>1, <3>1, <3>2, SeqEqual
    <3> QED
      BY <3>3 DEF c
  <2>3. SubSeq(Append(q, p), i, Len(Append(q, p))) = Append(b, p)
    <3> DEFINE c == SubSeq(Append(q, p), i, Len(q) + 1)  d == Append(b, p)
    <3>1. c \in Seq(Parameters) /\ Len(c) = (Len(q) + 2) - i /\ Len(b) = (Len(q) + 1) - i
      BY <1>1
    <3>2. d \in Seq(Parameters) /\ Len(d) = (Len(q) + 2) - i
      BY <2>1, <3>1
    <3>3. \A k \in 1..((Len(q) + 2) - i) : c[k] = d[k]
      <4> TAKE k \in 1..((Len(q) + 2) - i)
      <4>1. c[k] = Append(q, p)[(i + k) - 1]
        BY <1>1
      <4>2. CASE k = (Len(q) + 2) - i
        <5>1. (i + k) - 1 = Len(q) + 1 /\ k = Len(b) + 1
          BY <1>1, <3>1, <4>2
        <5>2. d[Len(b) + 1] = p
          <6> HIDE DEF b
          <6> QED
            BY <2>1
        <5> QED
          BY <4>1, <5>1, <5>2
      <4>3. CASE k # (Len(q) + 2) - i
        <5>1. (i + k) - 1 \in 1..Len(q) /\ k \in 1..Len(b)
          BY <1>1, <3>1, <4>3
        <5>2. b[k] = q[(i + k) - 1]
          BY <1>1, <3>1, <5>1
        <5>3. d[k] = b[k]
          <6> HIDE DEF b
          <6> QED
            BY <2>1, <5>1
        <5> QED
          BY <4>1, <5>1, <5>2, <5>3
      <4> QED
        BY <4>2, <4>3
    <3> HIDE DEF c, d
    <3>4. c = d
      BY <3>1, <3>2, <3>3, SeqEqual
    <3> QED
      BY <1>1, <3>4 DEF c, d
  <2>4. Query!InsertAt(q, i, e) = (a \o m) \o b
    BY DEF Query!InsertAt
  <2>5. Query!InsertAt(Append(q, p), i, e) = (a \o m) \o Append(b, p)
    BY <2>2, <2>3 DEF Query!InsertAt
  <2>6. a \o m \in Seq(Parameters)
    BY <2>1
  <2> DEFINE x == a \o m
  <2> HIDE DEF a, b, x
  <2>7. Append(x \o b, p) = x \o Append(b, p) /\ x \o b \in Seq(Parameters)
    <3>1. x \in Seq(Parameters) /\ b \in Seq(Parameters)
      BY <2>1, <2>6 DEF x
    <3>2. Append(x \o b, p) = x \o Append(b, p)
      BY <3>1, AppendedBehind
    <3> QED
      BY <3>1, <3>2
  <2> QED
    BY <2>4, <2>5, <2>7 DEF x
<1>3. Query!InsertAt(q, Len(q) + 1, e) = Append(q, e)
  <2>1. SubSeq(q, 1, Len(q)) = q /\ SubSeq(q, Len(q) + 1, Len(q)) = <<>>
    OBVIOUS
  <2>2. (Len(q) + 1) - 1 = Len(q)
    BY <1>1
  <2>3. q \o <<e>> \in Seq(Parameters) /\ Append(q, e) = q \o <<e>>
    BY AppendIsConcat
  <2>4. (q \o <<e>>) \o <<>> = q \o <<e>>
    BY <2>3, ConcatEmptySeq
  <2> QED
    BY <2>1, <2>2, <2>3, <2>4 DEF Query!InsertAt
<1> QED
  BY <1>2, <1>3

LEMMA AliasKeeps ==
  ASSUME NEW q \in Seq(Parameters), NEW p \in Parameters, TargetFits(q), AliasFits(q)
  PROVE  AliasFits(Append(q, p))
<1> DEFINE r == Append(q, p)
<1>1. /\ At \in Parameters /\ At[1] = "at" /\ At[2] = "url" /\ Own \in Seq(Parameters)
      /\ r \in Seq(Parameters) /\ Len(q) \in Nat /\ Len(r) = Len(q) + 1
  BY OwnFits DEF At, Parameters
<1> SUFFICES ASSUME Query!Values(r, {"at"}) = <<>>, NEW i \in 1..(Len(r) + 1)
             PROVE  HasAll(r, i)
  BY DEF AliasFits
<1>2. p[1] # "at" /\ Query!Values(q, {"at"}) = <<>>
  <2>1. Query!Values(q, {"at"}) \in Seq(Held) /\ p[2] \in Held
    BY ValuesGrow
  <2>2. Append(Query!Values(q, {"at"}), p[2]) # <<>>
    BY <2>1, AppendProperties
  <2> QED
    BY <2>2, ValuesGrow
<1>3. \A x : Query!Some(x) # Query!NoValue
  BY DEF Query!Some, Query!NoValue
<1>4. CASE i \in 1..(Len(q) + 1)
  <2> DEFINE s == Query!InsertAt(q, i, At)  end == Query!Trampoline(s)
  <2>1. s \in Seq(Parameters) /\ Query!InsertAt(r, i, At) = Append(s, p)
    <3>1. At \in Parameters
      BY <1>1
    <3>2. \A k \in 1..(Len(q) + 1) :
            /\ Query!InsertAt(q, k, At) \in Seq(Parameters)
            /\ Query!InsertAt(Append(q, p), k, At) = Append(Query!InsertAt(q, k, At), p)
      BY <3>1, InsertShape
    <3> QED
      BY <1>4, <3>2
  <2>2. ~ end.bad /\ end.target = Query!Some("url") /\ end.pairs = Own \o q
    <3>1. HasAll(q, i)
      BY <1>2, <1>4 DEF AliasFits
    <3> QED
      BY <3>1 DEF HasAll
  <2>3. end \in TargetReads /\ Query!Trampoline(Append(s, p)) = Query!TargetStep(end, p)
    BY <2>1, TargetLoop
  <2> HIDE DEF end
  <2>4. Query!TargetStep(end, p) = [end EXCEPT !.pairs = Append(@, p)]
    BY <1>2, <2>2 DEF Query!TargetStep, Query!Repeated
  <2>5. /\ [end EXCEPT !.pairs = Append(@, p)].pairs = Append(end.pairs, p)
        /\ [end EXCEPT !.pairs = Append(@, p)].bad = end.bad
        /\ [end EXCEPT !.pairs = Append(@, p)].target = end.target
    BY <2>3 DEF TargetReads
  <2>6. Append(Own \o q, p) = Own \o r
    BY <1>1, AppendedBehind
  <2> QED
    BY <2>1, <2>2, <2>3, <2>4, <2>5, <2>6 DEF HasAll
<1>5. CASE i = Len(r) + 1
  <2>1. Query!InsertAt(r, i, At) = Append(r, At)
    BY <1>1, <1>5, InsertShape
  <2> DEFINE end == Query!Trampoline(r)
  <2>2. ~ end.bad /\ end.target = Query!NoValue /\ end.pairs = r
    <3>1. TargetFits(r)
      BY TargetKeeps
    <3> QED
      BY <3>1 DEF TargetFits
  <2>3. Query!Trampoline(Append(r, At)) = Query!TargetStep(end, At)
    BY <1>1, TargetLoop
  <2> HIDE DEF end, r
  <2> DEFINE e == Query!TargetStep(end, At)
  <2>4. e = [bad |-> ~ (At[2] = "url"), target |-> Query!Some("url"), pairs |-> Own \o r]
    BY <1>1, <2>2 DEF Query!TargetStep, Query!Repeated, Query!IsHttp
  <2>5. Query!Trampoline(Query!InsertAt(r, i, At)) = e
    BY <2>1, <2>3
  <2> HIDE DEF e
  <2>6. (e.bad <=> ~ (At[2] = "url")) /\ e.target = Query!Some("url") /\ e.pairs = Own \o r
    BY <2>4
  <2> QED
    BY <1>1, <2>5, <2>6 DEF HasAll
<1>6. i \in 1..(Len(q) + 1) \/ i = Len(r) + 1
  BY <1>1
<1> QED
  BY <1>4, <1>5, <1>6

LEMMA MetaKeeps ==
  ASSUME NEW q \in Seq(Parameters), NEW p \in Parameters, MetaFits(q)
  PROVE  MetaFits(Append(q, p))
<1> DEFINE end == Query!MetaEnd(q)
<1>1. end \in MetaReads /\ Query!MetaEnd(Append(q, p)) = Query!MetaStep(end, p)
  BY MetaLoop
<1> HIDE DEF end
<1>2. Query!MetaStep(end, p).token =
        IF p[1] \in {"hub.verify_token"} THEN Query!First(end.token, p[2]) ELSE end.token
  BY <1>1 DEF Query!MetaStep, MetaReads
<1>3. Query!MetaStep(end, p).expected =
        IF p[1] \in {"v", "verify_token"} THEN Query!First(end.expected, p[2]) ELSE end.expected
  BY <1>1 DEF Query!MetaStep, MetaReads
<1>4. end.token = FirstOf(q, {"hub.verify_token"}) /\ end.expected = FirstOf(q, {"v", "verify_token"})
  BY DEF MetaFits, end
<1>5. Query!MetaEnd(Append(q, p)).token = FirstOf(Append(q, p), {"hub.verify_token"})
  BY <1>1, <1>2, <1>4, FirstGrows
<1>6. Query!MetaEnd(Append(q, p)).expected = FirstOf(Append(q, p), {"v", "verify_token"})
  BY <1>1, <1>3, <1>4, FirstGrows
<1> QED
  BY <1>5, <1>6 DEF MetaFits

\* What a parameter changes of the results of meta_challenge.
LEMMA MetaFields ==
  \A e \in MetaReads, p \in Parameters :
    /\ Query!MetaStep(e, p).challenge =
         IF p[1] = "hub.challenge" THEN Query!First(e.challenge, p[2]) ELSE e.challenge
    /\ Query!MetaStep(e, p).token =
         IF p[1] = "hub.verify_token" THEN Query!First(e.token, p[2]) ELSE e.token
    /\ Query!MetaStep(e, p).expected =
         IF p[1] \in {"v", "verify_token"} THEN Query!First(e.expected, p[2]) ELSE e.expected
    /\ Query!MetaStep(e, p).bad <=> e.bad \/ (p[1] = "hub.mode" /\ p[2] # "subscribe")
<1> SUFFICES ASSUME NEW e \in MetaReads, NEW p \in Parameters
             PROVE  /\ Query!MetaStep(e, p).challenge =
                         IF p[1] = "hub.challenge" THEN Query!First(e.challenge, p[2]) ELSE e.challenge
                    /\ Query!MetaStep(e, p).token =
                         IF p[1] = "hub.verify_token" THEN Query!First(e.token, p[2]) ELSE e.token
                    /\ Query!MetaStep(e, p).expected =
                         IF p[1] \in {"v", "verify_token"} THEN Query!First(e.expected, p[2]) ELSE e.expected
                    /\ Query!MetaStep(e, p).bad <=> e.bad \/ (p[1] = "hub.mode" /\ p[2] # "subscribe")
  OBVIOUS
<1>1. CASE p[1] = "hub.challenge"
  BY <1>1 DEF Query!MetaStep, MetaReads
<1>2. CASE p[1] = "hub.verify_token"
  BY <1>2 DEF Query!MetaStep, MetaReads
<1>3. CASE p[1] \in {"v", "verify_token"}
  BY <1>3 DEF Query!MetaStep, MetaReads
<1>4. CASE p[1] = "hub.mode"
  BY <1>4 DEF Query!MetaStep, MetaReads
<1>5. CASE p[1] \notin {"hub.challenge", "hub.verify_token", "v", "verify_token", "hub.mode"}
  BY <1>5 DEF Query!MetaStep, MetaReads
<1> QED
  BY <1>1, <1>2, <1>3, <1>4, <1>5

\* What of two parameters that are not of one kind comes first does not matter.
LEMMA StepsCommute ==
  ASSUME NEW a \in Parameters, NEW p \in Parameters, ~ Query!SameKind(a, p)
  PROVE  /\ \A e \in WebSubReads :
              Query!WebSubStep(Query!WebSubStep(e, a), p) = Query!WebSubStep(Query!WebSubStep(e, p), a)
         /\ \A e \in MetaReads :
              Query!MetaStep(Query!MetaStep(e, a), p) = Query!MetaStep(Query!MetaStep(e, p), a)
         /\ \A e \in MentionReads :
              Query!MentionStep(Query!MentionStep(e, a), p) = Query!MentionStep(Query!MentionStep(e, p), a)
<1>1. a[1] # p[1] /\ ~ (a[1] \in {"v", "verify_token"} /\ p[1] \in {"v", "verify_token"})
  BY DEF Query!SameKind
<1>2. ASSUME NEW e \in WebSubReads
      PROVE  Query!WebSubStep(Query!WebSubStep(e, a), p) = Query!WebSubStep(Query!WebSubStep(e, p), a)
  BY <1>1 DEF Query!WebSubStep, WebSubReads
<1>3. ASSUME NEW e \in MetaReads
      PROVE  Query!MetaStep(Query!MetaStep(e, a), p) = Query!MetaStep(Query!MetaStep(e, p), a)
  <2> DEFINE ea == Query!MetaStep(e, a)  ep == Query!MetaStep(e, p)
             x == Query!MetaStep(ea, p)  y == Query!MetaStep(ep, a)
  <2>1. ea \in MetaReads /\ ep \in MetaReads
    BY MetaShape
  <2>2. x \in MetaReads /\ y \in MetaReads
    BY <2>1, MetaShape
  <2>3. x.challenge = y.challenge
    BY <1>1, <2>1, MetaFields
  <2>4. x.token = y.token
    BY <1>1, <2>1, MetaFields
  <2>5. x.expected = y.expected
    BY <1>1, <2>1, MetaFields
  <2>6. x.bad = y.bad
    <3> HIDE DEF x, y, ea, ep
    <3>1. x.bad \in BOOLEAN /\ y.bad \in BOOLEAN
      BY <2>2 DEF MetaReads
    <3>2. x.bad <=> y.bad
      BY <2>1, MetaFields DEF x, y, ea, ep
    <3> QED
      BY <3>1, <3>2
  <2> HIDE DEF x, y
  <2>7. x = y
    BY <2>2, <2>3, <2>4, <2>5, <2>6 DEF MetaReads
  <2> QED
    BY <2>7 DEF x, y
<1>4. ASSUME NEW e \in MentionReads
      PROVE  Query!MentionStep(Query!MentionStep(e, a), p) = Query!MentionStep(Query!MentionStep(e, p), a)
  BY <1>1 DEF Query!MentionStep, MentionReads
<1> QED
  BY <1>2, <1>3, <1>4

\* Two parameters that follow each other change places.
LEMMA SwapShape ==
  /\ \A q \in Seq(Parameters), p \in Parameters : \A i \in 1..(Len(q) - 1) :
       /\ Query!Swapped(q, i) \in Seq(Parameters)
       /\ Query!Swapped(Append(q, p), i) = Append(Query!Swapped(q, i), p)
  /\ \A q \in Seq(Parameters), a, p \in Parameters :
       Query!Swapped(Append(Append(q, a), p), Len(q) + 1) = Append(Append(q, p), a)
<1>1. ASSUME NEW q \in Seq(Parameters), NEW p \in Parameters, NEW i \in 1..(Len(q) - 1)
      PROVE  /\ Query!Swapped(q, i) \in Seq(Parameters)
             /\ Query!Swapped(Append(q, p), i) = Append(Query!Swapped(q, i), p)
  <2> DEFINE s == Query!Swapped(q, i)  r == Append(q, p)  t == Query!Swapped(r, i)
  <2>1. /\ Len(q) \in Nat /\ i \in 1..Len(q) /\ i + 1 \in 1..Len(q) /\ q[i] \in Parameters
        /\ q[i + 1] \in Parameters /\ r \in Seq(Parameters) /\ Len(r) = Len(q) + 1
        /\ r[i] = q[i] /\ r[i + 1] = q[i + 1] /\ r[Len(q) + 1] = p
        /\ \A k \in 1..Len(q) : r[k] = q[k]
    OBVIOUS
  <2>2. /\ s \in Seq(Parameters) /\ Len(s) = Len(q)
        /\ \A k \in 1..Len(q) : s[k] = IF k = i + 1 THEN q[i] ELSE IF k = i THEN q[i + 1] ELSE q[k]
    BY <2>1 DEF Query!Swapped
  <2>3. /\ t \in Seq(Parameters) /\ Len(t) = Len(q) + 1
        /\ \A k \in 1..(Len(q) + 1) : t[k] = IF k = i + 1 THEN q[i] ELSE IF k = i THEN q[i + 1] ELSE r[k]
    <3>1. /\ r \in [1..(Len(q) + 1) -> Parameters] /\ i \in 1..(Len(q) + 1)
          /\ i + 1 \in 1..(Len(q) + 1)
      <4> HIDE DEF r
      <4>1. r \in [1..Len(r) -> Parameters]
        BY <2>1, LenProperties
      <4> QED
        BY <2>1, <4>1
    <3> DEFINE n == Len(q) + 1
    <3> HIDE DEF r, n
    <3>2. /\ t \in [1..n -> Parameters]
          /\ \A k \in 1..n : t[k] = IF k = i + 1 THEN q[i] ELSE IF k = i THEN q[i + 1] ELSE r[k]
      BY <2>1, <3>1 DEF Query!Swapped, n
    <3>3. n \in Nat
      BY <2>1 DEF n
    <3>4. t \in Seq(Parameters) /\ Len(t) = n
      BY <3>2, <3>3
    <3> QED
      BY <3>2, <3>4 DEF n
  <2> HIDE DEF s, t
  <2> DEFINE u == Append(s, p)
  <2>4. u \in Seq(Parameters) /\ Len(u) = Len(q) + 1 /\ \A k \in 1..Len(q) : u[k] = s[k]
    BY <2>2, AppendProperties
  <2>5. u[Len(q) + 1] = p
    BY <2>2, AppendProperties
  <2> HIDE DEF u
  <2>6. \A k \in 1..(Len(q) + 1) : t[k] = u[k]
    <3> TAKE k \in 1..(Len(q) + 1)
    <3>1. CASE k = Len(q) + 1
      <4>1. k # i /\ k # i + 1
        BY <2>1, <3>1
      <4> QED
        BY <2>1, <2>3, <2>5, <3>1, <4>1
    <3>2. CASE k # Len(q) + 1
      <4>1. k \in 1..Len(q)
        BY <2>1, <3>2
      <4>2. u[k] = s[k] /\ r[k] = q[k]
        BY <2>1, <2>4, <4>1
      <4> HIDE DEF r
      <4> QED
        BY <2>2, <2>3, <4>1, <4>2
    <3> QED
      BY <3>1, <3>2
  <2>7. t = u
    BY <2>3, <2>4, <2>6, SeqEqual
  <2> QED
    BY <2>2, <2>7 DEF s, t, u
<1>2. ASSUME NEW q \in Seq(Parameters), NEW a \in Parameters, NEW p \in Parameters
      PROVE  Query!Swapped(Append(Append(q, a), p), Len(q) + 1) = Append(Append(q, p), a)
  <2> DEFINE n == Len(q)  r == Append(Append(q, a), p)  s == Query!Swapped(r, n + 1)
             t == Append(Append(q, p), a)
  <2>1. /\ n \in Nat /\ r \in Seq(Parameters) /\ Len(r) = n + 2 /\ r[n + 1] = a /\ r[n + 2] = p
        /\ \A k \in 1..n : r[k] = q[k]
    OBVIOUS
  <2>2. /\ t \in Seq(Parameters) /\ Len(t) = n + 2 /\ t[n + 1] = p /\ t[n + 2] = a
        /\ \A k \in 1..n : t[k] = q[k]
    OBVIOUS
  <2> HIDE DEF r, t, n
  <2>3. (n + 1) + 1 = n + 2 /\ n + 1 \in 1..Len(r) /\ n + 2 \in 1..Len(r)
    BY <2>1
  <2>4. /\ s \in Seq(Parameters) /\ Len(s) = n + 2
        /\ \A k \in 1..(n + 2) : s[k] = IF k = n + 2 THEN a ELSE IF k = n + 1 THEN p ELSE r[k]
    BY <2>1, <2>3 DEF Query!Swapped
  <2> HIDE DEF s
  <2>5. \A k \in 1..(n + 2) : s[k] = t[k]
    <3>1. \A k \in 1..(n + 2) : k = n + 2 \/ k = n + 1 \/ k \in 1..n
      BY <2>1
    <3>2. \A k \in 1..n : k # n + 2 /\ k # n + 1 /\ k \in 1..(n + 2)
      BY <2>1
    <3> QED
      BY <2>1, <2>2, <2>3, <2>4, <3>1, <3>2
  <2>6. s = t
    BY <2>2, <2>4, <2>5, SeqEqual
  <2> QED
    BY <2>6 DEF s, t, r, n
<1> QED
  BY <1>1, <1>2

LEMMA OrderKeeps ==
  ASSUME NEW q \in Seq(Parameters), NEW p \in Parameters, OrderFits(q)
  PROVE  OrderFits(Append(q, p))
<1> DEFINE r == Append(q, p)
<1>1. r \in Seq(Parameters) /\ Len(q) \in Nat /\ Len(r) = Len(q) + 1 /\ \A k \in 1..Len(q) : r[k] = q[k]
  OBVIOUS
<1> SUFFICES ASSUME NEW i \in 1..(Len(r) - 1), ~ Query!SameKind(r[i], r[i + 1])
             PROVE  SameEnds(Query!Swapped(r, i), r)
  BY DEF OrderFits
<1>2. CASE i \in 1..(Len(q) - 1)
  <2> DEFINE s == Query!Swapped(q, i)
  <2>1. i \in 1..Len(q) /\ i + 1 \in 1..Len(q)
    BY <1>1, <1>2
  <2>2. ~ Query!SameKind(q[i], q[i + 1])
    BY <1>1, <2>1
  <2>3. SameEnds(s, q)
    BY <1>2, <2>2 DEF OrderFits
  <2>4. s \in Seq(Parameters) /\ Query!Swapped(r, i) = Append(s, p)
    BY <1>2, SwapShape
  <2> HIDE DEF s
  <2>5. SameEnds(Append(s, p), r)
    BY <2>3, <2>4, WebSubLoop, MetaLoop, MentionLoop DEF SameEnds
  <2> QED
    BY <2>4, <2>5
<1>3. CASE i = Len(q)
  <2>1. q # <<>>
    BY <1>1, <1>3
  <2>2. PICK t \in Seq(Parameters), a \in Parameters : q = Append(t, a)
    BY <2>1, SequenceEmptyOrAppend
  <2>3. /\ i = Len(t) + 1 /\ r[i] = a /\ r[i + 1] = p /\ Append(t, p) \in Seq(Parameters)
    BY <1>1, <1>3, <2>2
  <2>4. Query!Swapped(r, i) = Append(Append(t, p), a)
    BY <2>2, <2>3, SwapShape
  <2>5. ~ Query!SameKind(a, p)
    BY <2>3
  <2>6. Query!WebSubEnd(Append(Append(t, p), a)) = Query!WebSubEnd(r)
    <3> DEFINE e == Query!WebSubEnd(t)
    <3>1. /\ e \in WebSubReads
          /\ Query!WebSubEnd(Append(t, a)) = Query!WebSubStep(e, a)
          /\ Query!WebSubEnd(Append(t, p)) = Query!WebSubStep(e, p)
      BY WebSubLoop
    <3>2. /\ Query!WebSubEnd(r) = Query!WebSubStep(Query!WebSubStep(e, a), p)
          /\ Query!WebSubEnd(Append(Append(t, p), a)) = Query!WebSubStep(Query!WebSubStep(e, p), a)
      BY <2>2, <2>3, <3>1, WebSubLoop
    <3> HIDE DEF e
    <3> QED
      BY <2>5, <3>1, <3>2, StepsCommute
  <2>7. Query!MetaEnd(Append(Append(t, p), a)) = Query!MetaEnd(r)
    <3> DEFINE e == Query!MetaEnd(t)
    <3>1. /\ e \in MetaReads
          /\ Query!MetaEnd(Append(t, a)) = Query!MetaStep(e, a)
          /\ Query!MetaEnd(Append(t, p)) = Query!MetaStep(e, p)
      BY MetaLoop
    <3>2. /\ Query!MetaEnd(r) = Query!MetaStep(Query!MetaStep(e, a), p)
          /\ Query!MetaEnd(Append(Append(t, p), a)) = Query!MetaStep(Query!MetaStep(e, p), a)
      BY <2>2, <2>3, <3>1, MetaLoop
    <3> HIDE DEF e
    <3> QED
      BY <2>5, <3>1, <3>2, StepsCommute
  <2>8. Query!MentionEnd(Append(Append(t, p), a)) = Query!MentionEnd(r)
    <3> DEFINE e == Query!MentionEnd(t)
    <3>1. /\ e \in MentionReads
          /\ Query!MentionEnd(Append(t, a)) = Query!MentionStep(e, a)
          /\ Query!MentionEnd(Append(t, p)) = Query!MentionStep(e, p)
      BY MentionLoop
    <3>2. /\ Query!MentionEnd(r) = Query!MentionStep(Query!MentionStep(e, a), p)
          /\ Query!MentionEnd(Append(Append(t, p), a)) = Query!MentionStep(Query!MentionStep(e, p), a)
      BY <2>2, <2>3, <3>1, MentionLoop
    <3> HIDE DEF e
    <3> QED
      BY <2>5, <3>1, <3>2, StepsCommute
  <2> QED
    BY <2>4, <2>6, <2>7, <2>8 DEF SameEnds
<1> QED
  BY <1>1, <1>2, <1>3

\* A parameter more does not answer otherwise.
LEMMA ChallengeKeeps ==
  ASSUME NEW q \in Seq(Parameters), NEW p \in Parameters, MetaFits(q)
  PROVE  LET r == Append(q, p)
             given == Query!Values(q, {"hub.verify_token"})
             wanted == Query!Values(q, {"v", "verify_token"})
         IN /\ Query!WebSub(q) # Query!NoValue => Query!WebSub(r) \in {Query!NoValue, Query!WebSub(q)}
            /\ Query!Meta(q) # Query!NoValue => Query!Meta(r) \in {Query!NoValue, Query!Meta(q)}
            /\ given # <<>> /\ wanted # <<>> /\ given[1] # wanted[1] =>
                 Query!Meta(r) = Query!NoValue
<1> DEFINE r == Append(q, p)
           given == Query!Values(q, {"hub.verify_token"})
           wanted == Query!Values(q, {"v", "verify_token"})
<1>1. ASSUME Query!WebSub(q) # Query!NoValue
      PROVE  Query!WebSub(r) \in {Query!NoValue, Query!WebSub(q)}
  <2> DEFINE end == Query!WebSubEnd(q)
  <2>1. end \in WebSubReads /\ Query!WebSubEnd(r) = Query!WebSubStep(end, p)
    BY WebSubLoop
  <2>2. ~ end.bad /\ Query!WebSub(q) = end.challenge /\ end.challenge # Query!NoValue
    BY <1>1 DEF Query!WebSub
  <2> HIDE DEF end
  <2>3. Query!WebSubStep(end, p).challenge = end.challenge
    BY <2>1, <2>2 DEF Query!WebSubStep, WebSubReads, Query!First
  <2> QED
    BY <2>1, <2>2, <2>3 DEF Query!WebSub
<1>2. ASSUME Query!Meta(q) # Query!NoValue
      PROVE  Query!Meta(r) \in {Query!NoValue, Query!Meta(q)}
  <2> DEFINE end == Query!MetaEnd(q)
  <2>1. end \in MetaReads /\ Query!MetaEnd(r) = Query!MetaStep(end, p)
    BY MetaLoop
  <2>2. Query!Meta(q) = end.challenge /\ end.challenge # Query!NoValue
    BY <1>2 DEF Query!Meta
  <2> HIDE DEF end
  <2>3. Query!MetaStep(end, p).challenge = end.challenge
    BY <2>1, <2>2, MetaFields DEF Query!First
  <2> QED
    BY <2>1, <2>2, <2>3 DEF Query!Meta
<1>3. ASSUME given # <<>>, wanted # <<>>, given[1] # wanted[1]
      PROVE  Query!Meta(r) = Query!NoValue
  <2> DEFINE end == Query!MetaEnd(q)
  <2>1. end \in MetaReads /\ Query!MetaEnd(r) = Query!MetaStep(end, p)
    BY MetaLoop
  <2>2. end.token = Query!Some(given[1]) /\ end.expected = Query!Some(wanted[1])
    BY <1>3 DEF MetaFits, FirstOf
  <2>3. /\ \A x : Query!Some(x) # Query!NoValue
        /\ \A x, y : Query!Some(x) = Query!Some(y) => x = y
    BY DEF Query!Some, Query!NoValue
  <2> HIDE DEF end, given, wanted
  <2>4. Query!MetaStep(end, p).token = end.token /\ Query!MetaStep(end, p).expected = end.expected
    BY <2>1, <2>2, <2>3, MetaFields DEF Query!First
  <2> QED
    BY <1>3, <2>1, <2>2, <2>3, <2>4 DEF Query!Meta, Query!Refused
<1> QED
  BY <1>1, <1>2, <1>3

LEMMA InitQuery == Query!Init => QueryIInv
<1> SUFFICES ASSUME query = <<>>
             PROVE  QueryIInv
  BY DEF Query!Init
<1>1. query \in Seq(Parameters) /\ Len(query) = 0
  OBVIOUS
<1>2. \A keys : Query!Values(query, keys) = <<>> /\ Query!Others(query, keys) = <<>>
  BY ValuesLoop, OthersLoop
<1>3. Query!Trampoline(query) = TargetStart /\ Query!MetaEnd(query) = MetaStart
  BY TargetLoop, MetaLoop
<1>4. TargetFits(query)
  BY <1>2, <1>3 DEF TargetFits, TargetStart
<1>5. AliasFits(query)
  <2>1. At \in Parameters /\ At[1] = "at" /\ At[2] = "url" /\ Own \in Seq(Parameters)
    BY OwnFits DEF At, Parameters
  <2> SUFFICES ASSUME NEW i \in 1..(Len(query) + 1)
               PROVE  HasAll(query, i)
    BY DEF AliasFits
  <2>2. Query!InsertAt(query, i, At) = Append(query, At)
    <3>1. i = Len(query) + 1
      BY <1>1
    <3> QED
      BY <1>1, <2>1, <3>1, InsertShape
  <2> DEFINE e == Query!TargetStep(TargetStart, At)
  <2>3. Query!Trampoline(Append(query, At)) = e
    BY <1>1, <1>3, <2>1, TargetLoop
  <2>4. e = [bad |-> ~ (At[2] = "url"), target |-> Query!Some("url"), pairs |-> Own \o query]
    <3>1. ~ TargetStart.bad /\ TargetStart.target = Query!NoValue /\ TargetStart.pairs = query
      BY DEF TargetStart
    <3> QED
      BY <2>1, <3>1 DEF Query!TargetStep, Query!Repeated, Query!IsHttp
  <2> HIDE DEF e
  <2>5. (e.bad <=> ~ (At[2] = "url")) /\ e.target = Query!Some("url") /\ e.pairs = Own \o query
    BY <2>4
  <2> QED
    BY <2>1, <2>2, <2>3, <2>5 DEF HasAll
<1>6. MetaFits(query)
  BY <1>2, <1>3 DEF MetaFits, FirstOf, MetaStart
<1>7. OrderFits(query)
  BY <1>1 DEF OrderFits
<1>8. Query!ChallengeStands
  BY DEF Query!ChallengeStands
<1> QED
  BY <1>1, <1>4, <1>5, <1>6, <1>7, <1>8 DEF QueryIInv

LEMMA NextQuery == QueryIInv /\ Query!Next => QueryIInv'
<1> SUFFICES ASSUME QueryIInv, NEW p \in Parameters, query' = Append(query, p)
             PROVE  QueryIInv'
  BY DEF Query!Next
<1>1. /\ query \in Seq(Parameters) /\ TargetFits(query) /\ AliasFits(query) /\ MetaFits(query)
      /\ OrderFits(query)
  BY DEF QueryIInv
<1>2. query' \in Seq(Parameters) /\ TargetFits(query') /\ AliasFits(query')
  BY <1>1, TargetKeeps, AliasKeeps
<1>3. MetaFits(query') /\ OrderFits(query')
  BY <1>1, MetaKeeps, OrderKeeps
<1>4. Query!ChallengeStands'
  <2>1. SubSeq(query', 1, Len(query') - 1) = query
    <3> DEFINE r == Append(query, p)  s == SubSeq(r, 1, Len(query))
    <3>1. Len(query) \in Nat /\ r \in Seq(Parameters) /\ Len(r) = Len(query) + 1
      BY <1>1
    <3>2. s \in Seq(Parameters) /\ Len(s) = Len(query) /\ \A k \in 1..Len(s) : s[k] = query[k]
      BY <1>1, <3>1
    <3> HIDE DEF s
    <3>3. s = query
      BY <1>1, <3>2, SeqEqual
    <3> QED
      BY <3>1, <3>3 DEF s
  <2>2. Query!Front(query') = query
    BY <2>1 DEF Query!Front
  <2> HIDE DEF QueryIInv
  <2> QED
    BY <1>1, <2>2, ChallengeKeeps DEF Query!ChallengeStands
<1> QED
  BY <1>2, <1>3, <1>4 DEF QueryIInv

LEMMA StillQuery == QueryIInv /\ UNCHANGED query => QueryIInv'
BY DEF QueryIInv, Query!ChallengeStands

\* What the runs check of it.
LEMMA QueriesAreRead ==
  QueryIInv => /\ Query!TargetGetsAll /\ Query!AliasAgrees
               /\ Query!ChallengeStands /\ Query!OrderIsFree
<1> SUFFICES ASSUME QueryIInv
             PROVE  /\ Query!TargetGetsAll /\ Query!AliasAgrees
                    /\ Query!ChallengeStands /\ Query!OrderIsFree
  OBVIOUS
<1>1. Query!TargetGetsAll
  BY DEF QueryIInv, TargetFits, Query!TargetGetsAll
<1>2. Query!AliasAgrees
  BY DEF QueryIInv, AliasFits, HasAll, At, Query!AliasAgrees, Query!Redirected
<1>3. Query!OrderIsFree
  BY DEF QueryIInv, OrderFits, SameEnds, Query!OrderIsFree, Query!WebSub, Query!Meta, Query!Webmention
<1> QED
  BY <1>1, <1>2, <1>3 DEF QueryIInv

-----------------------------------------------------------------------------
(* The metadata of a font *)

Deep(t) ==
  /\ Metadata!Depths(t) \in [0..Len(t) -> Nat] /\ Metadata!Depths(t)[0] = 0
  /\ \A n \in 1..Len(t) : Metadata!Depths(t)[n] = Metadata!Nested(Metadata!Depths(t)[n - 1], t[n])

LEMMA DepthsAreNested ==
  ASSUME NEW t \in Seq(Metadata!Lines)
  PROVE  Deep(t)
<1> DEFINE s == [x \in Nat \X Metadata!Lines |-> Metadata!Nested(x[1], x[2])]
           P(g) == g = [n \in 0..Len(t) |-> IF n = 0 THEN 0 ELSE Metadata!Nested(g[n - 1], t[n])]
           c == CHOOSE g : P(g)
<1>1. s \in [Nat \X Metadata!Lines -> Nat]
  <2>1. \A d \in Nat, x \in Metadata!Lines : Metadata!Nested(d, x) \in Nat
    BY DEF Metadata!Nested, Metadata!Closed
  <2> QED
    BY <2>1
<1>2. \A d \in Nat, x \in Metadata!Lines : s[<<d, x>>] = Metadata!Nested(d, x)
  OBVIOUS
<1>3. /\ 0 \in Nat /\ Len(t) \in Nat /\ 0 \in 0..Len(t)
      /\ \A n \in 1..Len(t) : t[n] \in Metadata!Lines /\ n - 1 \in 0..Len(t) /\ n \in 0..Len(t) /\ n # 0
      /\ \A n \in 0..Len(t) : n = 0 \/ n \in 1..Len(t)
  OBVIOUS
<1> HIDE DEF s
<1>4. PICK h : Results(h, Nat, 0, s, t)
  BY <1>1, <1>3, LoopHasResults
<1>5. /\ h \in [0..Len(t) -> Nat] /\ h[0] = 0
      /\ \A n \in 1..Len(t) : h[n] = Metadata!Nested(h[n - 1], t[n])
  BY <1>2, <1>3, <1>4 DEF Results
<1>6. P(h)
  <2>1. \A n \in 0..Len(t) : h[n] = IF n = 0 THEN 0 ELSE Metadata!Nested(h[n - 1], t[n])
    BY <1>3, <1>5
  <2> QED
    BY <1>5, <2>1
<1>7. P(c)
  <2> HIDE DEF P
  <2> QED
    BY <1>6, Zenon
<1>8. \A n \in 0..Len(t) : c[n] = h[n]
  <2> HIDE DEF c
  <2>1. \A n \in 0..Len(t) : c[n] = IF n = 0 THEN 0 ELSE Metadata!Nested(c[n - 1], t[n])
    BY <1>7
  <2>2. c[0] = h[0] /\ \A n \in 1..Len(t) : c[n - 1] = h[n - 1] => c[n] = h[n]
    BY <1>3, <1>5, <2>1
  <2>3. GoOnAlike(c, h, Len(t))
    BY <2>2 DEF GoOnAlike
  <2>4. AreAlike(c, h, Len(t))
    BY <1>3, <2>3, Alike
  <2> QED
    BY <2>4 DEF AreAlike
<1>9. c = h
  <2> HIDE DEF c
  <2>1. DOMAIN c = 0..Len(t) /\ c = [n \in 0..Len(t) |-> c[n]]
    BY <1>7
  <2>2. h = [n \in 0..Len(t) |-> h[n]]
    BY <1>5
  <2> HIDE DEF P
  <2> QED
    BY <1>8, <2>1, <2>2
<1>10. Metadata!Depths(t) = c
  BY DEF Metadata!Depths
<1> QED
  BY <1>5, <1>9, <1>10 DEF Deep

\* The text r is t with the line x behind it.
Longer(t, x, r) ==
  /\ t \in Seq(Metadata!Lines) /\ r \in Seq(Metadata!Lines) /\ x \in Metadata!Lines
  /\ Len(t) \in Nat /\ Len(r) = Len(t) + 1
  /\ DOMAIN t = 1..Len(t) /\ DOMAIN r = 1..(Len(t) + 1)
  /\ \A n \in 1..Len(t) : r[n] = t[n]
  /\ r[Len(t) + 1] = x
  /\ \A n \in 0..Len(t) : /\ Metadata!Depths(t)[n] \in Nat
                          /\ Metadata!Depths(r)[n] = Metadata!Depths(t)[n]
  /\ Metadata!Depths(r)[Len(t) + 1] = Metadata!Nested(Metadata!Depths(t)[Len(t)], x)
  /\ Metadata!Depths(r)[Len(t) + 1] \in Nat
  /\ Metadata!Depths(t)[0] = 0

LEMMA LineMore ==
  ASSUME NEW t \in Seq(Metadata!Lines), NEW x \in Metadata!Lines
  PROVE  Longer(t, x, Append(t, x))
<1> DEFINE r == Append(t, x)  g == Metadata!Depths(t)  h == Metadata!Depths(r)  L == Len(t)
<1>1. /\ r \in Seq(Metadata!Lines) /\ L \in Nat /\ Len(r) = L + 1
      /\ DOMAIN t = 1..L /\ DOMAIN r = 1..(L + 1)
      /\ \A n \in 1..L : r[n] = t[n]
      /\ r[L + 1] = x
  OBVIOUS
<1> HIDE DEF r
<1>2. /\ g \in [0..L -> Nat] /\ g[0] = 0
      /\ \A n \in 1..L : g[n] = Metadata!Nested(g[n - 1], t[n])
  BY DepthsAreNested DEF Deep
<1>3. /\ h \in [0..(L + 1) -> Nat] /\ h[0] = 0
      /\ \A n \in 1..(L + 1) : h[n] = Metadata!Nested(h[n - 1], r[n])
  BY <1>1, DepthsAreNested DEF Deep
<1> HIDE DEF g, h
<1>4. \A n \in 1..L : g[n - 1] = h[n - 1] => g[n] = h[n]
  <2>1. \A n \in 1..L : n \in 1..(L + 1)
    BY <1>1
  <2> QED
    BY <1>1, <1>2, <1>3, <2>1
<1>5. GoOnAlike(g, h, L)
  BY <1>2, <1>3, <1>4 DEF GoOnAlike
<1>6. \A n \in 0..L : g[n] = h[n]
  BY <1>1, <1>5, Alike DEF AreAlike
<1>7. h[L + 1] = Metadata!Nested(g[L], x)
  <2>1. L + 1 \in 1..(L + 1) /\ (L + 1) - 1 = L /\ L \in 0..L
    BY <1>1
  <2> QED
    BY <1>1, <1>3, <1>6, <2>1
<1>8. \A n \in 0..L : g[n] \in Nat /\ h[n] = g[n]
  BY <1>2, <1>6
<1>9. h[L + 1] \in Nat
  <2>1. L + 1 \in 0..(L + 1)
    BY <1>1
  <2> QED
    BY <1>3, <2>1
<1> QED
  BY <1>1, <1>2, <1>7, <1>8, <1>9 DEF Longer, g, h, r

\* Some lines have a last.
LEMMA LastLine ==
  ASSUME NEW L \in Nat, NEW S \in SUBSET (1..L), S # {}
  PROVE  Metadata!Max(S) \in S /\ \A k \in S : k <= Metadata!Max(S)
<1> DEFINE T == {L - k : k \in S}
           P(m) == m \in S /\ \A k \in S : m >= k
<1>1. \A k \in S : k \in Nat /\ k <= L
  OBVIOUS
<1>2. PICK l \in T : \A j \in T : l <= j
  <2>1. \A k \in S : L - k \in Nat
    BY <1>1
  <2>2. T \in SUBSET Nat
    BY <2>1
  <2>3. T # {}
    OBVIOUS
  <2> HIDE DEF T
  <2> QED
    BY <2>2, <2>3, LeastNumber
<1>3. PICK m \in S : l = L - m
  BY <1>2
<1>4. P(m)
  <2>1. \A k \in S : L - k \in T
    OBVIOUS
  <2>2. \A k \in S : L - m <= L - k
    BY <1>2, <1>3, <2>1
  <2> QED
    BY <1>1, <2>2
<1>5. Metadata!Max(S) = CHOOSE k : P(k)
  BY DEF Metadata!Max
<1>6. P(Metadata!Max(S))
  <2> HIDE DEF P
  <2> QED
    BY <1>4, <1>5, Zenon
<1> QED
  BY <1>1, <1>6
\* The fields of earlier lines, and the last of them.
LEMMA EarlierFields ==
  ASSUME NEW t, NEW x, NEW r, Longer(t, x, r),
         NEW a \in Nat \ {0}, NEW b \in 0..Len(t), NEW key, NEW d
  PROVE  Metadata!LastField(r, a, b, key, d) = Metadata!LastField(t, a, b, key, d)
<1> DEFINE S == Metadata!FieldsAt(t, a, b, key, d)
<1>1. Len(t) \in Nat /\ \A n \in a..b : n \in 1..Len(t) /\ n \in 0..Len(t)
  BY DEF Longer
<1>2. Metadata!FieldsAt(r, a, b, key, d) = S
  BY <1>1 DEF Metadata!FieldsAt, Longer
<1>3. S \in SUBSET (1..Len(t))
  BY <1>1 DEF Metadata!FieldsAt
<1> HIDE DEF S
<1>4. S # {} => Metadata!Max(S) \in 1..Len(t)
  BY <1>1, <1>3, LastLine
<1>5. S # {} => r[Metadata!Max(S)] = t[Metadata!Max(S)]
  BY <1>4 DEF Longer
<1> QED
  BY <1>2, <1>5 DEF Metadata!LastField, S

IsField(x, key) == x.kind = "field" /\ x.key = key

\* A line more is the last field, or it is none.
LEMMA NextField ==
  ASSUME NEW t, NEW x, NEW r, Longer(t, x, r), NEW a \in 1..(Len(t) + 1), NEW key, NEW d
  PROVE  Metadata!LastField(r, a, Len(t) + 1, key, d) =
           IF IsField(x, key) /\ Metadata!Depths(r)[Len(t) + 1] = d
           THEN x.value ELSE Metadata!LastField(t, a, Len(t), key, d)
<1> DEFINE L == Len(t)
           R == Metadata!FieldsAt(r, a, L + 1, key, d)
           S == Metadata!FieldsAt(r, a, L, key, d)
<1>1. L \in Nat /\ a \in Nat \ {0} /\ L \in 0..L /\ L + 1 \in a..(L + 1)
  BY DEF Longer
<1>2. Metadata!LastField(r, a, L, key, d) = Metadata!LastField(t, a, L, key, d)
  BY <1>1, EarlierFields
<1>3. \A n \in a..(L + 1) : n = L + 1 \/ n \in a..L
  BY <1>1
<1>4. CASE IsField(x, key) /\ Metadata!Depths(r)[L + 1] = d
  <2>1. L + 1 \in R
    BY <1>1, <1>4 DEF Metadata!FieldsAt, IsField, Longer
  <2>2. \A n \in R : n \in Nat /\ n <= L + 1
    BY <1>1 DEF Metadata!FieldsAt
  <2> HIDE DEF R
  <2>3. Metadata!Max(R) = L + 1
    BY <1>1, <2>1, <2>2 DEF Metadata!Max
  <2>4. Metadata!LastField(r, a, L + 1, key, d) = r[L + 1].value
    BY <2>1, <2>3 DEF Metadata!LastField, R
  <2> QED
    BY <1>4, <2>4 DEF Longer
<1>5. CASE ~ (IsField(x, key) /\ Metadata!Depths(r)[L + 1] = d)
  <2>1. L + 1 \notin R
    BY <1>5 DEF Metadata!FieldsAt, IsField, Longer
  <2>2. R = S
    <3>1. \A n \in a..L : n \in a..(L + 1)
      BY <1>1
    <3> QED
      BY <1>3, <2>1, <3>1 DEF Metadata!FieldsAt
  <2>3. Metadata!LastField(r, a, L + 1, key, d) = Metadata!LastField(r, a, L, key, d)
    BY <2>2 DEF Metadata!LastField
  <2> QED
    BY <1>2, <1>5, <2>3
<1> QED
  BY <1>4, <1>5

\* The message that is open at the end of t opens at line s.
Opened(t, s) ==
  /\ s \in 1..Len(t) /\ Metadata!Depths(t)[s - 1] = 0
  /\ \A n \in s..Len(t) : Metadata!Depths(t)[n] > 0

LEMMA OneIsOpened ==
  ASSUME NEW t, NEW x, NEW r, Longer(t, x, r), NEW s, NEW u, Opened(t, s), Opened(t, u)
  PROVE  s = u
<1>1. s \in Nat /\ u \in Nat /\ s \in 1..Len(t) /\ u \in 1..Len(t) /\ Len(t) \in Nat
  BY DEF Opened, Longer
<1>2. ASSUME NEW i \in 1..Len(t), NEW j \in 1..Len(t), Opened(t, i), Opened(t, j), i < j
      PROVE  FALSE
  <2>1. j - 1 \in i..Len(t)
    BY <1>1, <1>2
  <2> QED
    BY <2>1, <1>2 DEF Opened
<1> QED
  BY <1>1, <1>2

\* Messages of t stay messages, and those that end with the line x were open.
LEMMA MessagesMore ==
  ASSUME NEW t, NEW x, NEW r, Longer(t, x, r)
  PROVE  /\ \A m \in Metadata!Messages(t) :
              m \in Metadata!Messages(r) /\ m[1] \in 1..Len(t) /\ m[2] \in 1..Len(t)
         /\ \A m \in Metadata!Messages(r) :
              \/ m \in Metadata!Messages(t)
              \/ m = <<m[1], Len(t) + 1>> /\ Opened(t, m[1]) /\ Metadata!Depths(r)[Len(t) + 1] = 0
         /\ \A s : Opened(t, s) /\ Metadata!Depths(r)[Len(t) + 1] = 0
                    => <<s, Len(t) + 1>> \in Metadata!Messages(r)
<1> DEFINE L == Len(t)  g == Metadata!Depths(t)  h == Metadata!Depths(r)
<1>1. /\ L \in Nat /\ DOMAIN t = 1..L /\ DOMAIN r = 1..(L + 1)
      /\ \A n \in 0..L : g[n] \in Nat /\ h[n] = g[n]
  BY DEF Longer
<1> HIDE DEF g, h
<1>2. ASSUME NEW m \in Metadata!Messages(t)
      PROVE  m \in Metadata!Messages(r) /\ m[1] \in 1..Len(t) /\ m[2] \in 1..Len(t)
  <2>1. /\ m \in (1..L) \X (1..L) /\ m[1] < m[2] /\ g[m[1] - 1] = 0 /\ g[m[2]] = 0
        /\ \A n \in m[1]..(m[2] - 1) : g[n] > 0
    BY <1>1 DEF Metadata!Messages, g
  <2>2. /\ m \in (1..(L + 1)) \X (1..(L + 1)) /\ m[1] - 1 \in 0..L /\ m[2] \in 0..L
        /\ \A n \in m[1]..(m[2] - 1) : n \in 0..L
    BY <1>1, <2>1
  <2>3. /\ h[m[1] - 1] = 0 /\ h[m[2]] = 0 /\ \A n \in m[1]..(m[2] - 1) : h[n] > 0
    BY <1>1, <2>1, <2>2
  <2> QED
    BY <1>1, <2>1, <2>2, <2>3 DEF Metadata!Messages, h
<1>3. ASSUME NEW m \in Metadata!Messages(r), m \notin Metadata!Messages(t)
      PROVE  m = <<m[1], L + 1>> /\ Opened(t, m[1]) /\ h[L + 1] = 0
  <2>1. /\ m \in (1..(L + 1)) \X (1..(L + 1)) /\ m[1] < m[2] /\ h[m[1] - 1] = 0 /\ h[m[2]] = 0
        /\ \A n \in m[1]..(m[2] - 1) : h[n] > 0
    BY <1>1 DEF Metadata!Messages, h
  <2>2. m[1] \in 1..L /\ m[1] - 1 \in 0..L /\ g[m[1] - 1] = 0
    BY <1>1, <2>1
  <2>3. \A n \in m[1]..(m[2] - 1) : n \in 0..L /\ g[n] > 0
    BY <1>1, <2>1
  <2>4. m[2] = L + 1
    <3> SUFFICES ASSUME m[2] # L + 1
                 PROVE  FALSE
      OBVIOUS
    <3>1. m[2] \in 1..L /\ m[2] \in 0..L /\ m \in (1..L) \X (1..L)
      BY <1>1, <2>1, <2>2
    <3>2. g[m[2]] = 0
      BY <1>1, <2>1, <3>1
    <3>3. m \in Metadata!Messages(t)
      BY <1>1, <2>1, <2>2, <2>3, <3>1, <3>2 DEF Metadata!Messages, g
    <3> QED
      BY <1>3, <3>3
  <2>5. (L + 1) - 1 = L
    BY <1>1
  <2>6. Opened(t, m[1])
    BY <2>2, <2>3, <2>4, <2>5 DEF Opened, g
  <2> QED
    BY <2>1, <2>4, <2>6
<1>4. ASSUME NEW s, Opened(t, s), h[L + 1] = 0
      PROVE  <<s, L + 1>> \in Metadata!Messages(r)
  <2> DEFINE m == <<s, L + 1>>
  <2>1. /\ s \in 1..L /\ g[s - 1] = 0 /\ \A n \in s..L : g[n] > 0
    BY <1>4 DEF Opened, g
  <2>2. m \in (1..(L + 1)) \X (1..(L + 1)) /\ s < L + 1 /\ s - 1 \in 0..L /\ (L + 1) - 1 = L
        /\ \A n \in s..L : n \in 0..L
    BY <1>1, <2>1
  <2>3. h[s - 1] = 0 /\ \A n \in s..((L + 1) - 1) : h[n] > 0
    BY <1>1, <2>1, <2>2
  <2> QED
    BY <1>1, <1>4, <2>2, <2>3 DEF Metadata!Messages, h
<1> QED
  BY <1>2, <1>3, <1>4 DEF h
\* The messages that name something, with a line more.
LEMMA NamedMore ==
  ASSUME NEW t, NEW x, NEW r, Longer(t, x, r), NEW outer, NEW key
  PROVE  /\ \A m \in Metadata!Named(t, outer, key) :
              /\ m \in Metadata!Named(r, outer, key) /\ Metadata!Value(r, m, key) = Metadata!Value(t, m, key)
              /\ m[1] \in 1..Len(t) /\ m[2] \in 1..Len(t) /\ m[1] <= m[2]
              /\ Metadata!Depths(t)[m[2]] = 0
         /\ \A m \in Metadata!Named(r, outer, key) :
              \/ m \in Metadata!Named(t, outer, key)
              \/ /\ m = <<m[1], Len(t) + 1>> /\ Opened(t, m[1])
                 /\ Metadata!Depths(r)[Len(t) + 1] = 0
<1>1. ASSUME NEW m \in Metadata!Messages(t)
      PROVE  /\ Metadata!Value(r, m, key) = Metadata!Value(t, m, key) /\ r[m[1]] = t[m[1]]
             /\ m[1] \in 1..Len(t) /\ m[2] \in 1..Len(t) /\ m[1] <= m[2]
             /\ Metadata!Depths(t)[m[2]] = 0
  <2>1. /\ Len(t) \in Nat /\ m[1] \in 1..Len(t) /\ m[2] \in 1..Len(t) /\ m[1] < m[2]
        /\ Metadata!Depths(t)[m[2]] = 0
    BY DEF Metadata!Messages, Longer
  <2>2. m[1] \in Nat \ {0} /\ m[2] \in 0..Len(t) /\ m[1] <= m[2]
    BY <2>1
  <2>3. Metadata!Value(r, m, key) = Metadata!Value(t, m, key)
    BY <2>2, EarlierFields DEF Metadata!Value
  <2> QED
    BY <2>1, <2>2, <2>3 DEF Longer
<1>2. ASSUME NEW m \in Metadata!Named(t, outer, key)
      PROVE  /\ m \in Metadata!Named(r, outer, key) /\ Metadata!Value(r, m, key) = Metadata!Value(t, m, key)
             /\ m[1] \in 1..Len(t) /\ m[2] \in 1..Len(t) /\ m[1] <= m[2]
             /\ Metadata!Depths(t)[m[2]] = 0
  <2>1. m \in Metadata!Messages(t) /\ t[m[1]].key = outer /\ Metadata!Value(t, m, key) # 0
    BY DEF Metadata!Named
  <2>2. m \in Metadata!Messages(r)
    BY <2>1, MessagesMore
  <2> QED
    BY <1>1, <2>1, <2>2 DEF Metadata!Named
<1>3. ASSUME NEW m \in Metadata!Named(r, outer, key)
      PROVE  \/ m \in Metadata!Named(t, outer, key)
             \/ /\ m = <<m[1], Len(t) + 1>> /\ Opened(t, m[1])
                /\ Metadata!Depths(r)[Len(t) + 1] = 0
  <2>1. m \in Metadata!Messages(r) /\ r[m[1]].key = outer /\ Metadata!Value(r, m, key) # 0
    BY DEF Metadata!Named
  <2>2. CASE m \in Metadata!Messages(t)
    BY <1>1, <2>1, <2>2 DEF Metadata!Named
  <2>3. CASE m \notin Metadata!Messages(t)
    BY <2>1, <2>3, MessagesMore
  <2> QED
    BY <2>2, <2>3
<1> QED
  BY <1>2, <1>3

\* Nothing more is listed for a text that ends no message with a name.
LEMMA ListStays ==
  ASSUME NEW t, NEW x, NEW r, Longer(t, x, r), NEW outer, NEW key, NEW list,
         Metadata!Lists(list, t, outer, key),
         \A m \in Metadata!Named(r, outer, key) : m \in Metadata!Named(t, outer, key)
  PROVE  Metadata!Lists(list, r, outer, key)
<1>1. PICK at \in [DOMAIN list -> Metadata!Named(t, outer, key)] :
        /\ \A m \in Metadata!Named(t, outer, key) : \E i \in DOMAIN list : at[i] = m
        /\ \A i, j \in DOMAIN list : i < j => at[i][2] < at[j][1]
        /\ \A i \in DOMAIN list : list[i] = Metadata!Value(t, at[i], key)
  BY DEF Metadata!Lists
<1>2. \A m \in Metadata!Named(t, outer, key) :
        m \in Metadata!Named(r, outer, key) /\ Metadata!Value(r, m, key) = Metadata!Value(t, m, key)
  BY NamedMore
<1>3. Metadata!Named(r, outer, key) = Metadata!Named(t, outer, key)
  BY <1>2
<1>4. \A i \in DOMAIN list : list[i] = Metadata!Value(r, at[i], key)
  BY <1>1, <1>2
<1> QED
  BY <1>1, <1>3, <1>4 DEF Metadata!Lists

\* The message that the last line ends is listed behind the others.
LEMMA ListGrows ==
  ASSUME NEW t, NEW x, NEW r, Longer(t, x, r), NEW outer, NEW key, NEW V, NEW list \in Seq(V),
         Metadata!Lists(list, t, outer, key),
         NEW s, Opened(t, s), <<s, Len(t) + 1>> \in Metadata!Named(r, outer, key)
  PROVE  Metadata!Lists(Append(list, Metadata!Value(r, <<s, Len(t) + 1>>, key)), r, outer, key)
<1> DEFINE T == Metadata!Named(t, outer, key)
           R == Metadata!Named(r, outer, key)
           W(m) == Metadata!Value(r, m, key)
           k == <<s, Len(t) + 1>>
           n == Len(list) + 1
           more == Append(list, W(k))
<1>1. PICK at \in [DOMAIN list -> T] :
        /\ \A m \in T : \E i \in DOMAIN list : at[i] = m
        /\ \A i, j \in DOMAIN list : i < j => at[i][2] < at[j][1]
        /\ \A i \in DOMAIN list : list[i] = Metadata!Value(t, at[i], key)
  BY DEF Metadata!Lists
<1>2. \A m \in T : m \in R /\ W(m) = Metadata!Value(t, m, key)
  BY NamedMore
<1>3. \A m \in R : m \in T \/ m = k
  <2> SUFFICES ASSUME NEW m \in R, m \notin T
               PROVE  m = k
    OBVIOUS
  <2>1. m = <<m[1], Len(t) + 1>> /\ Opened(t, m[1])
    BY NamedMore
  <2>2. m[1] = s
    BY <2>1, OneIsOpened
  <2> QED
    BY <2>1, <2>2
<1>4. \A m \in T : m[2] < s
  <2> SUFFICES ASSUME NEW m \in T
               PROVE  m[2] < s
    OBVIOUS
  <2>1. m[2] \in 1..Len(t) /\ Metadata!Depths(t)[m[2]] = 0
    <3>1. m \in Metadata!Named(t, outer, key)
      OBVIOUS
    <3> QED
      BY <3>1, NamedMore
  <2>2. s \in 1..Len(t) /\ \A i \in s..Len(t) : Metadata!Depths(t)[i] > 0
    BY DEF Opened
  <2>3. m[2] \notin s..Len(t)
    BY <2>1, <2>2
  <2> QED
    BY <2>1, <2>2, <2>3 DEF Longer
<1>5. /\ DOMAIN list = 1..Len(list) /\ Len(list) \in Nat /\ DOMAIN more = 1..n
      /\ more[n] = W(k) /\ \A i \in 1..Len(list) : more[i] = list[i]
      /\ n \in 1..n /\ \A i \in 1..n : i = n \/ i \in 1..Len(list)
      /\ \A i \in 1..Len(list) : i \in 1..n /\ i # n /\ i < n
  OBVIOUS
<1> DEFINE to == [i \in 1..n |-> IF i = n THEN k ELSE at[i]]
<1>6. k \in R
  OBVIOUS
<1> HIDE DEF T, R, W, more
<1>7. to[n] = k /\ \A i \in 1..Len(list) : to[i] = at[i] /\ at[i] \in T
  BY <1>1, <1>5
<1>8. to \in [DOMAIN more -> R]
  <2>1. \A i \in 1..n : to[i] \in R
    BY <1>2, <1>5, <1>6, <1>7
  <2> QED
    BY <1>5, <2>1
<1> HIDE DEF to
<1>9. \A m \in R : \E i \in DOMAIN more : to[i] = m
  BY <1>1, <1>3, <1>5, <1>7
<1>10. ASSUME NEW i \in DOMAIN more, NEW j \in DOMAIN more, i < j
       PROVE  to[i][2] < to[j][1]
  <2>1. i \in 1..Len(list)
    BY <1>5, <1>10
  <2>2. CASE j = n
    <3>1. to[j][1] = s /\ to[i] = at[i] /\ at[i] \in T
      BY <1>7, <2>1, <2>2 DEF k
    <3> QED
      BY <1>4, <3>1
  <2>3. CASE j # n
    <3>1. j \in 1..Len(list)
      BY <1>5, <2>3
    <3> QED
      BY <1>1, <1>5, <1>7, <1>10, <2>1, <3>1
  <2> QED
    BY <2>2, <2>3
<1>11. ASSUME NEW i \in DOMAIN more
       PROVE  more[i] = W(to[i])
  <2>1. CASE i = n
    BY <1>5, <1>7, <2>1
  <2>2. CASE i # n
    <3>1. i \in 1..Len(list)
      BY <1>5, <2>2
    <3> QED
      BY <1>1, <1>2, <1>5, <1>7, <3>1
  <2> QED
    BY <2>1, <2>2
<1> QED
  BY <1>8, <1>9, <1>10, <1>11 DEF Metadata!Lists, more, R, W
\* A message is open, and what was read of it is kept.
Open(t, s) ==
  /\ Opened(t, s) /\ block = t[s].key
  /\ block = "fonts" => font = Metadata!LastField(t, s, Len(t), "filename", 1)
  /\ block = "axes" => axis = Metadata!LastField(t, s, Len(t), "tag", 1)

TextReads ==
  /\ text \in Seq(Metadata!Lines) /\ depth = Metadata!Depths(text)[Len(text)] /\ depth \in Nat
  /\ depth = 0 => block = "none"
  /\ depth > 0 => \E s : Open(text, s)
TextLists ==
  /\ Metadata!Lists(found.fonts, text, "fonts", "filename")
  /\ Metadata!Lists(found.axes, text, "axes", "tag")
FoundTypes == [fonts : Seq(0..2), axes : Seq(0..2), name : 0..2]
TextTypes ==
  /\ found \in FoundTypes
  /\ font \in 0..2 /\ axis \in 0..2
TextIInv == TextTypes /\ TextReads /\ TextLists /\ Metadata!OwnName

LEMMA InitText == Metadata!Init => TextIInv
<1> SUFFICES ASSUME Metadata!Init
             PROVE  TextIInv
  OBVIOUS
<1>1. /\ text = <<>> /\ depth = 0 /\ block = "none" /\ font = 0 /\ axis = 0
      /\ found = [fonts |-> <<>>, axes |-> <<>>, name |-> 0]
  BY DEF Metadata!Init
<1>2. <<>> \in Seq(0..2) /\ text \in Seq(Metadata!Lines) /\ Len(text) = 0 /\ DOMAIN text = {}
  BY <1>1
<1>3. TextTypes
  BY <1>1, <1>2 DEF TextTypes, FoundTypes
<1>4. TextReads
  <2>1. Metadata!Depths(text)[0] = 0
    BY <1>2, DepthsAreNested DEF Deep
  <2> QED
    BY <1>1, <1>2, <2>1 DEF TextReads
<1>5. ASSUME NEW outer, NEW key
      PROVE  Metadata!Lists(<<>>, text, outer, key)
  <2>1. Metadata!Named(text, outer, key) = {}
    BY <1>2 DEF Metadata!Named, Metadata!Messages
  <2> DEFINE at == [i \in {} |-> 0]
  <2>2. DOMAIN <<>> = {} /\ at \in [DOMAIN <<>> -> Metadata!Named(text, outer, key)]
    BY <2>1
  <2> QED
    BY <2>1, <2>2 DEF Metadata!Lists
<1>6. TextLists
  BY <1>1, <1>5 DEF TextLists
<1>7. Metadata!OwnName
  <2>1. Metadata!FieldsAt(text, 1, Len(text), "name", 0) = {}
    BY <1>2 DEF Metadata!FieldsAt
  <2> QED
    BY <1>1, <2>1 DEF Metadata!OwnName, Metadata!LastField
<1> QED
  BY <1>3, <1>4, <1>6, <1>7 DEF TextIInv

\* What a line does, in one place.
LEMMA LineShape ==
  ASSUME NEW x \in Metadata!Lines
  PROVE  /\ x.value \in 0..2
         /\ x.kind \in {"open", "close", "field"}
         /\ \A key : IsField(x, key) => x.kind = "field"
         /\ \A d \in Nat :
              /\ x.kind = "open" => Metadata!Nested(d, x) = d + 1
              /\ x.kind = "close" => Metadata!Nested(d, x) = Metadata!Closed(d)
              /\ x.kind = "field" => Metadata!Nested(d, x) = d
<1>1. x.value \in 0..2 /\ x.kind \in {"open", "close", "field"}
  BY DEF Metadata!Lines, Metadata!Open, Metadata!Close, Metadata!Field
<1> QED
  BY <1>1 DEF IsField, Metadata!Nested
\* A message that is open stays open until the depth is zero again, and one
\* that opens at the depth zero is the open one.
LEMMA OpenedMore ==
  ASSUME NEW t, NEW x, NEW r, Longer(t, x, r), Metadata!Depths(r)[Len(t) + 1] > 0
  PROVE  /\ \A s : Opened(t, s) => Opened(r, s) /\ r[s].key = t[s].key
         /\ Metadata!Depths(t)[Len(t)] = 0 => Opened(r, Len(t) + 1)
<1>1. Len(t) \in Nat /\ Len(r) = Len(t) + 1 /\ Len(t) \in 0..Len(t) /\ (Len(t) + 1) - 1 = Len(t)
  BY DEF Longer
<1>2. ASSUME NEW s, Opened(t, s)
      PROVE  Opened(r, s) /\ r[s].key = t[s].key
  <2>1. /\ s \in 1..Len(t) /\ Metadata!Depths(t)[s - 1] = 0
        /\ \A n \in s..Len(t) : Metadata!Depths(t)[n] > 0
    BY <1>2 DEF Opened
  <2>2. /\ s \in 1..Len(r) /\ s - 1 \in 0..Len(t)
        /\ \A n \in s..Len(r) : n = Len(t) + 1 \/ (n \in s..Len(t) /\ n \in 0..Len(t))
    BY <1>1, <2>1
  <2>3. Metadata!Depths(r)[s - 1] = 0 /\ \A n \in s..Len(r) : Metadata!Depths(r)[n] > 0
    BY <2>1, <2>2 DEF Longer
  <2> QED
    BY <2>1, <2>2, <2>3 DEF Opened, Longer
<1>3. ASSUME Metadata!Depths(t)[Len(t)] = 0
      PROVE  Opened(r, Len(t) + 1)
  <2>1. Metadata!Depths(r)[Len(t)] = 0
    BY <1>1, <1>3 DEF Longer
  <2>2. Len(t) + 1 \in 1..Len(r) /\ \A n \in (Len(t) + 1)..Len(r) : n = Len(t) + 1
    BY <1>1
  <2> QED
    BY <1>1, <2>1, <2>2 DEF Opened
<1> QED
  BY <1>2, <1>3

\* A message ends only with a "}" at the depth one.
LEMMA NothingEnds ==
  ASSUME NEW t, NEW x, NEW r, Longer(t, x, r), ~ (x.kind = "close" /\ Metadata!Depths(t)[Len(t)] = 1),
         NEW outer, NEW key, NEW m \in Metadata!Named(r, outer, key)
  PROVE  m \in Metadata!Named(t, outer, key)
<1> SUFFICES ASSUME m \notin Metadata!Named(t, outer, key)
             PROVE  FALSE
  OBVIOUS
<1> DEFINE d == Metadata!Depths(t)[Len(t)]
<1>1. Opened(t, m[1]) /\ Metadata!Depths(r)[Len(t) + 1] = 0
  BY NamedMore
<1>2. Len(t) \in Nat /\ Len(t) \in 0..Len(t) /\ x \in Metadata!Lines
  BY DEF Longer
<1>3. d \in Nat /\ Metadata!Nested(d, x) = 0
  BY <1>1, <1>2 DEF Longer
<1>4. d > 0
  <2>1. Len(t) \in m[1]..Len(t)
    BY <1>1, <1>2 DEF Opened
  <2> QED
    BY <1>1, <2>1 DEF Opened
<1> HIDE DEF d
<1>5. x.kind = "close"
  BY <1>2, <1>3, <1>4, LineShape
<1>6. d = 1
  <2>1. Metadata!Closed(d) = 0
    BY <1>2, <1>3, <1>5, LineShape
  <2> QED
    BY <1>3, <1>4, <2>1 DEF Metadata!Closed
<1> QED
  BY <1>5, <1>6 DEF d

\* The reader reads the line x.
Reads(x) ==
  /\ TextIInv /\ x \in Metadata!Lines /\ Metadata!ReadLine(x) /\ Longer(text, x, text')

\* What is taken of a message that ends.
LEMMA TakenShape ==
  ASSUME found \in FoundTypes, NEW f \in 0..2, NEW a \in 0..2
  PROVE  /\ Metadata!Taken(f, a) \in FoundTypes
         /\ Metadata!Taken(f, a).name = found.name
         /\ Metadata!Taken(f, a).fonts =
              IF block = "fonts" /\ f # 0 THEN Append(found.fonts, f) ELSE found.fonts
         /\ Metadata!Taken(f, a).axes =
              IF block = "axes" /\ a # 0 THEN Append(found.axes, a) ELSE found.axes
<1> DEFINE F == IF block = "fonts" /\ f # 0 THEN Append(found.fonts, f) ELSE found.fonts
           A == IF block = "axes" /\ a # 0 THEN Append(found.axes, a) ELSE found.axes
<1>1. found.fonts \in Seq(0..2) /\ found.axes \in Seq(0..2) /\ found.name \in 0..2
  BY DEF FoundTypes
<1>2. F \in Seq(0..2) /\ A \in Seq(0..2)
  BY <1>1
<1>3. Metadata!Taken(f, a) = [found EXCEPT !.fonts = F, !.axes = A]
  BY DEF Metadata!Taken
<1> HIDE DEF F, A
<1>4. [found EXCEPT !.fonts = F, !.axes = A] \in FoundTypes
  BY <1>2 DEF FoundTypes
<1>5. /\ Metadata!Taken(f, a).fonts = F /\ Metadata!Taken(f, a).axes = A
      /\ Metadata!Taken(f, a).name = found.name
  BY <1>3 DEF FoundTypes
<1> QED
  BY <1>3, <1>4, <1>5 DEF F, A

LEMMA ReadsTypes ==
  ASSUME NEW x, Reads(x)
  PROVE  TextTypes'
<1>1. /\ x.value \in 0..2 /\ font \in 0..2 /\ axis \in 0..2
      /\ found \in FoundTypes
  BY LineShape DEF Reads, TextIInv, TextTypes
<1>2. Metadata!Taken(font, axis) \in FoundTypes
  BY <1>1, TakenShape
<1>3. [found EXCEPT !.name = x.value] \in FoundTypes
  BY <1>1 DEF FoundTypes
<1>4. Metadata!Opens(x) \/ Metadata!Closes(x) \/ Metadata!Sets(x)
  BY DEF Reads, Metadata!ReadLine
<1>5. font' \in 0..2 /\ axis' \in 0..2
  BY <1>1, <1>4 DEF Metadata!Opens, Metadata!Closes, Metadata!Sets, Metadata!Fields
<1>6. found' \in FoundTypes
  BY <1>1, <1>2, <1>3, <1>4 DEF Metadata!Opens, Metadata!Closes, Metadata!Sets, Metadata!Fields
<1> QED
  BY <1>5, <1>6 DEF TextTypes

\* The depth is that of the text.
LEMMA ReadsDepth ==
  ASSUME NEW x, Reads(x)
  PROVE  /\ depth = Metadata!Depths(text)[Len(text)] /\ depth \in Nat
         /\ depth' = Metadata!Depths(text')[Len(text) + 1] /\ Len(text') = Len(text) + 1
         /\ depth' = Metadata!Nested(depth, x) /\ depth' \in Nat
         /\ text' \in Seq(Metadata!Lines)
<1>1. depth \in Nat /\ depth = Metadata!Depths(text)[Len(text)] /\ x \in Metadata!Lines
  BY DEF Reads, TextIInv, TextReads
<1>2. depth' = Metadata!Nested(depth, x)
  <2>1. \/ x.kind = "open" /\ depth' = depth + 1
        \/ x.kind = "close" /\ depth' = Metadata!Closed(depth)
        \/ x.kind = "field" /\ depth' = depth
    BY DEF Reads, Metadata!ReadLine, Metadata!Opens, Metadata!Closes, Metadata!Sets, Metadata!Fields
  <2> QED
    BY <1>1, <2>1, LineShape
<1> QED
  BY <1>1, <1>2 DEF Reads, Longer
\* What the reader knows of an open message is what stands in it.
LEMMA ReadsOpen ==
  ASSUME NEW x, Reads(x)
  PROVE  TextReads'
<1> DEFINE r == text'  L == Len(text)
<1>1. /\ depth = Metadata!Depths(text)[L] /\ depth \in Nat
      /\ depth' = Metadata!Depths(r)[L + 1] /\ Len(r) = L + 1
      /\ depth' = Metadata!Nested(depth, x) /\ depth' \in Nat /\ r \in Seq(Metadata!Lines)
  BY ReadsDepth
<1>2. /\ Longer(text, x, r) /\ x \in Metadata!Lines
      /\ x.kind \in {"open", "close", "field"}
      /\ depth = 0 => block = "none"
      /\ depth > 0 => \E s : Open(text, s)
  BY LineShape DEF Reads, TextIInv, TextReads
<1>3. /\ x.kind = "open" => Metadata!Opens(x) /\ depth' = depth + 1
      /\ x.kind = "close" => Metadata!Closes(x) /\ depth' = Metadata!Closed(depth)
      /\ x.kind = "field" => Metadata!Sets(x) /\ depth' = depth
  BY DEF Reads, Metadata!ReadLine, Metadata!Opens, Metadata!Closes, Metadata!Sets, Metadata!Fields
<1>4. L \in Nat /\ r[L + 1] = x
  BY <1>2 DEF Longer
<1>5. depth' = 0 => block' = "none"
  <2>1. CASE x.kind = "open"
    BY <1>1, <1>3, <2>1
  <2>2. CASE x.kind = "close"
    BY <1>1, <1>3, <2>2 DEF Metadata!Closes, Metadata!Closed
  <2>3. CASE x.kind = "field"
    BY <1>2, <1>3, <2>3 DEF Metadata!Sets, Metadata!Fields
  <2> QED
    BY <1>2, <2>1, <2>2, <2>3
<1>6. ASSUME depth' > 0
      PROVE  \E s : Open(text, s)'
  <2>1. CASE depth = 0
    <3>1. x.kind = "open"
      BY <1>1, <1>2, <1>3, <1>6, <2>1 DEF Metadata!Closed
    <3>2. block' = x.key /\ font' = 0 /\ axis' = 0
      BY <1>3, <2>1, <3>1 DEF Metadata!Opens
    <3>3. Opened(r, L + 1)
      BY <1>1, <1>2, <1>6, <2>1, OpenedMore
    <3>4. ASSUME NEW key
          PROVE  Metadata!LastField(r, L + 1, L + 1, key, 1) = 0
      <4>1. ~ IsField(x, key)
        BY <3>1 DEF IsField
      <4>2. L + 1 \in 1..(L + 1)
        BY <1>4
      <4>3. Metadata!LastField(r, L + 1, L + 1, key, 1) = Metadata!LastField(text, L + 1, L, key, 1)
        BY <1>2, <4>1, <4>2, NextField
      <4>4. Metadata!FieldsAt(text, L + 1, L, key, 1) = {}
        BY <1>4 DEF Metadata!FieldsAt
      <4> QED
        BY <4>3, <4>4 DEF Metadata!LastField
    <3>5. PICK k \in Nat : k = L + 1
      BY <1>4
    <3>6. /\ Opened(r, k) /\ block' = r[k].key /\ Len(r) = k
          /\ Metadata!LastField(r, k, k, "filename", 1) = font'
          /\ Metadata!LastField(r, k, k, "tag", 1) = axis'
      BY <1>1, <1>4, <3>2, <3>3, <3>4, <3>5
    <3>7. Open(text, k)'
      BY <3>6 DEF Open
    <3> QED
      BY <3>7
  <2>2. \A u : Opened(text, u) => Opened(r, u) /\ r[u].key = text[u].key
    <3>1. Metadata!Depths(r)[L + 1] > 0
      BY <1>1, <1>6
    <3> QED
      BY <1>2, <3>1, OpenedMore
  <2>3. CASE depth > 0
    <3>1. PICK s : Open(text, s)
      BY <1>2, <2>3
    <3>2. Opened(text, s) /\ Opened(r, s) /\ r[s].key = text[s].key
      <4>1. Opened(text, s)
        BY <3>1 DEF Open
      <4> QED
        BY <4>1, <2>2
    <3>3. s \in 1..(L + 1)
      BY <1>4, <3>2 DEF Opened
    <3>4. \A key : Metadata!LastField(r, s, L + 1, key, 1) =
                     IF IsField(x, key) /\ depth' = 1 THEN x.value ELSE Metadata!LastField(text, s, L, key, 1)
      <4> SUFFICES ASSUME NEW key
                   PROVE  Metadata!LastField(r, s, L + 1, key, 1) =
                            IF IsField(x, key) /\ depth' = 1 THEN x.value ELSE Metadata!LastField(text, s, L, key, 1)
        OBVIOUS
      <4>1. Metadata!LastField(r, s, L + 1, key, 1) =
              IF IsField(x, key) /\ Metadata!Depths(r)[L + 1] = 1 THEN x.value
              ELSE Metadata!LastField(text, s, L, key, 1)
        BY <1>2, <3>3, NextField
      <4> QED
        BY <1>1, <4>1
    <3>5. block' = block
      BY <1>1, <1>2, <1>3, <1>6, <2>3
      DEF Metadata!Opens, Metadata!Closes, Metadata!Sets, Metadata!Fields, Metadata!Closed
    <3>6. /\ block = text[s].key
          /\ block = "fonts" => font = Metadata!LastField(text, s, L, "filename", 1)
          /\ block = "axes" => axis = Metadata!LastField(text, s, L, "tag", 1)
      BY <3>1 DEF Open
    <3>7. CASE x.kind = "field"
      <4>1. /\ font' = IF depth = 1 /\ block = "fonts" /\ x.key = "filename" THEN x.value ELSE font
            /\ axis' = IF depth = 1 /\ block = "axes" /\ x.key = "tag" THEN x.value ELSE axis
            /\ depth' = depth
        BY <1>3, <3>7 DEF Metadata!Sets, Metadata!Fields
      <4>2. block = "fonts" => font' = Metadata!LastField(r, s, L + 1, "filename", 1)
        BY <3>4, <3>6, <3>7, <4>1 DEF IsField
      <4>3. block = "axes" => axis' = Metadata!LastField(r, s, L + 1, "tag", 1)
        BY <3>4, <3>6, <3>7, <4>1 DEF IsField
      <4> QED
        BY <1>1, <3>2, <3>5, <3>6, <4>2, <4>3 DEF Open
    <3>8. CASE x.kind # "field"
      <4>1. font' = font /\ axis' = axis
        BY <1>1, <1>2, <1>3, <1>6, <2>3, <3>8
        DEF Metadata!Opens, Metadata!Closes, Metadata!Closed
      <4>2. \A key : Metadata!LastField(r, s, L + 1, key, 1) = Metadata!LastField(text, s, L, key, 1)
        BY <3>4, <3>8 DEF IsField
      <4>3. block = "fonts" => font' = Metadata!LastField(r, s, L + 1, "filename", 1)
        BY <3>6, <4>1, <4>2
      <4>4. block = "axes" => axis' = Metadata!LastField(r, s, L + 1, "tag", 1)
        BY <3>6, <4>1, <4>2
      <4> QED
        BY <1>1, <3>2, <3>5, <3>6, <4>3, <4>4 DEF Open
    <3> QED
      BY <3>7, <3>8
  <2> QED
    BY <1>1, <2>1, <2>3
<1> QED
  BY <1>1, <1>5, <1>6 DEF TextReads
\* A block that ends is listed if it names something, and nothing else is.
LEMMA ReadsList ==
  ASSUME NEW x, Reads(x), NEW outer, NEW key, NEW list \in Seq(0..2), NEW more, NEW value \in 0..2,
         Metadata!Lists(list, text, outer, key),
         outer \in {"fonts", "axes"},
         \A s : Open(text, s) /\ block = outer => value = Metadata!LastField(text, s, Len(text), key, 1),
         more = IF x.kind = "close" /\ depth <= 1 /\ block = outer /\ value # 0
                THEN Append(list, value) ELSE list
  PROVE  Metadata!Lists(more, text', outer, key)
<1> DEFINE r == text'  L == Len(text)
<1>1. /\ depth = Metadata!Depths(text)[L] /\ depth \in Nat
      /\ depth' = Metadata!Depths(r)[L + 1] /\ depth' = Metadata!Nested(depth, x)
  BY ReadsDepth
<1>2. /\ Longer(text, x, r) /\ x \in Metadata!Lines
      /\ depth = 0 => block = "none"
      /\ depth > 0 => \E s : Open(text, s)
  BY DEF Reads, TextIInv, TextReads
<1>3. CASE ~ (x.kind = "close" /\ depth = 1)
  <2>1. more = list
    BY <1>1, <1>2, <1>3
  <2>2. \A m \in Metadata!Named(r, outer, key) : m \in Metadata!Named(text, outer, key)
    BY <1>1, <1>2, <1>3, NothingEnds
  <2> QED
    BY <1>2, <2>1, <2>2, ListStays
<1>4. CASE x.kind = "close" /\ depth = 1
  <2>1. PICK s : Open(text, s)
    BY <1>2, <1>4
  <2> DEFINE k == <<s, L + 1>>
  <2>2. Opened(text, s) /\ block = text[s].key
    BY <2>1 DEF Open
  <2>3. Metadata!Depths(r)[L + 1] = 0
    <3>1. Metadata!Nested(depth, x) = Metadata!Closed(depth)
      BY <1>1, <1>2, <1>4, LineShape
    <3> QED
      BY <1>1, <1>4, <3>1 DEF Metadata!Closed
  <2>4. k \in Metadata!Messages(r) /\ r[s].key = block
    <3>1. k \in Metadata!Messages(r)
      BY <1>2, <2>2, <2>3, MessagesMore
    <3>2. s \in 1..L
      BY <2>2 DEF Opened
    <3> QED
      BY <1>2, <2>2, <3>1, <3>2 DEF Longer
  <2>5. Metadata!Value(r, k, key) = Metadata!LastField(text, s, L, key, 1)
    <3>1. L \in Nat /\ s \in 1..L
      BY <1>2, <2>2 DEF Opened, Longer
    <3>2. s \in 1..(L + 1) /\ ~ IsField(x, key)
      BY <1>4, <3>1 DEF IsField
    <3>3. Metadata!LastField(r, s, L + 1, key, 1) = Metadata!LastField(text, s, L, key, 1)
      BY <1>2, <3>2, NextField
    <3> QED
      BY <3>3 DEF Metadata!Value
  <2>6. block = outer => Metadata!Value(r, k, key) = value
    BY <2>1, <2>5
  <2>7. CASE block = outer /\ value # 0
    <3>1. k \in Metadata!Named(r, outer, key)
      BY <2>4, <2>6, <2>7 DEF Metadata!Named
    <3>2. more = Append(list, Metadata!Value(r, k, key))
      BY <1>4, <2>6, <2>7
    <3> QED
      BY <1>2, <2>2, <3>1, <3>2, ListGrows
  <2>8. CASE ~ (block = outer /\ value # 0)
    <3>1. k \notin Metadata!Named(r, outer, key)
      BY <2>4, <2>6, <2>8 DEF Metadata!Named
    <3>2. ASSUME NEW m \in Metadata!Named(r, outer, key), m \notin Metadata!Named(text, outer, key)
          PROVE  FALSE
      <4>1. m = <<m[1], L + 1>> /\ Opened(text, m[1])
        BY <1>2, <3>2, NamedMore
      <4>2. m[1] = s
        BY <1>2, <2>2, <4>1, OneIsOpened
      <4> QED
        BY <3>1, <3>2, <4>1, <4>2
    <3>3. \A m \in Metadata!Named(r, outer, key) : m \in Metadata!Named(text, outer, key)
      BY <3>2
    <3>4. more = list
      BY <2>8
    <3> QED
      BY <1>2, <3>3, <3>4, ListStays
  <2> QED
    BY <2>7, <2>8
<1> QED
  BY <1>3, <1>4

LEMMA ReadsLists ==
  ASSUME NEW x, Reads(x)
  PROVE  TextLists'
<1>1. /\ found \in FoundTypes /\ font \in 0..2 /\ axis \in 0..2 /\ depth \in Nat
      /\ Metadata!Lists(found.fonts, text, "fonts", "filename")
      /\ Metadata!Lists(found.axes, text, "axes", "tag")
  BY DEF Reads, TextIInv, TextTypes, TextReads, TextLists
<1>2. found.fonts \in Seq(0..2) /\ found.axes \in Seq(0..2)
  BY <1>1 DEF FoundTypes
<1>3. /\ x.kind = "open" => found' = found
      /\ x.kind = "close" => found' = IF depth <= 1 THEN Metadata!Taken(font, axis) ELSE found
      /\ x.kind = "field" => found' = found \/ found' = [found EXCEPT !.name = x.value]
  BY DEF Reads, Metadata!ReadLine, Metadata!Opens, Metadata!Closes, Metadata!Sets
<1>4. x.kind \in {"open", "close", "field"}
  BY LineShape DEF Reads
<1>5. /\ [found EXCEPT !.name = x.value].fonts = found.fonts
      /\ [found EXCEPT !.name = x.value].axes = found.axes
  BY <1>1 DEF FoundTypes
<1>6. found'.fonts = IF x.kind = "close" /\ depth <= 1 /\ block = "fonts" /\ font # 0
                     THEN Append(found.fonts, font) ELSE found.fonts
  BY <1>1, <1>3, <1>4, <1>5, TakenShape
<1>7. found'.axes = IF x.kind = "close" /\ depth <= 1 /\ block = "axes" /\ axis # 0
                    THEN Append(found.axes, axis) ELSE found.axes
  BY <1>1, <1>3, <1>4, <1>5, TakenShape
<1>8. \A s : Open(text, s) /\ block = "fonts" =>
              font = Metadata!LastField(text, s, Len(text), "filename", 1)
  BY DEF Open
<1>9. \A s : Open(text, s) /\ block = "axes" =>
              axis = Metadata!LastField(text, s, Len(text), "tag", 1)
  BY DEF Open
<1>10. Metadata!Lists(found'.fonts, text', "fonts", "filename")
  BY <1>1, <1>2, <1>6, <1>8, ReadsList
<1>11. Metadata!Lists(found'.axes, text', "axes", "tag")
  BY <1>1, <1>2, <1>7, <1>9, ReadsList
<1> QED
  BY <1>10, <1>11 DEF TextLists

\* The name is that of the last line which sets one outside of any message.
LEMMA ReadsName ==
  ASSUME NEW x, Reads(x)
  PROVE  Metadata!OwnName'
<1> DEFINE L == Len(text)
<1>1. /\ depth = Metadata!Depths(text)[L] /\ depth \in Nat /\ Len(text') = L + 1
      /\ depth' = Metadata!Depths(text')[L + 1] /\ depth' = Metadata!Nested(depth, x)
  BY ReadsDepth
<1>2. /\ Longer(text, x, text') /\ x \in Metadata!Lines /\ x.kind \in {"open", "close", "field"}
      /\ found \in FoundTypes /\ font \in 0..2 /\ axis \in 0..2
      /\ found.name = Metadata!LastField(text, 1, L, "name", 0)
  BY LineShape DEF Reads, TextIInv, TextTypes, Metadata!OwnName
<1>3. Metadata!LastField(text', 1, L + 1, "name", 0) =
        IF IsField(x, "name") /\ depth' = 0 THEN x.value ELSE found.name
  <2>1. 1 \in 1..(L + 1)
    BY <1>2 DEF Longer
  <2>2. Metadata!LastField(text', 1, L + 1, "name", 0) =
          IF IsField(x, "name") /\ Metadata!Depths(text')[L + 1] = 0 THEN x.value
          ELSE Metadata!LastField(text, 1, L, "name", 0)
    BY <1>2, <2>1, NextField
  <2> QED
    BY <1>1, <1>2, <2>2
<1>4. found'.name = IF IsField(x, "name") /\ depth' = 0 THEN x.value ELSE found.name
  <2>1. CASE x.kind = "field"
    <3>1. found' = (IF depth = 0 /\ x.key = "name" THEN [found EXCEPT !.name = x.value] ELSE found)
          /\ depth' = depth
      BY <2>1 DEF Reads, Metadata!ReadLine, Metadata!Sets, Metadata!Fields
    <3>2. [found EXCEPT !.name = x.value].name = x.value
      BY <1>2 DEF FoundTypes
    <3> QED
      BY <2>1, <3>1, <3>2 DEF IsField
  <2>2. CASE x.kind # "field"
    <3>1. found' = found \/ found' = Metadata!Taken(font, axis)
      BY <2>2 DEF Reads, Metadata!ReadLine, Metadata!Opens, Metadata!Closes
    <3> QED
      BY <1>2, <2>2, <3>1, TakenShape DEF IsField
  <2> QED
    BY <2>1, <2>2
<1> QED
  BY <1>1, <1>3, <1>4 DEF Metadata!OwnName

LEMMA NextText == TextIInv /\ Metadata!Next => TextIInv'
<1> SUFFICES ASSUME TextIInv, NEW x \in Metadata!Lines, Metadata!ReadLine(x)
             PROVE  TextIInv'
  BY DEF Metadata!Next
<1>1. text \in Seq(Metadata!Lines) /\ text' = Append(text, x)
  BY DEF TextIInv, TextReads, Metadata!ReadLine
<1>2. Longer(text, x, text')
  BY <1>1, LineMore
<1>3. Reads(x)
  BY <1>2 DEF Reads
<1> QED
  BY <1>3, ReadsTypes, ReadsOpen, ReadsLists, ReadsName DEF TextIInv

LEMMA StillText == TextIInv /\ UNCHANGED textVars => TextIInv'
BY DEF TextIInv, TextTypes, TextReads, TextLists, Open, Metadata!OwnName, textVars

\* What the runs check of it.
LEMMA TextIsRead == TextIInv => Metadata!FindsAll /\ Metadata!OwnName
BY DEF TextIInv, TextLists, Metadata!FindsAll

-----------------------------------------------------------------------------
(* The parts together *)

Rendering == part \in {"renders", "recycled"}

CdpInv == Rendering => CdpIInv
ShotInv == part = "shots" => ShotIInv
FontInv == part = "fonts" => FontIInv
IconInv == part = "icons" => IconIInv
GateInv == part = "gate" => GateIInv
QueryInv == part = "query" => QueryIInv
TextInv == part = "metadata" => TextIInv
Counts == part \in {"workers", "figures"}
StatInv == Counts => StatIInv

\* No step changes the part, and a step of a part is one of its component or
\* leaves that alone.
LEMMA PartSteps ==
  ASSUME [Next]_vars
  PROVE  /\ part' = part
         /\ Rendering => Chromium!Next \/ UNCHANGED cdpVars
         /\ part = "shots" => Shots!Next \/ UNCHANGED shotVars
         /\ part = "fonts" => Clone!Next \/ UNCHANGED fontVars
         /\ part = "icons" => Icons!Next \/ UNCHANGED iconVars
         /\ part = "gate" => Gate!Next \/ UNCHANGED gateVars
         /\ part = "query" => Query!Next \/ UNCHANGED query
         /\ part = "metadata" => Metadata!Next \/ UNCHANGED textVars
         /\ Counts => Counting!Next \/ UNCHANGED statVars
<1>1. CASE Rendering /\ InCdp(Chromium!Next)
  BY <1>1 DEF InCdp, Rendering, Counts
<1>2. CASE InShots(Shots!Next)
  BY <1>2 DEF InShots, Rendering, Counts
<1>3. CASE InFonts(Clone!Next)
  BY <1>3 DEF InFonts, Rendering, Counts
<1>4. CASE InIcons(Icons!Next)
  BY <1>4 DEF InIcons, Rendering, Counts
<1>5. CASE InGate(Gate!Next)
  BY <1>5 DEF InGate, Rendering, Counts
<1>6. CASE InQuery(Query!Next)
  BY <1>6 DEF InQuery, Rendering, Counts
<1>7. CASE InText(Metadata!Next)
  BY <1>7 DEF InText, Rendering, Counts
<1>8. CASE Counts /\ InStats(Counting!Next)
  BY <1>8 DEF InStats, Rendering, Counts
<1>9. CASE UNCHANGED vars
  BY <1>9 DEF vars, Counts
<1> QED
  BY <1>1, <1>2, <1>3, <1>4, <1>5, <1>6, <1>7, <1>8, <1>9 DEF Next, Rendering, Counts

LEMMA InitParts ==
  Init => CdpInv /\ ShotInv /\ FontInv /\ IconInv /\ GateInv /\ QueryInv /\ TextInv
          /\ StatInv
BY InitCdp, InitShots, InitFonts, InitIcons, InitGate, InitQuery, InitText, InitStat
DEF Init, CdpInv, ShotInv, FontInv, IconInv, GateInv, QueryInv, TextInv, StatInv, Rendering, Counts

LEMMA NextCdpInv == CdpInv /\ [Next]_vars => CdpInv'
BY PartSteps, NextCdp, StillCdp DEF CdpInv, Rendering

LEMMA NextShotInv == ShotInv /\ [Next]_vars => ShotInv'
BY PartSteps, NextShots, StillShots DEF ShotInv

LEMMA NextFontInv == FontInv /\ [Next]_vars => FontInv'
BY PartSteps, NextFonts, StillFonts DEF FontInv

LEMMA NextIconInv == IconInv /\ [Next]_vars => IconInv'
BY PartSteps, NextIcons, StillIcons DEF IconInv

LEMMA NextGateInv == GateInv /\ [Next]_vars => GateInv'
BY PartSteps, NextGate, StillGate DEF GateInv

LEMMA NextQueryInv == QueryInv /\ [Next]_vars => QueryInv'
BY PartSteps, NextQuery, StillQuery DEF QueryInv

LEMMA NextTextInv == TextInv /\ [Next]_vars => TextInv'
BY PartSteps, NextText, StillText DEF TextInv

LEMMA NextStatInv == StatInv /\ [Next]_vars => StatInv'
BY PartSteps, StatIInvStep DEF StatInv, Counts

-----------------------------------------------------------------------------
(* The theorems *)

\* An answer of Chromium reaches the call it is for and no other, and no render
\* waits for a load event that has passed (cdp_actor, wait_event).
THEOREM AnswersReachTheirCalls == Spec => []AnswersReachCalls
<1>1. CdpInv => AnswersReachCalls
  BY AnswersReach DEF CdpInv, Rendering, AnswersReachCalls
<1> QED
  BY <1>1, InitParts, NextCdpInv, PTL DEF Spec

\* Browsers render little more than their share, one that is left behind has
\* rendered its share or nothing, its contexts are no more than its renders, and
\* what is cached is not rendered again by all who waited (chrome_client, shot,
\* ShotContextGuard::drop).
THEOREM BrowsersStayBounded == Spec => []BrowsersBounded
<1>1. ShotInv => BrowsersBounded
  BY BrowsersAreBounded DEF ShotInv, BrowsersBounded
<1> QED
  BY <1>1, InitParts, NextShotInv, PTL DEF Spec

\* Requests that come at once do not each replace the managed browser: it is
\* closed, or has rendered its share (chrome_client).
THEOREM SpentBrowsersAreReplaced == Spec => ReplacedOnlyWhenSpent
<1>1. ShotInv /\ [Next]_vars => (part = "shots" => Shots!ReplacedOnlyWhenSpent)
  BY PartSteps, ReplacesShots DEF ShotInv, shotVars, Shots!ReplacedOnlyWhenSpent
<1> QED
  BY <1>1, InitParts, NextShotInv, PTL DEF Spec, ReplacedOnlyWhenSpent

\* The index lists the families that pulls left alone since the load that made
\* it, each where it is and with its files (FontIndex::load), and the metadata
\* of a family names the files and axes of its outermost blocks, in their order,
\* and the family itself (parse_font_metadata).
THEOREM FontsAreFound == Spec => []FontsFound
<1>1. FontInv /\ TextInv => FontsFound
  BY FontsAreListed, TextIsRead DEF FontInv, TextInv, FontsFound
<1> QED
  BY <1>1, InitParts, NextFontInv, NextTextInv, PTL DEF Spec

\* A path that a search returned is served, unless a pull changed its family
\* after the load that listed it began (fonts_search, font_file).
THEOREM ListedFontsAreServed == Spec => ListedIsServed
<1>1. FontInv /\ [Next]_vars => (part = "fonts" => Clone!ListedIsServed)
  <2> SUFFICES ASSUME FontInv, [Next]_vars, part = "fonts"
               PROVE  Clone!ListedIsServed
    OBVIOUS
  <2>1. CASE Clone!Next
    BY <2>1, ServesFonts DEF FontInv
  <2>2. CASE UNCHANGED fontVars
    BY <2>2 DEF fontVars, Clone!ListedIsServed
  <2> QED
    BY <2>1, <2>2, PartSteps
<1> QED
  BY <1>1, InitParts, NextFontInv, PTL DEF Spec, ListedIsServed

\* A fetch during which the site did not change stores an inline image, or what
\* is accepted first in the order of the page, and a miss only where the site has
\* no icon (fetch_favicon).
THEOREM FetchesFindIcons == Spec => []FetchFindsIcon
<1>1. IconInv => FetchFindsIcon
  BY IconsAreFound DEF IconInv, FetchFindsIcon
<1> QED
  BY <1>1, InitParts, NextIconInv, PTL DEF Spec

\* The level of a token is the number of zero bits its digest ends with, a name
\* is looked up only for a digest that ends with enough of them, and a picture
\* that is drawn is neither empty nor too large (pow_trailing_zero_bits, shot).
THEOREM GateIsExact == Spec => []GateHolds
<1>1. GateInv => GateHolds
  BY GateIsKept DEF GateInv, GateHolds
<1> QED
  BY <1>1, InitParts, NextGateInv, PTL DEF Spec

\* A callback's target gets all its parameters but the first at, at a trampoline
\* as at an alias, a challenge that was answered is not answered otherwise for
\* a parameter more, and only parameters of one kind need an order
\* (callback_target, append_query_params, websub_challenge, meta_challenge).
THEOREM QueriesAreReadAlike == Spec => []QueriesAgree
<1>1. QueryInv => QueriesAgree
  BY QueriesAreRead DEF QueryInv, QueriesAgree
<1> QED
  BY <1>1, InitParts, NextQueryInv, PTL DEF Spec

\* An event is counted once or dropped, whatever fails and wherever a server
\* stops; a day has what its hours have; workers never wait for each other's
\* rows in a circle; and the figures of one load agree although batches are
\* committed between its queries (record_stat_soon, stats_worker,
\* record_stat_batch, load_stats).
THEOREM StatisticsAddUp == Spec => []StatsAddUp
<1>1. StatInv => StatsAddUp
  BY StatIInvShows DEF StatInv, StatsAddUp, Counts
<1> QED
  BY <1>1, InitParts, NextStatInv, PTL DEF Spec
=============================================================================
