-------------------------------- MODULE Shot ---------------------------------
(***************************************************************************)
(* GET /shot of one instance: the cache of rendered pages in PostgreSQL,   *)
(* the permits that bound concurrent renders, and the managed Chromium     *)
(* that chrome_client hands out, starts and replaces under a mutex.        *)
(* What a render does with its browser is the subject of Cdp; here it      *)
(* counts itself, ends, and leaves a task that disposes of its context.    *)
(* ShotGate has the checks before the cache.                               *)
(***************************************************************************)
EXTENDS Integers, FiniteSets

CONSTANTS
  Clients,     \* requests that are served at the same time
  Keys,        \* cache keys: what a token asks for, without its timestamp
  None,        \* the mutex is free
  Permits,     \* SHOT_MAX_CONCURRENT
  MaxRenders,  \* SHOT_CHROME_MAX_RENDERS
  Ttl,         \* SHOT_CACHE_SECONDS, in ticks
  MaxBrowsers  \* names for browsers; a dead one's name is used again

ShotAssumption ==
  /\ None \notin Clients /\ IsFiniteSet(Clients) /\ Keys # {}
  /\ Permits \in Nat \ {0} /\ MaxRenders \in Nat \ {0}
  /\ Ttl \in Nat \ {0} /\ MaxBrowsers \in Nat \ {0}

NoRow == -1
Browsers == 1..MaxBrowsers
Dead == [up |-> FALSE, open |-> FALSE, renders |-> 0]
Fresh == [up |-> TRUE, open |-> TRUE, renders |-> 0]

VARIABLES
  req,      \* each request: where it is, its key, its browser (0: none)
  age,      \* shot_cache: ticks since created_at of a key's row, or NoRow
  browser,  \* processes: alive, actor's channel open, renders counted
  disposing,  \* tasks that dispose of a context of each browser
  managed,  \* AppState.chrome, or 0
  mutex     \* who holds the mutex around it

vars == <<req, age, browser, disposing, managed, mutex>>

Idle == [pc |-> "idle", key |-> CHOOSE k \in Keys : TRUE, at |-> 0]

Init ==
  /\ req = [c \in Clients |-> Idle]
  /\ age = [k \in Keys |-> NoRow]
  /\ browser = [b \in Browsers |-> Dead]
  /\ disposing = [b \in Browsers |-> 0]
  /\ managed = 0
  /\ mutex = None

-----------------------------------------------------------------------------
(* The handler *)

At(c, pc) == req[c].pc = pc
Go(c, pc) == req' = [req EXCEPT ![c].pc = pc]

\* Those between acquire_owned and the end of the handler.
Permitted(c) == req[c].pc \in {"look2", "lock", "spawn", "render", "drawn",
                               "store", "clean"}

Hit(k) == age[k] \in 0..(Ttl - 1)

\* A token that passes the gate.
Ask(c) ==
  /\ At(c, "idle")
  /\ \E k \in Keys : req' = [req EXCEPT ![c] = [pc |-> "look", key |-> k, at |-> 0]]
  /\ UNCHANGED <<age, browser, disposing, managed, mutex>>

\* The first look at the cache.
Look(c) ==
  /\ At(c, "look")
  /\ IF Hit(req[c].key) THEN req' = [req EXCEPT ![c] = Idle] ELSE Go(c, "queue")
  /\ UNCHANGED <<age, browser, disposing, managed, mutex>>

Permit(c) ==
  /\ At(c, "queue")
  /\ Cardinality({d \in Clients : Permitted(d)}) < Permits
  /\ Go(c, "look2")
  /\ UNCHANGED <<age, browser, disposing, managed, mutex>>

\* fault: the page is rendered without another look
LookAgainNot(c) ==
  /\ At(c, "look2")
  /\ Go(c, "lock")
  /\ UNCHANGED <<age, browser, disposing, managed, mutex>>

\* A queued identical request may have been rendered while this one waited.
LookAgain(c) ==
  /\ At(c, "look2")
  /\ IF Hit(req[c].key) THEN req' = [req EXCEPT ![c] = Idle] ELSE Go(c, "lock")
  /\ UNCHANGED <<age, browser, disposing, managed, mutex>>

-----------------------------------------------------------------------------
(* chrome_client, spawn_chrome *)

Spent(b) == browser[b].renders >= MaxRenders \/ ~browser[b].open

\* Who has a clone of its client: AppState.chrome, requests and tasks.
Held(b) ==
  b = managed \/ disposing[b] > 0 \/ \E c \in Clients : req[c].at = b

\* The next process gets the least name that is free.
Unnamed(b) == browser[b] = Dead /\ ~Held(b)
NextName(b) == Unnamed(b) /\ \A d \in 1..(b - 1) : ~Unnamed(d)

\* fault: a browser is started with the mutex released
LockReleased(c) ==
  /\ At(c, "lock")
  /\ mutex = None
  /\ IF managed # 0 /\ ~Spent(managed)
       THEN /\ req' = [req EXCEPT ![c].pc = "render", ![c].at = managed]
            /\ UNCHANGED browser
       ELSE \E b \in Browsers :
              /\ NextName(b)
              /\ browser' = [browser EXCEPT ![b] = Fresh]
              /\ req' = [req EXCEPT ![c].pc = "spawn", ![c].at = b]
  /\ UNCHANGED <<age, disposing, managed, mutex>>

\* The mutex is free: a usable browser is shared, else one is started while
\* the mutex is held.
Lock(c) ==
  /\ At(c, "lock")
  /\ mutex = None
  /\ IF managed # 0 /\ ~Spent(managed)
       THEN /\ req' = [req EXCEPT ![c].pc = "render", ![c].at = managed]
            /\ UNCHANGED <<browser, mutex>>
       ELSE \E b \in Browsers :
              /\ NextName(b)
              /\ browser' = [browser EXCEPT ![b] = Fresh]
              /\ req' = [req EXCEPT ![c].pc = "spawn", ![c].at = b]
              /\ mutex' = c
  /\ UNCHANGED <<age, disposing, managed>>

\* The new client replaces the old one, whose browser runs on while others
\* hold a clone of its client.
Spawned(c) ==
  /\ At(c, "spawn")
  /\ managed' = req[c].at
  /\ Go(c, "render")
  /\ mutex' = IF mutex = c THEN None ELSE mutex
  /\ UNCHANGED <<age, browser, disposing>>

-----------------------------------------------------------------------------
(* The render and its end *)

\* ShotContextGuard::drop: a render that has its context leaves a task with a
\* clone of the client.
GuardDropped(c) ==
  disposing' = IF At(c, "drawn") THEN [disposing EXCEPT ![req[c].at] = @ + 1]
                                 ELSE disposing

\* fault: a request that leaves while a browser starts keeps the mutex
LeaveLocked(c) ==
  /\ req' = [req EXCEPT ![c] = Idle]
  /\ GuardDropped(c)
  /\ UNCHANGED <<age, browser, managed, mutex>>

\* The request leaves, whatever it holds goes with it: the permit, the mutex,
\* its clone of the client, the guard of its context.
Leave(c) ==
  /\ req' = [req EXCEPT ![c] = Idle]
  /\ mutex' = IF mutex = c THEN None ELSE mutex
  /\ GuardDropped(c)
  /\ UNCHANGED <<age, browser, managed>>

\* 503: Chromium does not start, publish its port or answer.
SpawnFails(c) == At(c, "spawn") /\ Leave(c)

\* The render has its context: it is counted.
Count(c) ==
  /\ At(c, "render")
  /\ browser[req[c].at].up
  /\ browser' = [browser EXCEPT ![req[c].at].renders = @ + 1]
  /\ Go(c, "drawn")
  /\ UNCHANGED <<age, disposing, managed, mutex>>

\* 502, 503 or 504: the render fails or is timed out.
Fail(c) == req[c].pc \in {"render", "drawn"} /\ Leave(c)

Rendered(c) ==
  /\ At(c, "drawn")
  /\ browser[req[c].at].up
  /\ Go(c, "store")
  /\ GuardDropped(c)
  /\ UNCHANGED <<age, browser, managed, mutex>>

\* shot_cache_store; a page beyond SHOT_CACHE_MAX_BYTES is not kept.
Store(c) ==
  /\ At(c, "store")
  /\ age' = [age EXCEPT ![req[c].key] = 0]
  /\ Go(c, "clean")
  /\ UNCHANGED <<browser, disposing, managed, mutex>>

StoreNot(c) == At(c, "store") /\ Leave(c)

\* DELETE of old rows, and the answer.
Clean(c) ==
  /\ At(c, "clean")
  /\ age' = [k \in Keys |-> IF age[k] > 2 * Ttl THEN NoRow ELSE age[k]]
  /\ req' = [req EXCEPT ![c] = Idle]
  /\ UNCHANGED <<browser, disposing, managed, mutex>>

\* The client disconnects: axum drops the handler where it is.
Disconnect(c) == ~At(c, "idle") /\ Leave(c)

-----------------------------------------------------------------------------
(* A browser's tasks *)

\* Target.disposeBrowserContext is answered, fails or is given up after 30 s.
Disposed(b) ==
  /\ disposing[b] > 0
  /\ disposing' = [disposing EXCEPT ![b] = @ - 1]
  /\ UNCHANGED <<req, age, browser, managed, mutex>>

\* Chromium dies, or its socket closes and cdp_actor kills it.
Die(b) ==
  /\ browser[b].up
  /\ browser' = [browser EXCEPT ![b].up = FALSE]
  /\ UNCHANGED <<req, age, disposing, managed, mutex>>

\* cdp_actor has removed the profile of a dead browser and ends: only now its
\* channel is closed, and chrome_client sees it.
Close(b) ==
  /\ browser[b].open /\ ~browser[b].up
  /\ browser' = [browser EXCEPT ![b].open = FALSE]
  /\ UNCHANGED <<req, age, disposing, managed, mutex>>

\* Nobody has a clone of the client: cdp_actor kills Chromium and ends.  One
\* that had no actor yet is killed with the request that started it.
Exit(b) ==
  /\ browser[b] # Dead /\ ~Held(b)
  /\ browser' = [browser EXCEPT ![b] = Dead]
  /\ UNCHANGED <<req, age, disposing, managed, mutex>>

Task(b) == Disposed(b) \/ Close(b) \/ Exit(b)

Tick ==
  /\ \E k \in Keys : age[k] \in 0..(2 * Ttl)
  /\ age' = [k \in Keys |-> IF age[k] \in 0..(2 * Ttl) THEN age[k] + 1 ELSE age[k]]
  /\ UNCHANGED <<req, browser, disposing, managed, mutex>>

-----------------------------------------------------------------------------

\* Steps a request makes by itself, with the timers of spawns and renders.
Handle(c) ==
  \/ Look(c) \/ LookAgain(c)
  \/ Spawned(c) \/ SpawnFails(c) \/ Count(c) \/ Fail(c) \/ Rendered(c)
  \/ Store(c) \/ StoreNot(c) \/ Clean(c)

Next ==
  \/ \E c \in Clients : Ask(c) \/ Permit(c) \/ Lock(c) \/ Handle(c) \/ Disconnect(c)
  \/ \E b \in Browsers : Task(b) \/ Die(b)
  \/ Tick

Spec == Init /\ [][Next]_vars

\* Tasks run and timers fire; the semaphore and the mutex of tokio queue
\* their waiters, so none is passed over for ever.
FairSpec ==
  /\ Spec
  /\ \A c \in Clients : WF_vars(Handle(c)) /\ SF_vars(Permit(c)) /\ SF_vars(Lock(c))
  /\ \A b \in Browsers : WF_vars(Task(b))

-----------------------------------------------------------------------------
(* Properties *)

TypeOK ==
  /\ req \in [Clients -> [pc : {"idle", "look", "queue", "look2", "lock", "spawn",
                                "render", "drawn", "store", "clean"},
                          key : Keys, at : 0..MaxBrowsers]]
  /\ age \in [Keys -> NoRow..(2 * Ttl + 1)]
  /\ browser \in [Browsers -> [up : BOOLEAN, open : BOOLEAN, renders : Nat]]
  /\ disposing \in [Browsers -> Nat]
  /\ managed \in 0..MaxBrowsers
  /\ mutex \in Clients \cup {None}
  /\ \A c \in Clients : mutex = c => At(c, "spawn")

\* A browser renders at most MaxRenders pages and those that were let in before
\* the last of these was counted: chrome_client reads a counter that renders
\* raise only later.
RendersBounded ==
  \A b \in Browsers : browser[b].renders <= MaxRenders + Permits - 1

\* Those that run although they are neither managed nor at a request with a
\* permit: only tasks hold their clients, or their actors have not ended yet.
Spare(b) ==
  browser[b].up /\ b # managed /\ ~\E c \in Clients : Permitted(c) /\ req[c].at = b

\* A browser that nobody will use again has rendered its share, or its start
\* was given up: whatever leaves, dies or overtakes, none is left behind that
\* has renders to give (chrome_client).
SparesAreSpent ==
  \A b \in Browsers : Spare(b) => browser[b].renders \notin 1..(MaxRenders - 1)

\* Each context of a browser, in use or not disposed of yet, is one of its
\* counted renders, so that they stay few even if no disposal is answered.
ContextsBounded ==
  \A b \in Browsers :
    disposing[b] + Cardinality({c \in Clients : At(c, "drawn") /\ req[c].at = b})
      <= browser[b].renders

\* A managed browser is only replaced when it is closed or has rendered its
\* share: requests that come at once do not each start one (chrome_client).
ReplacedOnlyWhenSpent ==
  managed' # managed => managed = 0 \/ Spent(managed)

\* While a page is in the cache, fewer than Permits renders of it go on: a
\* queued identical request finds what was stored while it waited.
NoRedundantRender ==
  \A k \in Keys : Hit(k) =>
    Cardinality({c \in Clients : req[c].key = k /\
                   req[c].pc \in {"lock", "spawn", "render", "drawn"}}) < Permits

\* A screenshot is always answered: no permit and no lock is lost with a
\* request that fails or whose client goes away.
ShotAnswered == \A c \in Clients : ~At(c, "idle") ~> At(c, "idle")

\* A browser that was replaced exits (chrome_client).
SpareExits == \A b \in Browsers : Spare(b) ~> ~Spare(b)
=============================================================================
