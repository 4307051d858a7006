--------------------------------- MODULE Cdp ---------------------------------
(***************************************************************************)
(* One managed Chromium of cc.me: the renders that talk to it, the actor   *)
(* that owns its web socket (cdp_actor), and the browser itself.           *)
(*                                                                         *)
(* A render makes one CDP call after the other (shot_render,               *)
(* shot_render_in_context).  A call is a message to the actor with a       *)
(* one-shot channel for the answer; the actor numbers it, writes it to the *)
(* socket and keeps the channel in `pending'.  The future of a render is   *)
(* dropped when the request times out or its client goes away.             *)
(***************************************************************************)
EXTENDS Integers, Sequences, FiniteSets

CONSTANTS
  Renders,     \* renders this browser is asked for
  MaxRenders   \* SHOT_CHROME_MAX_RENDERS

CdpAssumption == IsFiniteSet(Renders) /\ MaxRenders \in Nat \ {0}

\* The awaits of a render, in their order: calls, but for "wait", which
\* registers for the load event, and "load", which waits for it.  "prepare"
\* stands for the six calls that make, attach and configure the page.
Steps == <<"context", "prepare", "wait", "navigate", "load", "capture">>

Methods == {"context", "prepare", "wait", "navigate", "capture", "dispose"}
Requests == [from : Renders, method : Methods]

VARIABLES
  handle,    \* AppState.chrome still holds a clone of the client
  renders,   \* CdpClient.renders
  job,       \* each render: the step it is at, about to make it or awaiting it
  guard,     \* each render's ShotContextGuard: none, held, or the task of
             \*   its drop (drop: about to call, wait: called), gone
  queue,     \* the channel to the actor
  pending,   \* the actor's map of call ids to callers
  nextId,
  waiters,   \* renders whose session waits for the load event
  fired,     \* renders whose load channel was fired
  running,   \* the actor runs; its exit closes the channel and kills Chromium
  up,        \* Chromium lives
  todo,      \* calls Chromium has received and not answered
  wire,      \* what Chromium has sent and the actor has not read
  contexts,  \* open browser contexts, by the render that asked for them
  loading,   \* pages that load
  heard      \* history: renders whose load event the actor has read

vars == <<handle, renders, job, guard, queue, pending, nextId, waiters, fired,
          running, up, todo, wire, contexts, loading, heard>>
client == <<handle, renders, job, guard>>
actor == <<queue, pending, nextId, waiters, fired, running, heard>>
chrome == <<up, todo, wire, contexts, loading>>

Init ==
  /\ handle = TRUE
  /\ renders = 0
  /\ job = [r \in Renders |-> [pc |-> "idle", step |-> 1]]
  /\ guard = [r \in Renders |-> "none"]
  /\ queue = <<>>
  /\ pending = {}
  /\ nextId = 1
  /\ waiters = {}
  /\ fired = {}
  /\ running = TRUE
  /\ up = TRUE
  /\ todo = {}
  /\ wire = <<>>
  /\ contexts = {}
  /\ loading = {}
  /\ heard = {}

-----------------------------------------------------------------------------
(* Renders *)

At(r, pc, step) == job[r].pc = pc /\ Steps[job[r].step] = step
Ended(r) == [job[r] EXCEPT !.pc = "ended"]
Begun(r) == job[r].pc \in {"go", "await"}

\* Clones of the client: the managed one, those of requests, of guards'
\* tasks.  A guard that is held belongs to a request.
Holders == {r \in Renders : Begun(r) \/ guard[r] \in {"drop", "wait"}}

\* The render future ends or is dropped: dropping the guard spawns a task.
Unguarded(r) == IF guard[r] = "held" THEN "drop" ELSE guard[r]

End(r) ==
  /\ job' = [job EXCEPT ![r] = Ended(r)]
  /\ guard' = [guard EXCEPT ![r] = Unguarded(r)]

\* chrome_client has returned a clone of the managed client.
Start(r) ==
  /\ job[r].pc = "idle"
  /\ handle /\ running /\ renders < MaxRenders
  /\ job' = [job EXCEPT ![r].pc = "go"]
  /\ UNCHANGED <<handle, renders, guard, actor, chrome>>

\* chrome_client replaces a client that is closed or has rendered enough.
Replace ==
  /\ handle
  /\ ~running \/ renders >= MaxRenders
  /\ handle' = FALSE
  /\ UNCHANGED <<renders, job, guard, actor, chrome>>

\* CdpClient.call, CdpClient.wait_event: a message to the actor.
Call(r) ==
  /\ job[r].pc = "go" /\ running
  /\ LET step == Steps[job[r].step] IN
     /\ queue' = IF step = "load" THEN queue
                 ELSE Append(queue, [from |-> r, method |-> step])
     /\ job' = [job EXCEPT ![r] =
          IF step = "wait" THEN [pc |-> "go", step |-> @.step + 1]
          ELSE [@ EXCEPT !.pc = "await"]]
  /\ UNCHANGED <<handle, renders, guard, pending, nextId, waiters, fired,
                 running, heard, chrome>>

\* The channel is closed: the call fails.  The load channel has no sender.
CallClosed(r) ==
  /\ job[r].pc = "go" /\ ~running
  /\ End(r)
  /\ UNCHANGED <<handle, renders, actor, chrome>>

Loaded(r) ==
  /\ At(r, "await", "load")
  /\ r \in fired
  /\ job' = [job EXCEPT ![r] = [pc |-> "go", step |-> @.step + 1]]
  /\ UNCHANGED <<handle, renders, guard, actor, chrome>>

\* The page does not load in time.
NavTimeout(r) ==
  /\ At(r, "await", "load")
  /\ r \notin fired
  /\ End(r)
  /\ UNCHANGED <<handle, renders, actor, chrome>>

\* The timeout of a call or of the whole render, or its client is gone.
Cancel(r) ==
  /\ Begun(r)
  /\ End(r)
  /\ UNCHANGED <<handle, renders, actor, chrome>>

\* The task that a dropped guard has spawned.
Dispose(r) ==
  /\ guard[r] = "drop"
  /\ IF running
       THEN /\ queue' = Append(queue, [from |-> r, method |-> "dispose"])
            /\ guard' = [guard EXCEPT ![r] = "wait"]
       ELSE /\ guard' = [guard EXCEPT ![r] = "gone"]
            /\ UNCHANGED queue
  /\ UNCHANGED <<handle, renders, job, pending, nextId, waiters, fired,
                 running, heard, chrome>>

DisposeTimeout(r) ==
  /\ guard[r] = "wait"
  /\ guard' = [guard EXCEPT ![r] = "gone"]
  /\ UNCHANGED <<handle, renders, job, actor, chrome>>

-----------------------------------------------------------------------------
(* The actor *)

Awaits(q) == job[q.from].pc = "await" /\ Steps[job[q.from].step] = q.method

Counts(q) == q.method = "context"

\* The caller of q is told the result; nobody may be there any more.
Reply(q, ok) ==
  CASE q.method = "dispose" ->
         /\ guard' = [guard EXCEPT ![q.from] = "gone"]
         /\ UNCHANGED <<job, renders>>
    [] Awaits(q) /\ ok /\ q.method # "capture" ->
         /\ job' = [job EXCEPT ![q.from] = [pc |-> "go", step |-> @.step + 1]]
         /\ guard' = IF q.method = "context"
                       THEN [guard EXCEPT ![q.from] = "held"] ELSE guard
         /\ renders' = IF Counts(q) THEN renders + 1 ELSE renders
    [] Awaits(q) /\ (~ok \/ q.method = "capture") ->
         End(q.from) /\ UNCHANGED renders
    [] OTHER -> UNCHANGED <<job, guard, renders>>

\* The actor leaves its loop: what it owns is dropped, so every caller in the
\* channel, in pending or among the waiters fails; Chromium is killed.
Exit ==
  /\ running' = FALSE /\ up' = FALSE
  /\ LET failed(r) == job[r].pc = "await"
                        /\ ~(Steps[job[r].step] = "load" /\ r \in fired) IN
     /\ job' = [r \in Renders |-> IF failed(r) THEN Ended(r) ELSE job[r]]
     /\ guard' = [r \in Renders |-> IF guard[r] = "wait" THEN "gone"
                                    ELSE IF failed(r) THEN Unguarded(r)
                                    ELSE guard[r]]
  /\ queue' = <<>> /\ wire' = <<>> /\ todo' = {} /\ pending' = {}
  /\ waiters' = {} /\ contexts' = {} /\ loading' = {}
  /\ UNCHANGED <<handle, renders, nextId, fired, heard>>

\* fault: an id is used again when no other call is pending
NewIdReused == 1 + Cardinality(pending)

NewId == nextId

\* rx.recv(): a call is numbered and written to the socket, a waiter kept.
TakeRequest ==
  /\ running /\ queue # <<>>
  /\ LET q == Head(queue) IN
     /\ queue' = Tail(queue)
     /\ IF q.method = "wait"
          THEN /\ waiters' = waiters \cup {q.from}
               /\ UNCHANGED <<pending, nextId, todo>>
          ELSE /\ pending' = {p \in pending : p.id # NewId} \cup
                 {[id |-> NewId, from |-> q.from, method |-> q.method]}
               /\ todo' = IF up THEN todo \cup {[id |-> NewId, req |-> q]}
                          ELSE todo
               /\ nextId' = nextId + 1
               /\ UNCHANGED waiters
  /\ UNCHANGED <<client, fired, running, heard, up, wire, contexts, loading>>

\* sink.send fails.
SendFails ==
  /\ running /\ ~up /\ queue # <<>> /\ Head(queue).method # "wait"
  /\ Exit

\* An answer goes to the caller its id is pending for.
TakeAnswer ==
  /\ running /\ wire # <<>> /\ Head(wire).type = "answer"
  /\ LET m == Head(wire)
         known == {p \in pending : p.id = m.id}
     IN /\ IF known = {} THEN UNCHANGED <<job, guard, renders>>
           ELSE \E p \in known :
                  Reply([from |-> p.from, method |-> p.method], m.ok)
        /\ pending' = pending \ known
  /\ wire' = Tail(wire)
  /\ UNCHANGED <<handle, queue, nextId, waiters, fired, running, heard, up,
                 todo, contexts, loading>>

\* The load event of a session goes to everyone registered for it.
TakeEvent ==
  /\ running /\ wire # <<>> /\ Head(wire).type = "load"
  /\ LET r == Head(wire).from IN
     /\ heard' = heard \cup {r}
     /\ fired' = IF r \in waiters THEN fired \cup {r} ELSE fired
     /\ waiters' = waiters \ {r}
  /\ wire' = Tail(wire)
  /\ UNCHANGED <<client, queue, pending, nextId, running, up, todo, contexts,
                 loading>>

\* The stream ends.
SeeClosed == running /\ ~up /\ wire = <<>> /\ Exit

\* The last client was dropped: rx.recv() is None.
Unused == running /\ queue = <<>> /\ ~handle /\ Holders = {} /\ Exit

-----------------------------------------------------------------------------
(* Chromium *)

\* A call is carried out, or fails, and is answered.  Disposing of a context
\* that exists does not fail.
Execute ==
  /\ up
  /\ \E t \in todo, ok \in BOOLEAN :
       LET q == t.req IN
       /\ q.method = "dispose" => ok
       /\ todo' = todo \ {t}
       /\ wire' = Append(wire, [type |-> "answer", id |-> t.id, of |-> q,
                                ok |-> ok])
       /\ contexts' = CASE ok /\ q.method = "context" -> contexts \cup {q.from}
                        [] ok /\ q.method = "dispose" -> contexts \ {q.from}
                        [] OTHER -> contexts
       /\ loading' = CASE ok /\ q.method = "navigate" -> loading \cup {q.from}
                       [] ok /\ q.method = "dispose" -> loading \ {q.from}
                       [] OTHER -> loading
  /\ UNCHANGED <<client, actor, up>>

FinishLoad(r) ==
  /\ up /\ r \in loading
  /\ loading' = loading \ {r}
  /\ wire' = Append(wire, [type |-> "load", from |-> r])
  /\ UNCHANGED <<client, actor, up, todo, contexts>>

\* Chromium crashes; what it has sent may still be read.
Die ==
  /\ up
  /\ up' = FALSE
  /\ todo' = {} /\ contexts' = {} /\ loading' = {}
  /\ UNCHANGED <<client, actor, wire>>

-----------------------------------------------------------------------------

RenderStep(r) == Call(r) \/ CallClosed(r) \/ Loaded(r) \/ Dispose(r)
ActorStep == TakeRequest \/ SendFails \/ TakeAnswer \/ TakeEvent \/ SeeClosed
             \/ Unused

Next ==
  \/ \E r \in Renders :
       RenderStep(r) \/ Start(r) \/ NavTimeout(r) \/ Cancel(r)
       \/ DisposeTimeout(r) \/ FinishLoad(r)
  \/ ActorStep \/ Replace \/ Execute \/ Die

Spec == Init /\ [][Next]_vars

\* Tasks of the runtime run.
TasksRun ==
  /\ \A r \in Renders : WF_vars(RenderStep(r))
  /\ WF_vars(ActorStep)

\* Timers fire; Chromium may hang.
TimedSpec ==
  /\ Spec /\ TasksRun
  /\ \A r \in Renders :
       WF_vars(Cancel(r)) /\ WF_vars(NavTimeout(r)) /\ WF_vars(DisposeTimeout(r))

\* Chromium works off its calls or dies; only the page load is timed.
LiveSpec ==
  /\ Spec /\ TasksRun /\ WF_vars(Execute)
  /\ \A r \in Renders : WF_vars(NavTimeout(r))

-----------------------------------------------------------------------------
(* Properties *)

TypeOK ==
  /\ handle \in BOOLEAN /\ running \in BOOLEAN /\ up \in BOOLEAN
  /\ renders \in 0..Cardinality(Renders)
  /\ job \in [Renders -> [pc : {"idle", "go", "await", "ended"},
                          step : 1..Len(Steps)]]
  /\ guard \in [Renders -> {"none", "held", "drop", "wait", "gone"}]
  /\ \A i \in DOMAIN queue : queue[i] \in Requests
  /\ \A p \in pending : p.id < nextId
  /\ waiters \cup fired \cup contexts \cup loading \cup heard \subseteq Renders

\* The answer to a call never reaches another call: cdp_actor numbers calls,
\* and those of cancelled renders are answered after their callers are gone.
AnswersMatch ==
  \A i \in DOMAIN wire : wire[i].type = "answer" =>
    \A p \in pending : p.id = wire[i].id =>
      wire[i].of = [from |-> p.from, method |-> p.method]

\* A render never waits for a load event that the actor has already read and
\* had no waiter for ("register before triggering it", wait_event).
LoadNotMissed ==
  \A r \in Renders : At(r, "await", "load") /\ r \in heard => r \in fired

\* A browser that was replaced exits once its renders are over, even if it
\* hangs: the clones of requests and guards go away with their timeouts.
ReplacedExits == ~handle ~> ~running

\* Every render comes to an end without any timer of a call: an actor that
\* exits fails all calls it has not answered.
RendersEnd ==
  \A r \in Renders : Begun(r) ~> (job[r].pc = "ended")

\* A context that a render has taken under its guard is disposed of on every
\* exit path: normal, error, timeout, dropped client (ShotContextGuard).
GuardedDisposed ==
  \A r \in Renders : guard[r] = "held" ~> r \notin contexts

\* docs/shot.html: every screenshot gets a fresh context that is disposed of
\* afterwards.  VIOLATED by a render that is dropped while it is created.
ContextsDisposed ==
  \A r \in Renders : job[r].pc = "ended" ~> [](r \notin contexts)
=============================================================================
