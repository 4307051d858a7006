------------------------------ MODULE Secrets ------------------------------
(***************************************************************************)
(* The secrets of /p: created under a random id, read until they expire or *)
(* once only, burnt, and cleaned up by a worker. Each statement commits by *)
(* itself: it works at the time and on the rows it began with, waits for a *)
(* row another statement is deleting, and looks again when it may go on.   *)
(***************************************************************************)
EXTENDS Integers

CONSTANTS
  Clients, Ids, Secrets,
  ReadOnce,     \* the secrets created with auto_destroy
  Worker,       \* secret_cleanup_worker
  None,
  Tries,        \* draws of an id before create gives up
  MaxTtl,       \* secret_max_ttl_hours
  MaxTime,      \* bound of the model: hours
  MaxFaults     \* bound of the model: statements undone, answers lost

SecretsAssumption ==
  /\ ReadOnce \subseteq Secrets /\ None \notin Secrets \cup Clients \cup Ids \cup {Worker}
  /\ Worker \notin Clients
  /\ Tries \in Nat \ {0} /\ MaxTtl \in Nat \ {0} /\ MaxTime \in Nat /\ MaxFaults \in Nat

VARIABLES
  now, faults,
  row,      \* secrets: of each id its secret and the hour that ends it
  lock,     \* of each id, whose uncommitted statement has deleted the row
  pc,       \* of each client: "idle", "insert", "delete", "select", "commit"
  job,      \* of each client, what it asked and what its statement began with
  late,     \* history: what was known to be over when each client asked
  left,     \* the expired rows the worker has still to delete; its own "idle"
  link,     \* history: the id and the end of each secret created
  given,    \* history: how many answers carried each secret, modulo 3
  gone,     \* history: secrets a committed read or burn has deleted
  burnt,    \* history: secrets whose burn was answered 204
  over      \* history: secrets someone was told are read, burnt or gone

vars == <<now, faults, row, lock, pc, job, late, left, link, given, gone, burnt, over>>
table == <<row, lock>>
told == <<given, gone, burnt, over>>

NoRow == [secret |-> None, until |-> 0]
NoLink == [id |-> None, until |-> 0]
Lost == [id |-> None, until |-> 1]   \* its creation failed: a retry encrypts anew
NoJob == [op |-> "none", of |-> None, id |-> None, at |-> 0, saw |-> NoRow, n |-> 0]
Asleep == [at |-> 0, ids |-> {}, on |-> FALSE]

Init ==
  /\ now = 0 /\ faults = 0
  /\ row = [i \in Ids |-> NoRow] /\ lock = [i \in Ids |-> None]
  /\ pc = [c \in Clients |-> "idle"] /\ job = [c \in Clients |-> NoJob]
  /\ late = [c \in Clients |-> {}] /\ left = Asleep
  /\ link = [s \in Secrets |-> NoLink] /\ given = [s \in Secrets |-> 0]
  /\ gone = {} /\ burnt = {} /\ over = {}

-----------------------------------------------------------------------------

Go(c, at) == pc' = [pc EXCEPT ![c] = at]
Done(c) == Go(c, "idle") /\ job' = [job EXCEPT ![c] = NoJob]
                         /\ late' = [late EXCEPT ![c] = {}]

Fault == faults < MaxFaults /\ faults' = faults + 1
Known(s) == link[s].id # None
Ended(s) == Known(s) /\ link[s].until <= now

\* No secret of a request is in use twice: its ciphertext is its own.
Asked(s) == link[s] # NoLink \/ \E c \in Clients : job[c].op = "create" /\ job[c].of = s

\* create_secret; the hours asked for are clamped to 1 .. MaxTtl.
Create(c, s, hours) ==
  /\ pc[c] = "idle" /\ ~Asked(s)
  /\ Go(c, "insert")
  /\ job' = [job EXCEPT ![c] = [NoJob EXCEPT !.op = "create", !.of = s,
                                             !.at = hours, !.n = Tries]]
  /\ UNCHANGED <<now, faults, table, late, left, link, told>>

Stored(c, i) ==
  LET new == [secret |-> job[c].of, until |-> now + job[c].at] IN
  /\ row' = [row EXCEPT ![i] = new]
  /\ link' = [link EXCEPT ![job[c].of] = [id |-> i, until |-> new.until]]
  /\ Done(c)

\* insert_secret: an id that is taken, by an expired secret too, is drawn again,
\* and one that is being deleted is waited for.
Insert(c, i) ==
  /\ pc[c] = "insert" /\ lock[i] = None
  /\ IF row[i] = NoRow THEN Stored(c, i)
     ELSE /\ IF job[c].n = 1 THEN Done(c)
             ELSE /\ job' = [job EXCEPT ![c].n = @ - 1]
                  /\ UNCHANGED <<pc, late>>
          /\ UNCHANGED <<row, link>>
  /\ UNCHANGED <<now, faults, lock, left, told>>

\* The answer fails: the secret is not stored, or nobody learns its link.
InsertFails(c, i) ==
  /\ pc[c] = "insert" /\ lock[i] = None /\ Fault /\ Done(c)
  /\ link' = [link EXCEPT ![job[c].of] = Lost]
  /\ \/ /\ row[i] = NoRow
        /\ row' = [row EXCEPT ![i] = [secret |-> job[c].of, until |-> now + job[c].at]]
     \/ UNCHANGED row
  /\ UNCHANGED <<now, lock, left, told>>

\* GET /p/<id>/content and DELETE /p/<id>, by the link of secret s.
Ask(c, op, s) ==
  LET i == link[s].id IN
  /\ pc[c] = "idle" /\ Known(s)
  /\ Go(c, "delete")
  /\ job' = [job EXCEPT ![c] = [op |-> op, of |-> s, id |-> i,
                                at |-> now, saw |-> row[i], n |-> 0]]
  /\ late' = [late EXCEPT ![c] = over \cup {x \in Secrets : Ended(x)}]
  /\ UNCHANGED <<now, faults, table, left, link, told>>

\* Which row the DELETE means: any for a burn, a read-once one for a read.
AnyAge(j) ==
  j.saw # NoRow /\ (j.op = "read" => j.saw.secret \in ReadOnce)
Meant(j) == AnyAge(j) /\ (j.op = "read" => j.saw.until > j.at)

Gone(c) == Done(c) /\ over' = over \cup {job[c].of}
Given(c, s) == Done(c) /\ given' = [given EXCEPT ![s] = (@ + 1) % 3]
                       /\ over' = IF s \in ReadOnce THEN over \cup {s} ELSE over

DeletesNothing(c) ==
  /\ pc[c] = "delete"
  /\ \/ ~Meant(job[c])
     \/ lock[job[c].id] = None /\ row[job[c].id] # job[c].saw
  /\ IF job[c].op = "read" THEN Go(c, "select") /\ UNCHANGED <<job, late, over>>
     ELSE Gone(c)
  /\ UNCHANGED <<now, faults, table, left, link, given, gone, burnt>>

Deletes(c) ==
  LET i == job[c].id IN
  /\ pc[c] = "delete" /\ Meant(job[c])
  /\ lock[i] = None /\ row[i] = job[c].saw
  /\ lock' = [lock EXCEPT ![i] = c]
  /\ Go(c, "commit")
  /\ UNCHANGED <<now, faults, row, job, late, left, link, told>>

Unlock(c) == lock' = [i \in Ids |-> IF lock[i] = c THEN None ELSE lock[i]]
Remove(c) == row' = [i \in Ids |-> IF lock[i] = c THEN NoRow ELSE row[i]]

\* Answers while the transaction is open.
AnswersFirst(c) ==
  LET s == job[c].saw.secret IN
  /\ pc[c] = "commit" /\ UNCHANGED faults
  /\ \/ Remove(c) /\ gone' = gone \cup {s}
     \/ UNCHANGED <<row, gone>>
  /\ Unlock(c)
  /\ IF job[c].op = "read" THEN Given(c, s) /\ UNCHANGED burnt
     ELSE Done(c) /\ burnt' = burnt \cup {s} /\ over' = over \cup {s} /\ UNCHANGED given
  /\ UNCHANGED <<now, left, link>>

Commit(c) ==
  LET s == job[c].saw.secret IN
  /\ pc[c] = "commit" /\ Unlock(c) /\ Remove(c)
  /\ gone' = gone \cup {s}
  /\ IF job[c].op = "read" THEN Given(c, s) /\ UNCHANGED burnt
     ELSE Done(c) /\ burnt' = burnt \cup {s} /\ over' = over \cup {s} /\ UNCHANGED given
  /\ UNCHANGED <<now, faults, left, link>>

\* The request is over without an answer: the statement is undone, or it is
\* committed and nobody hears of it.
CommitFails(c) ==
  /\ pc[c] = "commit" /\ Fault /\ Unlock(c) /\ Done(c)
  /\ \/ Remove(c) /\ gone' = gone \cup {job[c].saw.secret}
     \/ UNCHANGED <<row, gone>>
  /\ UNCHANGED <<now, left, link, given, burnt, over>>

\* The second statement of a read, with a time of its own.
Readable(r) == r # NoRow /\ r.until > now /\ r.secret \notin ReadOnce
Select(c) ==
  LET r == row[job[c].id] IN
  /\ pc[c] = "select"
  /\ IF Readable(r) THEN Given(c, r.secret) ELSE Gone(c) /\ UNCHANGED given
  /\ UNCHANGED <<now, faults, table, left, link, gone, burnt>>

-----------------------------------------------------------------------------

\* secret_cleanup_worker: one DELETE for all rows expired when it began.
Expired(i, t) == row[i] # NoRow /\ row[i].until <= t

WorkerTicks ==
  /\ ~left.on /\ \E i \in Ids : Expired(i, now)
  /\ left' = [at |-> now, ids |-> {i \in Ids : Expired(i, now)}, on |-> TRUE]
  /\ UNCHANGED <<now, faults, table, pc, job, late, link, told>>

WorkerDeletes(i) ==
  /\ left.on /\ i \in left.ids /\ lock[i] = None
  /\ left' = [left EXCEPT !.ids = @ \ {i}]
  /\ lock' = IF Expired(i, left.at) THEN [lock EXCEPT ![i] = Worker] ELSE lock
  /\ UNCHANGED <<now, faults, row, pc, job, late, link, told>>

WorkerCommits ==
  /\ left.on /\ left.ids = {}
  /\ Unlock(Worker) /\ Remove(Worker) /\ left' = Asleep
  /\ UNCHANGED <<now, faults, pc, job, late, link, told>>

WorkerFails ==
  /\ left.on /\ Fault /\ Unlock(Worker) /\ left' = Asleep
  /\ UNCHANGED <<now, row, pc, job, late, link, told>>

Tick ==
  /\ now < MaxTime /\ now' = now + 1
  /\ UNCHANGED <<faults, table, pc, job, late, left, link, told>>

\* A request that reaches its statement is carried through.
Works(c) == \/ DeletesNothing(c) \/ Deletes(c) \/ Commit(c) \/ CommitFails(c) \/ Select(c)
Cleans == WorkerTicks \/ WorkerCommits \/ WorkerFails \/ \E i \in Ids : WorkerDeletes(i)

Next ==
  \/ \E c \in Clients :
       \/ Works(c)
       \/ \E i \in Ids : Insert(c, i) \/ InsertFails(c, i)
       \/ \E s \in Secrets :
            (\E hours \in 1 .. MaxTtl : Create(c, s, hours)) \/ \E op \in {"read", "burn"} : Ask(c, op, s)
  \/ Cleans \/ Tick

Spec == Init /\ [][Next]_vars

\* The interval keeps ticking and a statement that has begun comes to its end.
FairSpec == Spec /\ WF_vars(Cleans) /\ \A c \in Clients : WF_vars(Works(c))

-----------------------------------------------------------------------------

(***************************************************************************)
(* A read-once secret is taken once: one answer carries it or one burn is  *)
(* answered 204, never both and neither twice, however reads and burns     *)
(* race, are undone and are asked again (read_secret_content, burn_secret).*)
(***************************************************************************)
TakenOnce ==
  \A s \in ReadOnce : given[s] + (IF s \in burnt THEN 1 ELSE 0) <= 1

(***************************************************************************)
(* A secret that was created stays where its link points until a read or   *)
(* a burn has deleted it or its time has come: no other secret takes its   *)
(* row and the worker does not come early (insert_secret, the worker).     *)
(***************************************************************************)
KeptUntilOver ==
  \A s \in Secrets :
    Known(s) /\ s \notin gone /\ ~Ended(s) => row[link[s].id].secret = s

(***************************************************************************)
(* Over is over: who asks after a secret's end, after an answer that it is *)
(* gone or burnt, or after the one answer that carried it, is not given    *)
(* it, though who asked before may be (the two statements of a read).      *)
(***************************************************************************)
OverIsOver ==
  \A s \in Secrets : given'[s] # given[s] =>
    \E c \in Clients : pc[c] # "idle" /\ pc'[c] = "idle" /\ s \notin late[c]

(***************************************************************************)
(* Whatever fails, the worker deletes every row whose time has come.       *)
(***************************************************************************)
CleansUp == \A i \in Ids, s \in Secrets :
  (row[i].secret = s /\ row[i].until <= now) ~> row[i].secret # s

TypeOK ==
  /\ row \in [Ids -> [secret : Secrets \cup {None}, until : Nat]]
  /\ lock \in [Ids -> Clients \cup {Worker, None}]
  /\ pc \in [Clients -> {"idle", "insert", "delete", "select", "commit"}]
  /\ left.ids \subseteq Ids /\ gone \cup burnt \cup over \subseteq Secrets
=============================================================================
