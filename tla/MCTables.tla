------------------------------ MODULE MCTables -------------------------------
(***************************************************************************)
(* The components whose requests meet in rows of the database: the library *)
(* of leased slots, the locks of the inboxes, secrets, OAuth aliases and   *)
(* e-mail aliases.  A behaviour runs one of them, its part, and the        *)
(* variables of the others stand still.  A .cfg chooses parts and bounds.  *)
(***************************************************************************)
EXTENDS Integers, FiniteSets, TLC

CONSTANTS
  ann, bob, cat, dan, None,
  Parts,
  Senders, Claimers, Enqueues, Acks, Starts,
  Readers, SecretIds, Notes, ReadOnce, SecretTries, SecretHours,
  Askers, AliasTargets, AliasIds, AliasTries, AliasFaults,
  Owners, Links, Names, Visits, LinkLife, Lives

VARIABLES
  part,
  count, leases, lock, req, held, late, alarm, pinged, owed, lost, peak,
  rows, present, stage, inboxes, todo, want, locked,
  now, faults, secret, deleting, reader, job, known, left, link, given, gone, burnt, over,
  target, asker, wanted, draw, snap, tries, failed, answers,
  login, row, web

libraryVars == <<count, leases, lock, req, held, late, alarm, pinged, owed, lost, peak>>
lockVars == <<rows, present, stage, inboxes, todo, want, locked>>
secretVars == <<now, faults, secret, deleting, reader, job, known, left, link, given, gone,
                burnt, over>>
aliasVars == <<target, asker, wanted, draw, snap, tries, failed, answers>>
emailVars == <<login, row, web>>
vars == <<part, libraryVars, lockVars, secretVars, aliasVars, emailVars>>

-----------------------------------------------------------------------------
(* The parts *)

\* A pool of up to two slots that is resized and deleted.
Slots == INSTANCE Library WITH
  Borrowers <- {ann, bob}, MaxCount <- 2, MaxTtl <- 1, MaxAge <- 1, Slack <- 0, MaxLeases <- 4
\* One slot, leases of different lengths, alarms that are off by a tick.
Alarms == INSTANCE Library WITH
  Borrowers <- {ann, bob}, MaxCount <- 1, MaxTtl <- 3, MaxAge <- 1, Slack <- 1, MaxLeases <- 3
\* One slot and instant transactions.
Borrow == INSTANCE Library WITH
  Borrowers <- {ann, bob}, MaxCount <- 1, MaxTtl <- 1, MaxAge <- 0, Slack <- 0, MaxLeases <- 3

\* Two deliveries of one inbox while all instances serve, or of two inboxes
\* while one starts.
Serving == INSTANCE Locks WITH
  Enqueues <- Senders, Claims <- Claimers, Acks <- {cat, dan}, Releases <- {}, Starts <- {},
  Keys <- {1, 2}, Ids <- {"x", "y"}, InboxOf <- "x" :> 1 @@ "y" :> 1, held <- locked
Starting == INSTANCE Locks WITH
  Claims <- {}, Releases <- {},
  Keys <- {1, 2}, Ids <- {"x", "y"}, InboxOf <- "x" :> 1 @@ "y" :> 2, held <- locked

\* Read-once and reusable secrets.
Secret == INSTANCE Secrets WITH
  Clients <- Readers, Ids <- SecretIds, Secrets <- Notes,
  Worker <- "worker", Tries <- SecretTries, MaxTtl <- SecretHours, MaxTime <- SecretHours,
  MaxFaults <- 1, row <- secret, lock <- deleting, pc <- reader, late <- known

\* Ids that collide.
Callback == INSTANCE Aliases WITH
  Clients <- Askers, Targets <- AliasTargets, Ids <- AliasIds, Tries <- AliasTries,
  MaxFaults <- AliasFaults,
  pc <- asker, want <- wanted, faults <- failed

\* Addresses with their links contend for aliases.
Email == INSTANCE EmailAliases WITH
  Users <- Owners, Aliases <- Names, Clients <- Visits, link <- login, req <- web

ASSUME PartsAssumption ==
  /\ Slots!LibraryAssumption /\ Alarms!LibraryAssumption /\ Borrow!LibraryAssumption
  /\ Serving!LocksAssumption /\ Starting!LocksAssumption
  /\ Secret!SecretsAssumption /\ Callback!AliasesAssumption /\ Email!EmailAssumption

-----------------------------------------------------------------------------
(* The behaviours *)

\* The variables of components that do not run.
NoLibrary ==
  /\ count = None /\ leases = None /\ lock = None /\ req = None
  /\ held = None /\ late = None /\ alarm = None /\ pinged = None
  /\ owed = None /\ lost = None /\ peak = None
NoLock ==
  /\ rows = None /\ present = None /\ stage = None /\ inboxes = None
  /\ todo = None /\ want = None /\ locked = None
NoSecret ==
  /\ now = None /\ faults = None /\ secret = None /\ deleting = None
  /\ reader = None /\ job = None /\ known = None /\ left = None
  /\ link = None /\ given = None /\ gone = None /\ burnt = None
  /\ over = None
NoAlias ==
  /\ target = None /\ asker = None /\ wanted = None /\ draw = None
  /\ snap = None /\ tries = None /\ failed = None /\ answers = None
NoEmail ==
  /\ login = None /\ row = None /\ web = None

Init ==
  /\ part \in Parts
  /\ CASE part = "slots" -> Slots!Init [] part = "alarms" -> Alarms!Init
       [] part = "borrow" -> Borrow!Init [] OTHER -> NoLibrary
  /\ CASE part = "serving" -> Serving!Init [] part = "starting" -> Starting!Init
       [] OTHER -> NoLock
  /\ IF part = "secrets" THEN Secret!Init ELSE NoSecret
  /\ IF part = "aliases" THEN Callback!Init ELSE NoAlias
  /\ IF part = "email" THEN Email!Init ELSE NoEmail

\* A step of one component.
InLibrary(A) ==
  A /\ UNCHANGED <<part, lockVars, secretVars, aliasVars, emailVars>>
InLocks(A) ==
  A /\ UNCHANGED <<part, libraryVars, secretVars, aliasVars, emailVars>>
InSecrets(A) ==
  part = "secrets" /\ A /\ UNCHANGED <<part, libraryVars, lockVars, aliasVars, emailVars>>
InAliases(A) ==
  part = "aliases" /\ A /\ UNCHANGED <<part, libraryVars, lockVars, secretVars, emailVars>>
InEmail(A) ==
  part = "email" /\ A /\ UNCHANGED <<part, libraryVars, lockVars, secretVars, aliasVars>>

Next ==
  \/ part = "slots" /\ InLibrary(Slots!Next)
  \/ part = "alarms" /\ InLibrary(Alarms!Next)
  \/ part = "borrow" /\ InLibrary(Borrow!Next)
  \/ part = "serving" /\ InLocks(Serving!Next)
  \/ part = "starting" /\ InLocks(Starting!Next)
  \/ InSecrets(Secret!Next)
  \/ InAliases(Callback!Next)
  \/ InEmail(Email!Next)

Spec == Init /\ [][Next]_vars

\* The fairness of each component's own fair specification.  A session that
\* waits for a lock gets it if it is free again and again.
Borrows(A) == part = "borrow" /\ InLibrary(A)
Session(s) ==
  \/ s \in {ann, bob} /\ Borrows(Borrow!BorrowStep(s))
  \/ s \in {ann, bob} /\ part = "starting" /\ InLocks(Starting!Runs(s))
  \/ s \in {cat, dan} /\ part = "serving" /\ InLocks(Serving!Runs(s))

FairSpec ==
  /\ Spec
  /\ \A s \in {ann, bob, cat, dan} : SF_vars(Session(s))
  /\ \A s \in {ann, bob} : WF_vars(Borrows(Borrow!Deadline(s)))
  /\ WF_vars(Borrows(Borrow!Notify \/ Borrow!LoseNotification)) /\ WF_vars(Borrows(Borrow!Tick))
  /\ WF_vars(part = "starting" /\ InLocks(\E s \in {ann, bob} : Starting!Abort(s)))
  /\ WF_vars(part = "serving" /\ InLocks(\E s \in {cat, dan} : Serving!Abort(s)))
  /\ WF_vars(InSecrets(Secret!Cleans))
  /\ \A s \in Readers : WF_vars(InSecrets(Secret!Works(s)))
  /\ \A s \in {ann, bob} : WF_vars(InAliases(Callback!Works(s)))

Symmetry == Permutations({ann, bob}) \cup Permutations({cat, dan})

-----------------------------------------------------------------------------
(* Properties *)

\* One lease per slot of a pool, and no more leases than the largest count it
\* has had (try_borrow).
OneLeasePerSlot == part = "slots" => Slots!TypeOK /\ Slots!OnePerSlot /\ Slots!NeverOverIssued

\* A lease is granted only for a slot that is free at that moment (try_borrow).
GrantsFreeSlot == [][part = "slots" => Slots!GrantsFreeSlot]_vars

\* A borrower that waits beside a free slot has a notification or an alarm
\* that is due (borrow_resource, notify_library).
BorrowersWake == part = "alarms" => Alarms!NoLostWakeup

\* In the inbox tables only the scans of acks and releases wait in a circle,
\* and the recount of a starting instance with enqueues.
CirclesAreKnown ==
  /\ part = "serving" => Serving!CirclesAreKnown
  /\ part = "starting" => Starting!CirclesAreKnown

\* A read-once secret is taken once; a secret stays until it is read, burnt or
\* over (read_secret_content, burn_secret, insert_secret, the worker).
SecretsKept == part = "secrets" => Secret!TypeOK /\ Secret!TakenOnce /\ Secret!KeptUntilOver

\* Who asks for a secret after it was over is not given it.
OverIsOver == [][part = "secrets" => Secret!OverIsOver]_vars

\* A target has one alias ever, and the alias its target (insert_alias).
AliasesStand == part = "aliases" => Callback!TypeOK /\ Callback!SameAlias /\ Callback!AnswerStands

\* An e-mail alias changes hands only through its owner, and an address without
\* a link that works lets nobody in any more (email_for_key).
OwnersStand == [][part = "email" => Email!NoTakeover /\ Email!LockedStaysOut]_vars

\* What still waits in each part, the n-th of its kind.
Waits(n) ==
  CASE part = "borrow" -> req[<<ann, bob>>[n]].pc # "idle"
    [] part = "starting" -> ~Starting!Idle(<<ann, bob>>[n])
    [] part = "serving" -> ~Serving!Idle(<<cat, dan>>[n])
    [] part = "secrets" -> LET s == <<"once", "many">>[n] IN
                             secret["id"].secret = s /\ secret["id"].until <= now
    [] part = "aliases" -> asker[<<ann, bob>>[n]] # "idle"
    [] OTHER -> FALSE

\* Every borrow is answered, every transaction of a starting instance and
\* beside it ends, and every ack beside another one, every secret that is over
\* is deleted, and every request for an alias is answered.
RequestsEnd == \A n \in 1..2 : Waits(n) ~> ~Waits(n)
=============================================================================
