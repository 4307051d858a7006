---------------------------- MODULE TablesProofs ----------------------------
(***************************************************************************)
(* The properties of MCTables, proved of its behaviours: every part that   *)
(* runs a component keeps the invariant of that component.  The theorems   *)
(* of SlotLockProofs and MailProofs are taken at the constants and         *)
(* variables of the part; Secrets and Aliases have their proofs here.      *)
(***************************************************************************)
EXTENDS MCTables, TLAPS

SlotFacts == INSTANCE SlotLockProofs WITH
  Borrowers <- {ann, bob}, MaxCount <- 2, MaxTtl <- 1, MaxAge <- 1, Slack <- 0, MaxLeases <- 4,
  Claims <- {}, Releases <- {}, Keys <- {}, Ids <- {}, InboxOf <- <<>>
AlarmFacts == INSTANCE SlotLockProofs WITH
  Borrowers <- {ann, bob}, MaxCount <- 1, MaxTtl <- 3, MaxAge <- 1, Slack <- 1, MaxLeases <- 3,
  Claims <- {}, Releases <- {}, Keys <- {}, Ids <- {}, InboxOf <- <<>>
ServingFacts == INSTANCE SlotLockProofs WITH
  Enqueues <- Senders, Claims <- Claimers, Acks <- {cat, dan}, Releases <- {}, Starts <- {},
  Keys <- {1, 2}, Ids <- {"x", "y"}, InboxOf <- "x" :> 1 @@ "y" :> 1,
  Borrowers <- {}, MaxCount <- 0, MaxTtl <- 0, MaxAge <- 0, Slack <- 0, MaxLeases <- 0
StartingFacts == INSTANCE SlotLockProofs WITH
  Claims <- {}, Releases <- {},
  Keys <- {1, 2}, Ids <- {"x", "y"}, InboxOf <- "x" :> 1 @@ "y" :> 2,
  Borrowers <- {}, MaxCount <- 0, MaxTtl <- 0, MaxAge <- 0, Slack <- 0, MaxLeases <- 0
EmailFacts == INSTANCE MailProofs WITH
  Users <- Owners, Aliases <- Names, Clients <- Visits, link <- login, req <- web,
  Mails <- {}, mail <- <<>>, run <- <<>>, accepted <- <<>>, counted <- <<>>, entitled <- <<>>

-----------------------------------------------------------------------------
(* The pool of slots *)

\* The part runs the component the theorems are about.
LEMMA SlotsRun ==
  /\ Slots!LibraryAssumption => SlotFacts!LibraryAssumption
  /\ Slots!Init => SlotFacts!Init
  /\ Slots!Next => SlotFacts!Next
  /\ UNCHANGED libraryVars => UNCHANGED SlotFacts!vars
<1>1. /\ Slots!LibraryAssumption => SlotFacts!LibraryAssumption
      /\ Slots!Init => SlotFacts!Init
  BY DEF
    Slots!LibraryAssumption, Slots!Init, Slots!Idle, Slots!NoAlarm,
    SlotFacts!LibraryAssumption, SlotFacts!Init, SlotFacts!Idle,
    SlotFacts!NoAlarm
<1>2. Slots!Next => SlotFacts!Next
  BY DEF
    Slots!Next, Slots!Ask, Slots!Begun, Slots!resource, Slots!signals,
    Slots!BorrowStep, Slots!NotFound, Slots!Missing, Slots!Done, Slots!Idle,
    Slots!NoAlarm, Slots!LockRow, Slots!Choose, Slots!Free, Slots!Expired,
    Slots!Lowest, Slots!Grant, Slots!NewIds, Slots!LeaseIds, Slots!Full,
    Slots!Alarms, Slots!NonNegative, Slots!Wake, Slots!Deadline,
    Slots!Subscribed, Slots!Return, Slots!Live, Slots!FailBorrow, Slots!Put,
    Slots!Delete, Slots!Notify, Slots!LoseNotification, Slots!Tick,
    Slots!Open, SlotFacts!Next, SlotFacts!Ask, SlotFacts!Begun,
    SlotFacts!resource, SlotFacts!signals, SlotFacts!BorrowStep,
    SlotFacts!NotFound, SlotFacts!Missing, SlotFacts!Done, SlotFacts!Idle,
    SlotFacts!NoAlarm, SlotFacts!LockRow, SlotFacts!Choose, SlotFacts!Free,
    SlotFacts!Expired, SlotFacts!Lowest, SlotFacts!Grant, SlotFacts!NewIds,
    SlotFacts!LeaseIds, SlotFacts!Full, SlotFacts!Alarms,
    SlotFacts!NonNegative, SlotFacts!Wake, SlotFacts!Deadline,
    SlotFacts!Subscribed, SlotFacts!Return, SlotFacts!Live,
    SlotFacts!FailBorrow, SlotFacts!Put, SlotFacts!Delete, SlotFacts!Notify,
    SlotFacts!LoseNotification, SlotFacts!Tick, SlotFacts!Open
<1>3. UNCHANGED libraryVars => UNCHANGED SlotFacts!vars
  BY DEF libraryVars, SlotFacts!vars
<1> QED
  BY <1>1, <1>2, <1>3

SlotsInv == part = "slots" => SlotFacts!IInv

LEMMA InitSlots == Init => SlotsInv
<1> QED
  BY PartsAssumption, SlotsRun, SlotFacts!InitIInv DEF Init, PartsAssumption, SlotsInv

LEMMA NextSlots == SlotsInv /\ [Next]_vars => SlotsInv'
<1> SUFFICES ASSUME SlotsInv, [Next]_vars, part' = "slots"
             PROVE  SlotFacts!IInv'
  BY DEF SlotsInv
<1>1. part = "slots" /\ (Slots!Next \/ UNCHANGED libraryVars)
  BY DEF Next, vars, InLibrary, InLocks, InSecrets, InAliases, InEmail
<1>2. SlotFacts!LibraryAssumption /\ SlotFacts!IInv /\ (SlotFacts!Next \/ UNCHANGED SlotFacts!vars)
  BY <1>1, PartsAssumption, SlotsRun DEF PartsAssumption, SlotsInv
<1> QED
  BY <1>2, SlotFacts!NextIInv

\* No slot is lent twice and no pool is overdrawn, in the tables as they are
\* (try_borrow, put_resource).
THEOREM SlotsAreLentOnce == Spec => []OneLeasePerSlot
<1>1. SlotsInv => OneLeasePerSlot
  <2> SUFFICES ASSUME part = "slots", SlotFacts!IInv
               PROVE  Slots!TypeOK /\ Slots!OnePerSlot /\ Slots!NeverOverIssued
    BY DEF OneLeasePerSlot, SlotsInv
  <2>1. SlotFacts!TypeOK /\ SlotFacts!OnePerSlot
    BY DEF SlotFacts!IInv
  <2>2. SlotFacts!NeverOverIssued
    BY PartsAssumption, SlotsRun, SlotFacts!LeasesWithinPeak DEF PartsAssumption
  <2>3. Slots!TypeOK
    BY <2>1 DEF
    Slots!TypeOK, Slots!Missing, Slots!Lease, Slots!LeaseIds, Slots!Slots,
    Slots!ReqPC, Slots!NoAlarm, SlotFacts!TypeOK, SlotFacts!Missing,
    SlotFacts!Lease, SlotFacts!LeaseIds, SlotFacts!Slots, SlotFacts!ReqPC,
    SlotFacts!NoAlarm
  <2>4. Slots!OnePerSlot /\ Slots!NeverOverIssued
    BY <2>1, <2>2 DEF
    Slots!OnePerSlot, Slots!NeverOverIssued, Slots!Live, SlotFacts!OnePerSlot,
    SlotFacts!NeverOverIssued, SlotFacts!Live,
    Slots!Cardinality, SlotFacts!Cardinality
  <2> QED
    BY <2>3, <2>4
<1> QED
  BY <1>1, InitSlots, NextSlots, PTL DEF Spec

\* Every lease is granted for a slot that is free at that moment (try_borrow).
THEOREM SlotsAreFreeWhenGranted == Spec => GrantsFreeSlot
<1>1. SlotsInv => (part = "slots" => Slots!GrantsFreeSlot)
  <2> SUFFICES ASSUME part = "slots", SlotFacts!IInv
               PROVE  Slots!GrantsFreeSlot
    BY DEF SlotsInv
  <2>1. SlotFacts!GrantsFreeSlot
    BY PartsAssumption, SlotsRun, SlotFacts!FreeWhenGranted DEF PartsAssumption
  <2> QED
    BY <2>1 DEF
    Slots!GrantsFreeSlot, Slots!Grant, Slots!NewIds, Slots!LeaseIds,
    Slots!Expired, Slots!Lowest, Slots!Done, Slots!Idle, Slots!NoAlarm,
    Slots!resource, Slots!Live, SlotFacts!GrantsFreeSlot, SlotFacts!Grant,
    SlotFacts!NewIds, SlotFacts!LeaseIds, SlotFacts!Expired, SlotFacts!Lowest,
    SlotFacts!Done, SlotFacts!Idle, SlotFacts!NoAlarm, SlotFacts!resource,
    SlotFacts!Live
<1> QED
  BY <1>1, InitSlots, NextSlots, PTL DEF Spec, GrantsFreeSlot

-----------------------------------------------------------------------------
(* The borrowers that wait *)

\* The part runs the component the theorems are about.
LEMMA AlarmsRun ==
  /\ Alarms!LibraryAssumption => AlarmFacts!LibraryAssumption
  /\ Alarms!Init => AlarmFacts!Init
  /\ Alarms!Next => AlarmFacts!Next
  /\ UNCHANGED libraryVars => UNCHANGED AlarmFacts!vars
<1>1. /\ Alarms!LibraryAssumption => AlarmFacts!LibraryAssumption
      /\ Alarms!Init => AlarmFacts!Init
  BY DEF
    Alarms!LibraryAssumption, Alarms!Init, Alarms!Idle, Alarms!NoAlarm,
    AlarmFacts!LibraryAssumption, AlarmFacts!Init, AlarmFacts!Idle,
    AlarmFacts!NoAlarm
<1>2. Alarms!Next => AlarmFacts!Next
  BY DEF
    Alarms!Next, Alarms!Ask, Alarms!Begun, Alarms!resource, Alarms!signals,
    Alarms!BorrowStep, Alarms!NotFound, Alarms!Missing, Alarms!Done,
    Alarms!Idle, Alarms!NoAlarm, Alarms!LockRow, Alarms!Choose, Alarms!Free,
    Alarms!Expired, Alarms!Lowest, Alarms!Grant, Alarms!NewIds,
    Alarms!LeaseIds, Alarms!Full, Alarms!Alarms, Alarms!NonNegative,
    Alarms!Wake, Alarms!Deadline, Alarms!Subscribed, Alarms!Return,
    Alarms!Live, Alarms!FailBorrow, Alarms!Put, Alarms!Delete, Alarms!Notify,
    Alarms!LoseNotification, Alarms!Tick, Alarms!Open, AlarmFacts!Next,
    AlarmFacts!Ask, AlarmFacts!Begun, AlarmFacts!resource, AlarmFacts!signals,
    AlarmFacts!BorrowStep, AlarmFacts!NotFound, AlarmFacts!Missing,
    AlarmFacts!Done, AlarmFacts!Idle, AlarmFacts!NoAlarm, AlarmFacts!LockRow,
    AlarmFacts!Choose, AlarmFacts!Free, AlarmFacts!Expired, AlarmFacts!Lowest,
    AlarmFacts!Grant, AlarmFacts!NewIds, AlarmFacts!LeaseIds, AlarmFacts!Full,
    AlarmFacts!Alarms, AlarmFacts!NonNegative, AlarmFacts!Wake,
    AlarmFacts!Deadline, AlarmFacts!Subscribed, AlarmFacts!Return,
    AlarmFacts!Live, AlarmFacts!FailBorrow, AlarmFacts!Put, AlarmFacts!Delete,
    AlarmFacts!Notify, AlarmFacts!LoseNotification, AlarmFacts!Tick,
    AlarmFacts!Open
<1>3. UNCHANGED libraryVars => UNCHANGED AlarmFacts!vars
  BY DEF libraryVars, AlarmFacts!vars
<1> QED
  BY <1>1, <1>2, <1>3

AlarmsInv == part = "alarms" => AlarmFacts!IInv /\ AlarmFacts!Sleepers

LEMMA InitAlarms == Init => AlarmsInv
<1> QED
  BY PartsAssumption, AlarmsRun, AlarmFacts!InitIInv, AlarmFacts!InitSleepers
  DEF Init, PartsAssumption, AlarmsInv

LEMMA NextAlarms == AlarmsInv /\ [Next]_vars => AlarmsInv'
<1> SUFFICES ASSUME AlarmsInv, [Next]_vars, part' = "alarms"
             PROVE  AlarmFacts!IInv' /\ AlarmFacts!Sleepers'
  BY DEF AlarmsInv
<1>1. part = "alarms" /\ (Alarms!Next \/ UNCHANGED libraryVars)
  BY DEF Next, vars, InLibrary, InLocks, InSecrets, InAliases, InEmail
<1>2. AlarmFacts!LibraryAssumption /\ AlarmFacts!IInv /\ AlarmFacts!Sleepers
      /\ (AlarmFacts!Next \/ UNCHANGED AlarmFacts!vars)
  BY <1>1, PartsAssumption, AlarmsRun DEF PartsAssumption, AlarmsInv
<1> QED
  BY <1>2, AlarmFacts!NextIInv, AlarmFacts!NextSleepers

\* Nobody sleeps beside a free slot without a notification or an alarm that is
\* due, while no notification is lost (borrow_resource, notify_library).
THEOREM BorrowersAreWoken == Spec => []BorrowersWake
<1>1. AlarmsInv => BorrowersWake
  <2> SUFFICES ASSUME AlarmFacts!IInv, AlarmFacts!Sleepers
               PROVE  Alarms!NoLostWakeup
    BY DEF BorrowersWake, AlarmsInv
  <2>1. AlarmFacts!NoLostWakeup
    BY PartsAssumption, AlarmsRun, AlarmFacts!SleepersMeansAwake DEF PartsAssumption
  <2> QED
    BY <2>1 DEF
    Alarms!NoLostWakeup, Alarms!FreeNow, Alarms!Live, AlarmFacts!NoLostWakeup,
    AlarmFacts!FreeNow, AlarmFacts!Live
<1> QED
  BY <1>1, InitAlarms, NextAlarms, PTL DEF Spec

-----------------------------------------------------------------------------
(* The locks of the inboxes *)

\* The parts run the component the theorems are about.
LEMMA ServingRuns ==
  /\ Serving!LocksAssumption => ServingFacts!Lock!LocksAssumption
  /\ Serving!Init => ServingFacts!Lock!Init
  /\ Serving!Next => ServingFacts!Lock!Next
  /\ UNCHANGED lockVars => UNCHANGED ServingFacts!Lock!vars
<1>1. /\ Serving!LocksAssumption => ServingFacts!Lock!LocksAssumption
      /\ Serving!Init => ServingFacts!Lock!Init
  BY DEF
    Serving!IsFiniteSet, ServingFacts!Lock!IsFiniteSet, Serving!LocksAssumption,
    Serving!Transactions, Serving!LockNames, Serving!Counter, Serving!Row,
    Serving!Advisory, Serving!Init, ServingFacts!Lock!LocksAssumption,
    ServingFacts!Lock!Transactions, ServingFacts!Lock!LockNames,
    ServingFacts!Lock!Counter, ServingFacts!Lock!Row, ServingFacts!Lock!Advisory,
    ServingFacts!Lock!Init
<1>2. Serving!Next => ServingFacts!Lock!Next
  BY DEF
    Serving!Next, Serving!Transactions, Serving!Begin, Serving!Enqueue,
    Serving!Begins, Serving!Idle, Serving!Counter, Serving!Claim, Serving!Free,
    Serving!Row, Serving!Scan, Serving!Start, Serving!Advisory, Serving!Runs,
    Serving!Request, Serving!NextLocks, Serving!Blocked, Serving!Updated, Serving!Take,
    Serving!Locks, Serving!Grant, Serving!Proceed, Serving!Commit, Serving!Ends,
    Serving!Over, Serving!Fail, Serving!Abort, Serving!Circles, Serving!Closed,
    Serving!Waiting, Serving!Blocker, ServingFacts!Lock!Next,
    ServingFacts!Lock!Transactions, ServingFacts!Lock!Begin,
    ServingFacts!Lock!Enqueue, ServingFacts!Lock!Begins, ServingFacts!Lock!Idle,
    ServingFacts!Lock!Counter, ServingFacts!Lock!Claim, ServingFacts!Lock!Free,
    ServingFacts!Lock!Row, ServingFacts!Lock!Scan, ServingFacts!Lock!Start,
    ServingFacts!Lock!Advisory, ServingFacts!Lock!Runs,
    ServingFacts!Lock!Request, ServingFacts!Lock!NextLocks,
    ServingFacts!Lock!Blocked, ServingFacts!Lock!Updated, ServingFacts!Lock!Take, ServingFacts!Lock!Locks,
    ServingFacts!Lock!Grant, ServingFacts!Lock!Proceed, ServingFacts!Lock!Commit,
    ServingFacts!Lock!Ends, ServingFacts!Lock!Over, ServingFacts!Lock!Fail,
    ServingFacts!Lock!Abort, ServingFacts!Lock!Circles, ServingFacts!Lock!Closed,
    ServingFacts!Lock!Waiting, ServingFacts!Lock!Blocker
<1>3. UNCHANGED lockVars => UNCHANGED ServingFacts!Lock!vars
  BY DEF lockVars, ServingFacts!Lock!vars
<1> QED
  BY <1>1, <1>2, <1>3

LEMMA StartingRuns ==
  /\ Starting!LocksAssumption => StartingFacts!Lock!LocksAssumption
  /\ Starting!Init => StartingFacts!Lock!Init
  /\ Starting!Next => StartingFacts!Lock!Next
  /\ UNCHANGED lockVars => UNCHANGED StartingFacts!Lock!vars
<1>1. /\ Starting!LocksAssumption => StartingFacts!Lock!LocksAssumption
      /\ Starting!Init => StartingFacts!Lock!Init
  BY DEF
    Starting!IsFiniteSet, StartingFacts!Lock!IsFiniteSet,
    Starting!LocksAssumption, Starting!Transactions, Starting!LockNames,
    Starting!Counter, Starting!Row, Starting!Advisory, Starting!Init,
    StartingFacts!Lock!LocksAssumption, StartingFacts!Lock!Transactions,
    StartingFacts!Lock!LockNames, StartingFacts!Lock!Counter,
    StartingFacts!Lock!Row, StartingFacts!Lock!Advisory, StartingFacts!Lock!Init
<1>2. Starting!Next => StartingFacts!Lock!Next
  BY DEF
    Starting!Next, Starting!Transactions, Starting!Begin, Starting!Enqueue,
    Starting!Begins, Starting!Idle, Starting!Counter, Starting!Claim,
    Starting!Free, Starting!Row, Starting!Scan, Starting!Start,
    Starting!Advisory, Starting!Runs, Starting!Request, Starting!NextLocks,
    Starting!Blocked, Starting!Updated, Starting!Take, Starting!Locks, Starting!Grant,
    Starting!Proceed, Starting!Commit, Starting!Ends, Starting!Over,
    Starting!Fail, Starting!Abort, Starting!Circles, Starting!Closed,
    Starting!Waiting, Starting!Blocker, StartingFacts!Lock!Next,
    StartingFacts!Lock!Transactions, StartingFacts!Lock!Begin,
    StartingFacts!Lock!Enqueue, StartingFacts!Lock!Begins,
    StartingFacts!Lock!Idle, StartingFacts!Lock!Counter,
    StartingFacts!Lock!Claim, StartingFacts!Lock!Free, StartingFacts!Lock!Row,
    StartingFacts!Lock!Scan, StartingFacts!Lock!Start,
    StartingFacts!Lock!Advisory, StartingFacts!Lock!Runs,
    StartingFacts!Lock!Request, StartingFacts!Lock!NextLocks,
    StartingFacts!Lock!Blocked, StartingFacts!Lock!Updated,
    StartingFacts!Lock!Take,
    StartingFacts!Lock!Locks, StartingFacts!Lock!Grant,
    StartingFacts!Lock!Proceed, StartingFacts!Lock!Commit,
    StartingFacts!Lock!Ends, StartingFacts!Lock!Over, StartingFacts!Lock!Fail,
    StartingFacts!Lock!Abort, StartingFacts!Lock!Circles,
    StartingFacts!Lock!Closed, StartingFacts!Lock!Waiting,
    StartingFacts!Lock!Blocker
<1>3. UNCHANGED lockVars => UNCHANGED StartingFacts!Lock!vars
  BY DEF lockVars, StartingFacts!Lock!vars
<1> QED
  BY <1>1, <1>2, <1>3

LocksInv ==
  /\ part = "serving" => ServingFacts!LocksIInv
  /\ part = "starting" => StartingFacts!LocksIInv

LEMMA InitLocks == Init => LocksInv
<1> SUFFICES ASSUME Init
             PROVE  LocksInv
  OBVIOUS
<1>1. CASE part = "serving"
  BY <1>1, PartsAssumption, ServingRuns, ServingFacts!InitLocks DEF Init, PartsAssumption, LocksInv
<1>2. CASE part = "starting"
  BY <1>2, PartsAssumption, StartingRuns, StartingFacts!InitLocks
  DEF Init, PartsAssumption, LocksInv
<1> QED
  BY <1>1, <1>2 DEF LocksInv

LEMMA NextLocks == LocksInv /\ [Next]_vars => LocksInv'
<1> SUFFICES ASSUME LocksInv, [Next]_vars
             PROVE  LocksInv'
  OBVIOUS
<1>1. CASE part' = "serving"
  <2>1. part = "serving" /\ (Serving!Next \/ UNCHANGED lockVars)
    BY <1>1 DEF Next, vars, InLibrary, InLocks, InSecrets, InAliases, InEmail
  <2>2. /\ ServingFacts!Lock!LocksAssumption /\ ServingFacts!LocksIInv
        /\ ServingFacts!Lock!Next \/ UNCHANGED ServingFacts!Lock!vars
    BY <2>1, PartsAssumption, ServingRuns DEF PartsAssumption, LocksInv
  <2>3. ServingFacts!LocksIInv'
    BY <2>2, ServingFacts!NextLocksIInv
  <2> QED
    BY <1>1, <2>3 DEF LocksInv
<1>2. CASE part' = "starting"
  <2>1. part = "starting" /\ (Starting!Next \/ UNCHANGED lockVars)
    BY <1>2 DEF Next, vars, InLibrary, InLocks, InSecrets, InAliases, InEmail
  <2>2. /\ StartingFacts!Lock!LocksAssumption /\ StartingFacts!LocksIInv
        /\ StartingFacts!Lock!Next \/ UNCHANGED StartingFacts!Lock!vars
    BY <2>1, PartsAssumption, StartingRuns DEF PartsAssumption, LocksInv
  <2>3. StartingFacts!LocksIInv'
    BY <2>2, StartingFacts!NextLocksIInv
  <2> QED
    BY <1>2, <2>3 DEF LocksInv
<1> QED
  BY <1>1, <1>2 DEF LocksInv

\* Serving instances wait in circles only where acks and releases scan the
\* rows of one inbox, and an instance that starts only with enqueues, never
\* with scans (insert_inbox_messages, claim_once, ack_messages,
\* release_messages, migrate).
THEOREM NoOtherCircles == Spec => []CirclesAreKnown
<1>1. LocksInv => CirclesAreKnown
  <2> SUFFICES ASSUME LocksInv
               PROVE  CirclesAreKnown
    OBVIOUS
  <2>1. ASSUME part = "serving"
        PROVE  Serving!CirclesAreKnown
    <3>1. ServingFacts!Lock!CirclesAreKnown
      BY <2>1, PartsAssumption, ServingRuns, ServingFacts!CirclesKnown DEF PartsAssumption, LocksInv
    <3> QED
      BY <3>1 DEF
      Serving!CirclesAreKnown, Serving!Circles, Serving!Closed,
      Serving!Transactions, Serving!Waiting, Serving!Blocked, Serving!Updated, Serving!Blocker,
      ServingFacts!Lock!CirclesAreKnown, ServingFacts!Lock!Circles,
      ServingFacts!Lock!Closed, ServingFacts!Lock!Transactions,
      ServingFacts!Lock!Waiting, ServingFacts!Lock!Blocked, ServingFacts!Lock!Updated,
      ServingFacts!Lock!Blocker
  <2>2. ASSUME part = "starting"
        PROVE  Starting!CirclesAreKnown
    <3>1. StartingFacts!Lock!CirclesAreKnown
      BY <2>2, PartsAssumption, StartingRuns, StartingFacts!CirclesKnown
      DEF PartsAssumption, LocksInv
    <3> QED
      BY <3>1 DEF
      Starting!CirclesAreKnown, Starting!Circles, Starting!Closed,
      Starting!Transactions, Starting!Waiting, Starting!Blocked, Starting!Updated,
      Starting!Blocker, StartingFacts!Lock!CirclesAreKnown,
      StartingFacts!Lock!Circles, StartingFacts!Lock!Closed,
      StartingFacts!Lock!Transactions, StartingFacts!Lock!Waiting,
      StartingFacts!Lock!Blocked, StartingFacts!Lock!Updated, StartingFacts!Lock!Blocker
  <2> QED
    BY <2>1, <2>2 DEF CirclesAreKnown
<1> QED
  BY <1>1, InitLocks, NextLocks, PTL DEF Spec

-----------------------------------------------------------------------------
(* Secrets *)

SecretRow == [secret : Notes \cup {None}, until : Nat]

SecretTypes ==
  /\ now \in Nat
  /\ secret \in [SecretIds -> SecretRow]
  /\ deleting \in [SecretIds -> Readers \cup {"worker", None}]
  /\ reader \in [Readers -> {"idle", "insert", "delete", "select", "commit"}]
  /\ job \in [Readers -> [op : {"none", "create", "read", "burn"},
                          of : Notes \cup {None}, id : SecretIds \cup {None},
                          at : Nat, saw : SecretRow, n : Int]]
  /\ link \in [Notes -> [id : SecretIds \cup {None}, until : Nat]]
  /\ given \in [Notes -> 0..2]
  /\ left \in [at : Nat, ids : SUBSET SecretIds, on : BOOLEAN]
  /\ gone \subseteq Notes /\ burnt \subseteq Notes /\ over \subseteq Notes

\* A request has what its place needs.
JobFits(c) ==
  /\ reader[c] = "idle" => job[c].op = "none"
  /\ reader[c] = "insert" => job[c].op = "create" /\ job[c].of \in Notes
  /\ reader[c] \in {"delete", "select", "commit"} =>
       job[c].op \in {"read", "burn"} /\ job[c].of \in Notes /\ job[c].id \in SecretIds
SecretJobs == \A c \in Readers : JobFits(c)

\* A secret that is being stored is new, and nobody else stores it.
MakersAlone ==
  \A c \in Readers : reader[c] = "insert" =>
    /\ link[job[c].of] = Secret!NoLink
    /\ \A d \in Readers \ {c} : reader[d] = "insert" => job[d].of # job[c].of

\* A row is locked by the client that is about to commit its deletion, and is
\* then as that client saw it; or by the worker, and is then over.
LocksFit ==
  /\ \A c \in Readers : reader[c] = "commit" =>
       /\ deleting[job[c].id] = c /\ secret[job[c].id] = job[c].saw /\ job[c].saw.secret \in Notes
       /\ job[c].op = "read" => job[c].saw.secret \in ReadOnce
  /\ \A i \in SecretIds : deleting[i] \in Readers =>
       reader[deleting[i]] = "commit" /\ job[deleting[i]].id = i
  /\ \A i \in SecretIds : deleting[i] = "worker" => secret[i].until <= now
  /\ left.at <= now

\* A secret is in one row, after it was stored and before it is taken.
SecretRowsFit ==
  /\ \A i \in SecretIds : secret[i].secret \in Notes =>
       link[secret[i].secret] # Secret!NoLink /\ secret[i].secret \notin gone
  /\ \A i \in SecretIds : secret[i].secret = None => secret[i] = Secret!NoRow
  /\ \A i, j \in SecretIds : secret[i].secret = secret[j].secret /\ secret[i].secret # None => i = j

\* Only what was stored is taken, and only what is taken is answered.
SecretsTaken ==
  /\ \A s \in gone : link[s] # Secret!NoLink
  /\ burnt \subseteq gone
  /\ \A s \in ReadOnce : given[s] # 0 => s \in gone

\* A link holds until its secret is taken or over.
SecretsHeld ==
  \A s \in Notes : Secret!Known(s) /\ s \notin gone /\ ~Secret!Ended(s) =>
    secret[link[s].id] = [secret |-> s, until |-> link[s].until]

SecretIInv ==
  /\ SecretTypes /\ SecretJobs /\ MakersAlone /\ LocksFit /\ SecretRowsFit
  /\ SecretsTaken /\ SecretsHeld /\ Secret!TakenOnce

-----------------------------------------------------------------------------

LEMMA InitSecretIInv ==
  ASSUME Secret!SecretsAssumption, Secret!Init
  PROVE  SecretIInv
<1> USE DEF Secret!Init, Secret!SecretsAssumption
<1>1. SecretTypes
  BY DEF SecretTypes, Secret!NoRow, Secret!NoJob, Secret!NoLink, Secret!Asleep, SecretRow
<1>2. SecretJobs /\ MakersAlone
  BY DEF SecretJobs, JobFits, MakersAlone, Secret!NoJob
<1>3. LocksFit /\ SecretRowsFit
  BY DEF LocksFit, SecretRowsFit, Secret!NoRow, Secret!Asleep
<1>4. SecretsTaken /\ SecretsHeld /\ Secret!TakenOnce
  BY DEF SecretsTaken, SecretsHeld, Secret!TakenOnce, Secret!Known, Secret!NoLink
<1> QED
  BY <1>1, <1>2, <1>3, <1>4 DEF SecretIInv

\* A request moves on or ends, and the tables stay as they are.
LEMMA RequestMoves ==
  ASSUME Secret!SecretsAssumption, SecretIInv, NEW c \in Readers, UNCHANGED <<now, secret,
           deleting, link, gone, burnt, left>>,
         reader[c] # "commit",
         NEW at \in {"idle", "insert", "delete", "select"}, reader' = [reader EXCEPT ![c] = at],
         NEW j \in [op : {"none", "create", "read", "burn"}, of : Notes \cup {None},
                    id : SecretIds \cup {None}, at : Nat, saw : SecretRow, n : Int],
         job' = [job EXCEPT ![c] = j],
         JobFits(c)',
         at = "insert" => /\ link[j.of] = Secret!NoLink
                          /\ \A d \in Readers \ {c} : reader[d] = "insert" => job[d].of # j.of,
         given' \in [Notes -> 0..2], \A s \in ReadOnce : given'[s] = given[s],
         over' \subseteq Notes
  PROVE  SecretIInv'
<1> USE DEF SecretIInv
<1>1. /\ reader'[c] = at /\ job'[c] = j
      /\ \A d \in Readers \ {c} : reader'[d] = reader[d] /\ job'[d] = job[d]
  BY DEF SecretTypes
<1>2. SecretTypes'
  BY DEF SecretTypes
<1>3. SecretJobs'
  BY <1>1 DEF SecretJobs, JobFits
<1>4. MakersAlone'
  BY <1>1 DEF MakersAlone
<1>5. LocksFit'
  BY <1>1 DEF LocksFit
<1>6. SecretRowsFit' /\ SecretsHeld'
  BY DEF SecretRowsFit, SecretsHeld, Secret!Known, Secret!Ended
<1>7. SecretsTaken' /\ Secret!TakenOnce'
  BY DEF SecretsTaken, Secret!TakenOnce
<1> QED
  BY <1>2, <1>3, <1>4, <1>5, <1>6, <1>7

LEMMA CreateStep ==
  ASSUME Secret!SecretsAssumption, SecretIInv, NEW c \in Readers, NEW s \in Notes,
           NEW hours \in 1..SecretHours,
         Secret!Create(c, s, hours)
  PROVE  SecretIInv'
<1> DEFINE j == [Secret!NoJob EXCEPT !.op = "create", !.of = s, !.at = hours, !.n = SecretTries]
<1>1. /\ reader[c] = "idle" /\ ~Secret!Asked(s) /\ reader' = [reader EXCEPT ![c] = "insert"]
      /\ job' = [job EXCEPT ![c] = j]
      /\ UNCHANGED <<now, secret, deleting, link, gone, burnt, left, given, over>>
  BY DEF Secret!Create, Secret!Go, Secret!table, Secret!told
<1>2. /\ j \in [op : {"none", "create", "read", "burn"}, of : Notes \cup {None},
                id : SecretIds \cup {None}, at : Nat, saw : SecretRow, n : Int]
      /\ j.op = "create" /\ j.of = s
  <2>1. Secret!NoJob \in [op : {"none", "create", "read", "burn"}, of : Notes \cup {None},
                          id : SecretIds \cup {None}, at : Nat, saw : SecretRow, n : Int]
    BY DEF Secret!NoJob, Secret!NoRow, SecretRow
  <2>2. hours \in Nat /\ SecretTries \in Int
    BY DEF Secret!SecretsAssumption
  <2> QED
    BY <2>1, <2>2
<1>3. JobFits(c)'
  BY <1>1, <1>2 DEF JobFits, SecretIInv, SecretTypes
<1>4. link[s] = Secret!NoLink /\ \A d \in Readers : reader[d] = "insert" => job[d].of # s
  BY <1>1 DEF Secret!Asked, SecretIInv, SecretJobs, JobFits
<1>5. given \in [Notes -> 0..2] /\ over \subseteq Notes
  BY DEF SecretIInv, SecretTypes
<1> HIDE DEF j
<1> QED
  BY <1>1, <1>2, <1>3, <1>4, <1>5, RequestMoves

\* A request ends beside the tables.
LEMMA RequestEnds ==
  ASSUME Secret!SecretsAssumption, SecretIInv, NEW c \in Readers, Secret!Done(c),
         UNCHANGED <<now, secret, deleting, link, gone, burnt, left>>, reader[c] # "commit",
         given' \in [Notes -> 0..2], \A s \in ReadOnce : given'[s] = given[s],
         over' \subseteq Notes
  PROVE  SecretIInv'
<1>1. reader' = [reader EXCEPT ![c] = "idle"] /\ job' = [job EXCEPT ![c] = Secret!NoJob]
  BY DEF Secret!Done, Secret!Go
<1>2. /\ Secret!NoJob \in [op : {"none", "create", "read", "burn"}, of : Notes \cup {None},
                           id : SecretIds \cup {None}, at : Nat, saw : SecretRow, n : Int]
      /\ Secret!NoJob.op = "none"
  BY DEF Secret!NoJob, Secret!NoRow, SecretRow
<1>3. JobFits(c)'
  BY <1>1, <1>2 DEF JobFits, SecretIInv, SecretTypes
<1> QED
  BY <1>1, <1>2, <1>3, RequestMoves

\* A row is stored under a free id, for a request that then ends.
LEMMA RowStored ==
  ASSUME Secret!SecretsAssumption, SecretIInv, NEW c \in Readers, NEW i \in SecretIds,
           reader[c] = "insert",
         deleting[i] = None, secret[i] = Secret!NoRow, Secret!Done(c),
         secret' = [secret EXCEPT ![i] = [secret |-> job[c].of, until |-> now + job[c].at]],
         NEW l \in [id : SecretIds \cup {None}, until : Nat], l # Secret!NoLink,
         l.id # None => l = [id |-> i, until |-> now + job[c].at],
         link' = [link EXCEPT ![job[c].of] = l],
         UNCHANGED <<now, deleting, gone, burnt, given, over, left>>
  PROVE  SecretIInv'
<1> USE DEF SecretIInv
<1> DEFINE s == job[c].of
           new == [secret |-> s, until |-> now + job[c].at]
<1>1. /\ s \in Notes /\ link[s] = Secret!NoLink /\ new \in SecretRow /\ s \notin gone /\ s # None
      /\ \A d \in Readers \ {c} : reader[d] = "insert" => job[d].of # s
  BY
  DEF SecretTypes, SecretJobs, JobFits, MakersAlone, SecretsTaken, SecretRow,
      Secret!SecretsAssumption
<1>2. /\ reader' = [reader EXCEPT ![c] = "idle"] /\ job' = [job EXCEPT ![c] = Secret!NoJob]
      /\ reader'[c] = "idle" /\ job'[c] = Secret!NoJob
      /\ \A d \in Readers \ {c} : reader'[d] = reader[d] /\ job'[d] = job[d]
  BY DEF Secret!Done, Secret!Go, SecretTypes
<1>3. /\ secret'[i] = new /\ \A k \in SecretIds \ {i} : secret'[k] = secret[k]
      /\ link'[s] = l /\ \A x \in Notes \ {s} : link'[x] = link[x]
  BY <1>1 DEF SecretTypes
<1>4. Secret!NoJob \in [op : {"none", "create", "read", "burn"}, of : Notes \cup {None},
                        id : SecretIds \cup {None}, at : Nat, saw : SecretRow, n : Int]
      /\ Secret!NoJob.op = "none"
  BY DEF Secret!NoJob, Secret!NoRow, SecretRow
<1>5. SecretTypes'
  BY <1>1, <1>2, <1>3, <1>4 DEF SecretTypes
<1>6. SecretJobs'
  BY <1>2, <1>4 DEF SecretJobs, JobFits
<1>7. MakersAlone'
  BY <1>1, <1>2, <1>3 DEF MakersAlone, SecretJobs, JobFits
<1>8. LocksFit'
  <2>1. \A k \in SecretIds : deleting[k] # None => secret'[k] = secret[k]
    BY <1>3
  <2>2. \A d \in Readers : deleting[i] # d
    BY DEF Secret!SecretsAssumption
  <2>3. None # "worker"
    BY DEF Secret!SecretsAssumption
  <2> QED
    BY <1>2, <1>3, <2>1, <2>2, <2>3 DEF LocksFit, SecretJobs, JobFits
<1>9. \A k \in SecretIds : secret[k].secret # s
  BY <1>1 DEF SecretRowsFit
<1>10. SecretRowsFit'
  BY <1>1, <1>3, <1>9 DEF SecretRowsFit, SecretTypes, SecretRow
<1>11. SecretsTaken' /\ Secret!TakenOnce'
  BY <1>1, <1>3 DEF SecretsTaken, Secret!TakenOnce, SecretTypes
<1>12. SecretsHeld'
  <2> SUFFICES ASSUME NEW x \in Notes, link'[x].id # None, x \notin gone, ~(link'[x].until <= now)
               PROVE  secret'[link'[x].id] = [secret |-> x, until |-> link'[x].until]
    BY DEF SecretsHeld, Secret!Known, Secret!Ended
  <2>1. CASE x = s
    BY <1>1, <1>3, <2>1
  <2>2. CASE x # s
    <3>1. secret[link[x].id] = [secret |-> x, until |-> link[x].until]
      BY <1>3, <2>2 DEF SecretsHeld, Secret!Known, Secret!Ended
    <3>2. secret[link[x].id] # Secret!NoRow
      BY <3>1 DEF Secret!NoRow, Secret!SecretsAssumption
    <3> QED
      BY <1>3, <2>2, <3>1, <3>2 DEF SecretTypes
  <2> QED
    BY <2>1, <2>2
<1> QED
  BY <1>5, <1>6, <1>7, <1>8, <1>10, <1>11, <1>12

LEMMA SecretInsertStep ==
  ASSUME Secret!SecretsAssumption, SecretIInv, NEW c \in Readers, NEW i \in SecretIds,
           Secret!Insert(c, i)
  PROVE  SecretIInv'
<1>1. /\ reader[c] = "insert" /\ deleting[i] = None
      /\ UNCHANGED <<now, deleting, left, given, gone, burnt, over>>
      /\ given \in [Notes -> 0..2] /\ over \subseteq Notes
  BY DEF Secret!Insert, Secret!told, SecretIInv, SecretTypes
<1>2. CASE secret[i] = Secret!NoRow
  <2> DEFINE l == [id |-> i, until |-> now + job[c].at]
  <2>1. /\ secret' = [secret EXCEPT ![i] = [secret |-> job[c].of, until |-> now + job[c].at]]
        /\ link' = [link EXCEPT ![job[c].of] = l] /\ Secret!Done(c)
    BY <1>2 DEF Secret!Insert, Secret!Stored
  <2>2. l \in [id : SecretIds \cup {None}, until : Nat] /\ l.id = i
    BY DEF SecretIInv, SecretTypes
  <2>3. l # Secret!NoLink
    BY <2>2 DEF Secret!NoLink, Secret!SecretsAssumption
  <2> QED
    BY <1>1, <1>2, <2>1, <2>2, <2>3, RowStored
<1>3. CASE secret[i] # Secret!NoRow /\ job[c].n = 1
  <2>1. Secret!Done(c) /\ UNCHANGED <<secret, link>>
    BY <1>3 DEF Secret!Insert
  <2> QED
    BY <1>1, <2>1, RequestEnds
<1>4. CASE secret[i] # Secret!NoRow /\ job[c].n # 1
  <2> DEFINE j == [job[c] EXCEPT !.n = @ - 1]
  <2>1. UNCHANGED <<secret, link, reader>> /\ job' = [job EXCEPT ![c] = j]
    BY <1>4 DEF Secret!Insert
  <2>2. /\ j \in [op : {"none", "create", "read", "burn"}, of : Notes \cup {None},
                  id : SecretIds \cup {None}, at : Nat, saw : SecretRow, n : Int]
        /\ j.op = job[c].op /\ j.of = job[c].of
    BY DEF SecretIInv, SecretTypes
  <2> HIDE DEF j
  <2>3. reader' = [reader EXCEPT ![c] = "insert"] /\ job'[c] = j /\ JobFits(c)'
    BY <1>1, <2>1, <2>2 DEF SecretIInv, SecretTypes, SecretJobs, JobFits
  <2>4. /\ link[j.of] = Secret!NoLink
        /\ \A d \in Readers \ {c} : reader[d] = "insert" => job[d].of # j.of
    BY <1>1, <2>2 DEF SecretIInv, MakersAlone
  <2> QED
    BY <1>1, <2>1, <2>2, <2>3, <2>4, RequestMoves
<1> QED
  BY <1>2, <1>3, <1>4

\* The secret is lost with its link, whether or not it was stored.
LEMMA InsertFailsStep ==
  ASSUME Secret!SecretsAssumption, SecretIInv, NEW c \in Readers, NEW i \in SecretIds,
           Secret!InsertFails(c, i)
  PROVE  SecretIInv'
<1>1. /\ reader[c] = "insert" /\ deleting[i] = None /\ Secret!Done(c)
      /\ link' = [link EXCEPT ![job[c].of] = Secret!Lost]
      /\ UNCHANGED <<now, deleting, left, given, gone, burnt, over>>
  BY DEF Secret!InsertFails, Secret!told
<1>2. /\ Secret!Lost \in [id : SecretIds \cup {None}, until : Nat] /\ Secret!Lost # Secret!NoLink
      /\ Secret!Lost.id = None
  BY DEF Secret!Lost, Secret!NoLink
<1>3. CASE secret[i] = Secret!NoRow
           /\ secret' = [secret EXCEPT ![i] = [secret |-> job[c].of, until |-> now + job[c].at]]
  BY <1>1, <1>2, <1>3, RowStored
<1>4. CASE UNCHANGED secret
  <2> USE DEF SecretIInv
  <2>1. /\ job[c].of \in Notes /\ link[job[c].of] = Secret!NoLink
        /\ \A d \in Readers \ {c} : reader[d] = "insert" => job[d].of # job[c].of
    BY <1>1 DEF SecretJobs, JobFits, MakersAlone
  <2>2. /\ link'[job[c].of] = Secret!Lost
        /\ \A x \in Notes \ {job[c].of} : link'[x] = link[x]
        /\ link' \in [Notes -> [id : SecretIds \cup {None}, until : Nat]]
    BY <1>1, <1>2, <2>1 DEF SecretTypes
  <2>3. /\ reader' = [reader EXCEPT ![c] = "idle"] /\ job' = [job EXCEPT ![c] = Secret!NoJob]
        /\ reader'[c] = "idle" /\ job'[c] = Secret!NoJob
        /\ \A d \in Readers \ {c} : reader'[d] = reader[d] /\ job'[d] = job[d]
    BY <1>1 DEF Secret!Done, Secret!Go, SecretTypes
  <2>4. Secret!NoJob \in [op : {"none", "create", "read", "burn"}, of : Notes \cup {None},
                          id : SecretIds \cup {None}, at : Nat, saw : SecretRow, n : Int]
        /\ Secret!NoJob.op = "none"
    BY DEF Secret!NoJob, Secret!NoRow, SecretRow
  <2>5. SecretTypes' /\ SecretJobs'
    BY <1>1, <1>4, <2>2, <2>3, <2>4 DEF SecretTypes, SecretJobs, JobFits
  <2>6. MakersAlone'
    BY <2>1, <2>2, <2>3 DEF MakersAlone, SecretJobs, JobFits
  <2>7. LocksFit'
    BY <1>1, <1>4, <2>3 DEF LocksFit, SecretJobs, JobFits
  <2>8. SecretRowsFit' /\ SecretsTaken' /\ Secret!TakenOnce'
    BY <1>1, <1>2, <1>4, <2>1, <2>2 DEF SecretRowsFit, SecretsTaken, Secret!TakenOnce, SecretTypes
  <2>9. SecretsHeld'
    BY <1>1, <1>2, <1>4, <2>1, <2>2 DEF SecretsHeld, Secret!Known, Secret!Ended
  <2> QED
    BY <2>5, <2>6, <2>7, <2>8, <2>9
<1> QED
  BY <1>3, <1>4 DEF Secret!InsertFails

LEMMA SecretAskStep ==
  ASSUME Secret!SecretsAssumption, SecretIInv, NEW c \in Readers, NEW op \in {"read", "burn"},
         NEW s \in Notes, Secret!Ask(c, op, s)
  PROVE  SecretIInv'
<1> DEFINE i == link[s].id
           j == [op |-> op, of |-> s, id |-> i, at |-> now, saw |-> secret[i], n |-> 0]
<1>1. /\ reader[c] = "idle" /\ Secret!Known(s) /\ reader' = [reader EXCEPT ![c] = "delete"]
      /\ job' = [job EXCEPT ![c] = j]
      /\ UNCHANGED <<now, secret, deleting, link, gone, burnt, left, given, over>>
  BY DEF Secret!Ask, Secret!Go, Secret!table, Secret!told
<1>2. i \in SecretIds /\ secret[i] \in SecretRow /\ now \in Nat
  BY <1>1 DEF SecretIInv, SecretTypes, Secret!Known
<1>3. /\ j \in [op : {"none", "create", "read", "burn"}, of : Notes \cup {None},
                id : SecretIds \cup {None}, at : Nat, saw : SecretRow, n : Int]
      /\ j.op = op /\ j.of = s /\ j.id = i
  BY <1>2
<1> HIDE DEF i, j
<1>4. JobFits(c)'
  BY <1>1, <1>2, <1>3 DEF JobFits, SecretIInv, SecretTypes
<1>5. given \in [Notes -> 0..2] /\ over \subseteq Notes
  BY DEF SecretIInv, SecretTypes
<1> QED
  BY <1>1, <1>3, <1>4, <1>5, RequestMoves

LEMMA DeletesNothingStep ==
  ASSUME Secret!SecretsAssumption, SecretIInv, NEW c \in Readers, Secret!DeletesNothing(c)
  PROVE  SecretIInv'
<1>1. /\ reader[c] = "delete"
      /\ UNCHANGED <<now, secret, deleting, left, link, given, gone, burnt>>
      /\ given \in [Notes -> 0..2] /\ over \subseteq Notes /\ job[c].of \in Notes
  BY DEF Secret!DeletesNothing, Secret!table, SecretIInv, SecretTypes, SecretJobs, JobFits
<1>2. CASE job[c].op = "read"
  <2>1. reader' = [reader EXCEPT ![c] = "select"] /\ UNCHANGED <<job, over>>
    BY <1>2 DEF Secret!DeletesNothing, Secret!Go
  <2>2. /\ job[c] \in [op : {"none", "create", "read", "burn"}, of : Notes \cup {None},
                       id : SecretIds \cup {None}, at : Nat, saw : SecretRow, n : Int]
        /\ job' = [job EXCEPT ![c] = job[c]]
    BY <2>1 DEF SecretIInv, SecretTypes
  <2>3. JobFits(c)'
    BY <1>1, <2>1 DEF SecretIInv, SecretTypes, SecretJobs, JobFits
  <2> QED
    BY <1>1, <2>1, <2>2, <2>3, RequestMoves
<1>3. CASE job[c].op # "read"
  <2>1. Secret!Done(c) /\ over' = over \cup {job[c].of}
    BY <1>3 DEF Secret!DeletesNothing, Secret!Gone
  <2> QED
    BY <1>1, <2>1, RequestEnds
<1> QED
  BY <1>2, <1>3

\* What the SELECT reads is no read-once secret.
LEMMA SelectStep ==
  ASSUME Secret!SecretsAssumption, SecretIInv, NEW c \in Readers, Secret!Select(c)
  PROVE  SecretIInv'
<1> DEFINE r == secret[job[c].id]
<1>1. /\ reader[c] = "select" /\ Secret!Done(c)
      /\ UNCHANGED <<now, secret, deleting, left, link, gone, burnt>>
      /\ IF Secret!Readable(r) THEN Secret!Given(c, r.secret) ELSE Secret!Gone(c) /\ UNCHANGED given
      /\ job[c].of \in Notes /\ r \in SecretRow
  BY
  DEF Secret!Select, Secret!table, Secret!Given, Secret!Gone, SecretIInv, SecretTypes, SecretJobs,
      JobFits
<1>2. given \in [Notes -> 0..2] /\ over \subseteq Notes /\ ReadOnce \subseteq Notes
  BY DEF SecretIInv, SecretTypes, Secret!SecretsAssumption
<1>3. /\ given' \in [Notes -> 0..2] /\ over' \subseteq Notes
      /\ \A s \in ReadOnce : given'[s] = given[s]
  <2>1. CASE Secret!Readable(r)
    <3>1. /\ given' = [given EXCEPT ![r.secret] = (@ + 1) % 3] /\ over' = over
          /\ r.secret \notin ReadOnce
      BY <1>1, <2>1 DEF Secret!Given, Secret!Readable
    <3>2. \A s \in Notes : (given[s] + 1) % 3 \in 0..2
      BY <1>2
    <3> QED
      BY <1>2, <3>1, <3>2
  <2>2. CASE ~Secret!Readable(r)
    BY <1>1, <1>2, <2>2 DEF Secret!Gone
  <2> QED
    BY <2>1, <2>2
<1> QED
  BY <1>1, <1>3, RequestEnds

LEMMA DeletesStep ==
  ASSUME Secret!SecretsAssumption, SecretIInv, NEW c \in Readers, Secret!Deletes(c)
  PROVE  SecretIInv'
<1> USE DEF SecretIInv
<1> DEFINE i == job[c].id
<1>1. /\ reader[c] = "delete" /\ Secret!Meant(job[c]) /\ deleting[i] = None /\ secret[i] = job[c].saw
      /\ deleting' = [deleting EXCEPT ![i] = c] /\ reader' = [reader EXCEPT ![c] = "commit"]
      /\ UNCHANGED <<now, secret, job, left, link, given, gone, burnt, over>>
      /\ i \in SecretIds
  BY DEF Secret!Deletes, Secret!Go, Secret!told, SecretJobs, JobFits
<1>2. /\ deleting'[i] = c /\ \A k \in SecretIds \ {i} : deleting'[k] = deleting[k]
      /\ reader'[c] = "commit" /\ \A d \in Readers \ {c} : reader'[d] = reader[d]
  BY <1>1 DEF SecretTypes
<1>3. job[c].saw.secret \in Notes /\ (job[c].op = "read" => job[c].saw.secret \in ReadOnce)
  <2>1. secret[i] # Secret!NoRow /\ secret[i] \in SecretRow
    BY <1>1 DEF Secret!Meant, Secret!AnyAge, SecretTypes
  <2> QED
    BY <1>1, <2>1 DEF Secret!Meant, Secret!AnyAge, SecretRowsFit, SecretRow
<1>4. SecretTypes' /\ SecretJobs'
  BY <1>1, <1>2 DEF SecretTypes, SecretJobs, JobFits
<1>5. MakersAlone' /\ SecretRowsFit' /\ SecretsTaken' /\ SecretsHeld' /\ Secret!TakenOnce'
  BY <1>1, <1>2
  DEF MakersAlone, SecretRowsFit, SecretsTaken, SecretsHeld, Secret!TakenOnce, Secret!Known,
      Secret!Ended
<1>6. LocksFit'
  <2>1. \A d \in Readers : deleting[i] # d /\ c # "worker"
    BY <1>1 DEF Secret!SecretsAssumption
  <2> QED
    BY <1>1, <1>2, <1>3, <2>1 DEF LocksFit, SecretJobs, JobFits
<1> QED
  BY <1>4, <1>5, <1>6

\* A deletion is undone, or it is committed with or without an answer.
LEMMA DeletionEnds ==
  ASSUME Secret!SecretsAssumption, SecretIInv, NEW c \in Readers, reader[c] = "commit",
           Secret!Unlock(c), Secret!Done(c),
         UNCHANGED <<now, left, link>>, over' \subseteq Notes,
         NEW s, s = job[c].saw.secret,
         \/ UNCHANGED <<secret, gone, given, burnt>>
         \/ /\ Secret!Remove(c) /\ gone' = gone \cup {s}
            /\ \/ UNCHANGED <<given, burnt>>
               \/ given' = [given EXCEPT ![s] = (@ + 1) % 3] /\ UNCHANGED burnt
               \/ burnt' = burnt \cup {s} /\ UNCHANGED given
  PROVE  SecretIInv'
<1> USE DEF SecretIInv
<1> DEFINE i == job[c].id
<1>1. /\ i \in SecretIds /\ deleting[i] = c /\ secret[i] = job[c].saw
      /\ secret[i].secret = s /\ s \in Notes
      /\ \A k \in SecretIds \ {i} : deleting[k] # c
      /\ s \notin gone /\ c # "worker" /\ c # None
  BY DEF LocksFit, SecretJobs, JobFits, SecretRowsFit, Secret!SecretsAssumption
<1>2. /\ deleting'[i] = None /\ \A k \in SecretIds \ {i} : deleting'[k] = deleting[k]
      /\ deleting' \in [SecretIds -> Readers \cup {"worker", None}]
  BY <1>1 DEF Secret!Unlock, SecretTypes
<1>3. /\ \A k \in SecretIds \ {i} : secret'[k] = secret[k]
      /\ secret'[i] = secret[i] \/ secret'[i] = Secret!NoRow
      /\ secret' \in [SecretIds -> SecretRow] /\ Secret!NoRow.secret = None
  BY <1>1 DEF Secret!Remove, SecretTypes, Secret!NoRow, SecretRow
<1>4. /\ reader' = [reader EXCEPT ![c] = "idle"] /\ job' = [job EXCEPT ![c] = Secret!NoJob]
      /\ reader'[c] = "idle" /\ job'[c] = Secret!NoJob
      /\ \A d \in Readers \ {c} : reader'[d] = reader[d] /\ job'[d] = job[d]
  BY DEF Secret!Done, Secret!Go, SecretTypes
<1>5. /\ Secret!NoJob \in [op : {"none", "create", "read", "burn"}, of : Notes \cup {None},
                           id : SecretIds \cup {None}, at : Nat, saw : SecretRow, n : Int]
      /\ Secret!NoJob.op = "none"
  BY DEF Secret!NoJob, Secret!NoRow, SecretRow
<1>6. /\ given' \in [Notes -> 0..2] /\ gone' \subseteq Notes /\ burnt' \subseteq Notes
      /\ gone \subseteq gone' /\ gone' \subseteq gone \cup {s}
  <2>1. given \in [Notes -> 0..2] /\ \A x \in Notes : (given[x] + 1) % 3 \in 0..2
    BY DEF SecretTypes
  <2> QED
    BY <1>1, <2>1 DEF SecretTypes
<1>7. SecretTypes' /\ SecretJobs'
  <2>1. SecretTypes'
    BY <1>2, <1>3, <1>4, <1>5, <1>6 DEF SecretTypes
  <2>2. SecretJobs'
    BY <1>4, <1>5 DEF SecretJobs, JobFits
  <2> QED
    BY <2>1, <2>2
<1>8. MakersAlone'
  BY <1>4 DEF MakersAlone, SecretJobs, JobFits
<1>9. LocksFit'
  <2>1. ASSUME NEW d \in Readers \ {c}, reader[d] = "commit"
        PROVE  job[d].id \in SecretIds \ {i}
    BY <1>1, <2>1 DEF LocksFit, SecretJobs, JobFits
  <2>2. None \notin Readers /\ None # "worker"
    BY DEF Secret!SecretsAssumption
  <2>3. \A d \in Readers : reader'[d] = "commit" =>
          /\ deleting'[job'[d].id] = d /\ secret'[job'[d].id] = job'[d].saw
          /\ job'[d].saw.secret \in Notes
          /\ job'[d].op = "read" => job'[d].saw.secret \in ReadOnce
    BY <1>2, <1>3, <1>4, <2>1 DEF LocksFit
  <2>4. \A k \in SecretIds : deleting'[k] \in Readers =>
          reader'[deleting'[k]] = "commit" /\ job'[deleting'[k]].id = k
    BY <1>1, <1>2, <1>4, <2>2 DEF LocksFit
  <2>5. \A k \in SecretIds : deleting'[k] = "worker" => secret'[k].until <= now'
    BY <1>1, <1>2, <1>3, <2>2 DEF LocksFit
  <2> QED
    BY <2>3, <2>4, <2>5 DEF LocksFit
<1>10. SecretRowsFit'
  <2>1. s \notin gone' \/ secret'[i] = Secret!NoRow
    <3>1. CASE UNCHANGED <<secret, gone, given, burnt>>
      BY <1>1, <3>1
    <3>2. CASE Secret!Remove(c)
      BY <1>1, <3>2 DEF Secret!Remove
    <3> QED
      BY <3>1, <3>2
  <2>2. \A k \in SecretIds \ {i} : secret[k].secret # s
    BY <1>1 DEF SecretRowsFit, Secret!SecretsAssumption
  <2>3. None \notin Notes
    BY DEF Secret!SecretsAssumption
  <2> QED
    BY <1>1, <1>3, <1>6, <2>1, <2>2, <2>3 DEF SecretRowsFit
<1>11. SecretsTaken'
  <2>1. link[s] # Secret!NoLink
    BY <1>1 DEF SecretRowsFit
  <2> QED
    BY <1>1, <2>1 DEF SecretsTaken, SecretTypes, Secret!SecretsAssumption
<1>12. Secret!TakenOnce'
  <2>1. s \notin burnt /\ (s \in ReadOnce => given[s] = 0)
    BY <1>1 DEF SecretsTaken
  <2>2. given \in [Notes -> 0..2] /\ ReadOnce \subseteq Notes
    BY DEF SecretTypes, Secret!SecretsAssumption
  <2>3. CASE UNCHANGED <<given, burnt>>
    BY <2>3 DEF Secret!TakenOnce
  <2>4. CASE given' = [given EXCEPT ![s] = (@ + 1) % 3] /\ UNCHANGED burnt
    <3>1. s \in ReadOnce => given'[s] = 1
      BY <1>1, <2>1, <2>2, <2>4
    <3>2. \A x \in ReadOnce \ {s} : given'[x] = given[x]
      BY <2>2, <2>4
    <3> QED
      BY <2>1, <2>4, <3>1, <3>2 DEF Secret!TakenOnce
  <2>5. CASE burnt' = burnt \cup {s} /\ UNCHANGED given
    BY <2>1, <2>5 DEF Secret!TakenOnce
  <2> QED
    BY <2>3, <2>4, <2>5
<1>13. SecretsHeld'
  <2> SUFFICES ASSUME NEW x \in Notes, link[x].id # None, x \notin gone', ~(link[x].until <= now)
               PROVE  secret'[link[x].id] = [secret |-> x, until |-> link[x].until]
    BY DEF SecretsHeld, Secret!Known, Secret!Ended
  <2>1. /\ secret[link[x].id] = [secret |-> x, until |-> link[x].until]
        /\ link[x].id \in SecretIds
    BY <1>6 DEF SecretsHeld, Secret!Known, Secret!Ended, SecretTypes
  <2>2. CASE UNCHANGED secret
    BY <2>1, <2>2
  <2>3. CASE gone' = gone \cup {s}
    BY <1>1, <1>3, <2>1, <2>3
  <2> QED
    BY <2>2, <2>3
<1> QED
  BY <1>7, <1>8, <1>9, <1>10, <1>11, <1>12, <1>13

LEMMA CommitSteps ==
  ASSUME Secret!SecretsAssumption, SecretIInv, NEW c \in Readers,
           Secret!Commit(c) \/ Secret!CommitFails(c)
  PROVE  SecretIInv'
<1> DEFINE s == job[c].saw.secret
<1>1. reader[c] = "commit" /\ Secret!Unlock(c) /\ UNCHANGED <<now, left, link>>
  BY DEF Secret!Commit, Secret!CommitFails
<1>2. /\ over \subseteq Notes /\ s \in Notes
  BY <1>1 DEF SecretIInv, SecretTypes, LocksFit
<1>3. CASE Secret!Commit(c)
  <2>1. Secret!Remove(c) /\ gone' = gone \cup {s} /\ Secret!Done(c) /\ over' \subseteq Notes
    BY <1>2, <1>3 DEF Secret!Commit, Secret!Given
  <2>2. \/ given' = [given EXCEPT ![s] = (@ + 1) % 3] /\ UNCHANGED burnt
        \/ burnt' = burnt \cup {s} /\ UNCHANGED given
    BY <1>3 DEF Secret!Commit, Secret!Given
  <2> HIDE DEF s
  <2> QED
    BY <1>1, <2>1, <2>2, DeletionEnds DEF s
<1>4. CASE Secret!CommitFails(c)
  <2>1. /\ Secret!Done(c) /\ over' \subseteq Notes /\ UNCHANGED <<given, burnt>>
        /\ \/ Secret!Remove(c) /\ gone' = gone \cup {s}
           \/ UNCHANGED <<secret, gone>>
    BY <1>2, <1>4 DEF Secret!CommitFails
  <2> HIDE DEF s
  <2> QED
    BY <1>1, <2>1, DeletionEnds DEF s
<1> QED
  BY <1>3, <1>4

-----------------------------------------------------------------------------

LEMMA WorkerBeginsOrDeletes ==
  ASSUME Secret!SecretsAssumption, SecretIInv,
           Secret!WorkerTicks \/ \E i \in SecretIds : Secret!WorkerDeletes(i)
  PROVE  SecretIInv'
<1> USE DEF SecretIInv
<1>1. UNCHANGED <<now, secret, reader, job, link, given, gone, burnt, over>>
  BY DEF Secret!WorkerTicks, Secret!WorkerDeletes, Secret!table, Secret!told
<1>2. /\ left' \in [at : Nat, ids : SUBSET SecretIds, on : BOOLEAN] /\ left'.at <= now
      /\ deleting' \in [SecretIds -> Readers \cup {"worker", None}]
      /\ \A k \in SecretIds : \/ deleting'[k] = deleting[k]
                              \/ deleting[k] = None /\ deleting'[k] = "worker" /\ secret[k].until <= now
  <2>1. CASE Secret!WorkerTicks
    BY <2>1 DEF Secret!WorkerTicks, Secret!table, SecretTypes
  <2>2. ASSUME NEW i \in SecretIds, Secret!WorkerDeletes(i)
        PROVE  /\ left' \in [at : Nat, ids : SUBSET SecretIds, on : BOOLEAN] /\ left'.at <= now
               /\ deleting' \in [SecretIds -> Readers \cup {"worker", None}]
               /\ \A k \in SecretIds : \/ deleting'[k] = deleting[k]
                                       \/ deleting[k] = None /\ deleting'[k] = "worker" /\ secret[k].until <= now
    <3>1. /\ deleting[i] = None /\ left' = [left EXCEPT !.ids = @ \ {i}]
          /\ deleting' = IF Secret!Expired(i, left.at) THEN [deleting EXCEPT ![i] = "worker"] ELSE deleting
      BY <2>2 DEF Secret!WorkerDeletes
    <3>2. left' \in [at : Nat, ids : SUBSET SecretIds, on : BOOLEAN] /\ left'.at <= now
      BY <3>1 DEF SecretTypes, LocksFit
    <3>3. Secret!Expired(i, left.at) => secret[i].until <= now
      BY DEF Secret!Expired, SecretTypes, LocksFit, SecretRow
    <3> QED
      BY <3>1, <3>2, <3>3 DEF SecretTypes
  <2> QED
    BY <2>1, <2>2
<1>3. None \notin Readers /\ "worker" \notin Readers /\ "worker" # None
  BY DEF Secret!SecretsAssumption
<1>4. LocksFit'
  BY <1>1, <1>2, <1>3 DEF LocksFit, SecretJobs, JobFits
<1>5. SecretTypes' /\ SecretJobs' /\ MakersAlone'
  BY <1>1, <1>2 DEF SecretTypes, SecretJobs, JobFits, MakersAlone
<1>6. SecretRowsFit' /\ SecretsTaken' /\ SecretsHeld' /\ Secret!TakenOnce'
  BY <1>1
  DEF SecretRowsFit, SecretsTaken, SecretsHeld, Secret!TakenOnce, Secret!Known, Secret!Ended
<1> QED
  BY <1>4, <1>5, <1>6

\* The worker's transaction commits, or all it deleted comes back.
LEMMA WorkerEnds ==
  ASSUME Secret!SecretsAssumption, SecretIInv, Secret!WorkerCommits \/ Secret!WorkerFails
  PROVE  SecretIInv'
<1> USE DEF SecretIInv
<1>1. /\ Secret!Unlock("worker") /\ (Secret!Remove("worker") \/ UNCHANGED secret)
      /\ left' = Secret!Asleep
      /\ UNCHANGED <<now, reader, job, link, given, gone, burnt, over>>
  BY DEF Secret!WorkerCommits, Secret!WorkerFails, Secret!told
<1>2. None \notin Readers /\ "worker" \notin Readers /\ "worker" # None /\ None \notin Notes
  BY DEF Secret!SecretsAssumption
<1>3. /\ deleting' \in [SecretIds -> Readers \cup {"worker", None}]
      /\ \A k \in SecretIds : deleting'[k] = IF deleting[k] = "worker" THEN None ELSE deleting[k]
  BY <1>1, <1>2 DEF Secret!Unlock, SecretTypes
<1>4. /\ secret' \in [SecretIds -> SecretRow] /\ Secret!NoRow.secret = None
      /\ \A k \in SecretIds : \/ secret'[k] = secret[k]
                              \/ deleting[k] = "worker" /\ secret'[k] = Secret!NoRow
  BY <1>1 DEF Secret!Remove, SecretTypes, Secret!NoRow, SecretRow
<1>5. SecretTypes' /\ SecretJobs' /\ MakersAlone'
  BY <1>1, <1>3, <1>4 DEF SecretTypes, SecretJobs, JobFits, MakersAlone, Secret!Asleep
<1>6. LocksFit'
  <2>1. Secret!Asleep.at <= now
    BY DEF Secret!Asleep, SecretTypes
  <2>2. \A d \in Readers : reader[d] = "commit" =>
          job[d].id \in SecretIds /\ deleting[job[d].id] # "worker"
    BY <1>2 DEF LocksFit, SecretJobs, JobFits
  <2> QED
    BY <1>1, <1>2, <1>3, <1>4, <2>1, <2>2 DEF LocksFit
<1>7. SecretRowsFit'
  BY <1>1, <1>2, <1>4 DEF SecretRowsFit
<1>8. SecretsTaken' /\ Secret!TakenOnce'
  BY <1>1 DEF SecretsTaken, Secret!TakenOnce
<1>9. SecretsHeld'
  <2> SUFFICES ASSUME NEW x \in Notes, link[x].id # None, x \notin gone, ~(link[x].until <= now)
               PROVE  secret'[link[x].id] = [secret |-> x, until |-> link[x].until]
    BY <1>1 DEF SecretsHeld, Secret!Known, Secret!Ended
  <2>1. /\ secret[link[x].id] = [secret |-> x, until |-> link[x].until]
        /\ link[x].id \in SecretIds
    BY DEF SecretsHeld, Secret!Known, Secret!Ended, SecretTypes
  <2>2. deleting[link[x].id] # "worker"
    BY <2>1 DEF LocksFit
  <2> QED
    BY <1>4, <2>1, <2>2
<1> QED
  BY <1>5, <1>6, <1>7, <1>8, <1>9

LEMMA SecretTickStep ==
  ASSUME Secret!SecretsAssumption, SecretIInv, Secret!Tick
  PROVE  SecretIInv'
<1> USE DEF SecretIInv
<1>1. /\ now' = now + 1 /\ now \in Nat
      /\ UNCHANGED <<secret, deleting, reader, job, left, link, given, gone, burnt, over>>
  BY DEF Secret!Tick, Secret!table, Secret!told, SecretTypes
<1>2. SecretTypes' /\ SecretJobs' /\ MakersAlone'
  BY <1>1 DEF SecretTypes, SecretJobs, JobFits, MakersAlone
<1>3. LocksFit'
  <2>1. \A n \in Nat : n <= now => n <= now'
    BY <1>1
  <2>2. left.at \in Nat /\ \A i \in SecretIds : secret[i].until \in Nat
    BY DEF SecretTypes, SecretRow
  <2> QED
    BY <1>1, <2>1, <2>2 DEF LocksFit
<1>4. SecretRowsFit' /\ SecretsTaken' /\ Secret!TakenOnce'
  BY <1>1 DEF SecretRowsFit, SecretsTaken, Secret!TakenOnce
<1>5. SecretsHeld'
  BY <1>1 DEF SecretsHeld, Secret!Known, Secret!Ended, SecretTypes
<1> QED
  BY <1>2, <1>3, <1>4, <1>5

LEMMA NextSecretIInv ==
  ASSUME Secret!SecretsAssumption, SecretIInv, [Secret!Next]_(Secret!vars)
  PROVE  SecretIInv'
<1>1. ASSUME NEW c \in Readers, Secret!Works(c)
      PROVE  SecretIInv'
  BY <1>1, DeletesNothingStep, DeletesStep, CommitSteps, SelectStep DEF Secret!Works
<1>2. ASSUME NEW c \in Readers, NEW i \in SecretIds, Secret!Insert(c, i) \/ Secret!InsertFails(c, i)
      PROVE  SecretIInv'
  BY <1>2, SecretInsertStep, InsertFailsStep
<1>3. ASSUME NEW c \in Readers, NEW s \in Notes,
             \/ \E hours \in 1 .. SecretHours : Secret!Create(c, s, hours)
             \/ \E op \in {"read", "burn"} : Secret!Ask(c, op, s)
      PROVE  SecretIInv'
  BY <1>3, CreateStep, SecretAskStep
<1>4. CASE Secret!Cleans
  BY <1>4, WorkerBeginsOrDeletes, WorkerEnds DEF Secret!Cleans
<1>5. CASE Secret!Tick
  BY <1>5, SecretTickStep
<1>6. CASE UNCHANGED Secret!vars
  BY <1>6
  DEF Secret!vars, Secret!table, Secret!told, SecretIInv, SecretTypes, SecretJobs, JobFits,
      MakersAlone, LocksFit, SecretRowsFit,
     SecretsTaken, SecretsHeld, Secret!TakenOnce, Secret!Known, Secret!Ended
<1> QED
  BY <1>1, <1>2, <1>3, <1>4, <1>5, <1>6 DEF Secret!Next

\* Where a link holds its secret is in the row.
LEMMA HeldIsThere ==
  ASSUME SecretIInv
  PROVE  Secret!KeptUntilOver
<1> SUFFICES ASSUME NEW s \in Notes, Secret!Known(s), s \notin gone, ~Secret!Ended(s)
             PROVE  secret[link[s].id].secret = s
  BY DEF Secret!KeptUntilOver
<1>1. secret[link[s].id] = [secret |-> s, until |-> link[s].until]
  BY DEF SecretIInv, SecretsHeld
<1> QED
  BY <1>1

-----------------------------------------------------------------------------
(* Over is over *)

\* A secret that was taken, or whose hour had come by time t.
OverBy(x, t) == x \in gone \/ (Secret!Known(x) /\ link[x].until <= t)

\* The end of a row is the end its link promises.
RowsLinked ==
  \A i \in SecretIds : secret[i].secret \in Notes /\ Secret!Known(secret[i].secret) =>
    link[secret[i].secret].until = secret[i].until

\* A request knows where its secret is, and began after what it knew was over.
\* It saw its secret in time, or will tell that it is over.
RequestFits(c) ==
  /\ reader[c] \in {"delete", "select", "commit"} =>
           /\ Secret!Known(job[c].of) /\ job[c].id = link[job[c].of].id /\ job[c].at <= now
           /\ \A x \in known[c] : x \in Notes /\ OverBy(x, job[c].at)
  /\ reader[c] = "delete" =>
           \/ OverBy(job[c].of, now)
           \/ /\ job[c].saw = [secret |-> job[c].of, until |-> link[job[c].of].until]
              /\ job[c].saw.until > job[c].at
  /\ reader[c] = "select" /\ job[c].of \in ReadOnce => OverBy(job[c].of, now)
  /\ reader[c] = "commit" /\ job[c].op = "read" => job[c].saw.secret \notin known[c]

\* Who is told that a secret is over is told the truth.
ToldTrue == \A x \in over : OverBy(x, now)

OverInv ==
  /\ known \in [Readers -> SUBSET Notes]
  /\ RowsLinked /\ ToldTrue /\ \A c \in Readers : RequestFits(c)

\* Time passes, what is taken stays taken, and links stay.
Onward ==
  /\ now' \in Nat /\ now <= now' /\ gone \subseteq gone'
  /\ \A x \in Notes : link[x] # Secret!NoLink => link'[x] = link[x]

LEMMA StepsGoOnward ==
  ASSUME Secret!SecretsAssumption, SecretIInv, [Secret!Next]_(Secret!vars)
  PROVE  Onward
<1> USE DEF SecretIInv, Onward
<1>1. now \in Nat
  BY DEF SecretTypes
<1>2. ASSUME NEW c \in Readers, NEW i \in SecretIds, Secret!Insert(c, i) \/ Secret!InsertFails(c, i)
      PROVE  Onward
  <2>1. /\ UNCHANGED <<now, gone>> /\ link[job[c].of] = Secret!NoLink
        /\ \/ UNCHANGED link
           \/ \E l : link' = [link EXCEPT ![job[c].of] = l]
    BY <1>2 DEF Secret!Insert, Secret!InsertFails, Secret!Stored, Secret!told, MakersAlone
  <2> QED
    BY <1>1, <2>1 DEF SecretTypes
<1>3. ASSUME NEW c \in Readers, Secret!Works(c)
      PROVE  Onward
  <2>1. UNCHANGED <<now, link>> /\ gone \subseteq gone'
    BY <1>3
    DEF Secret!Works, Secret!DeletesNothing, Secret!Deletes, Secret!Commit, Secret!CommitFails,
        Secret!Select, Secret!table, Secret!told
  <2> QED
    BY <1>1, <2>1
<1>4. ASSUME NEW c \in Readers, NEW s \in Notes,
             \/ \E hours \in 1 .. SecretHours : Secret!Create(c, s, hours)
             \/ \E op \in {"read", "burn"} : Secret!Ask(c, op, s)
      PROVE  Onward
  <2>1. UNCHANGED <<now, link, gone>>
    BY <1>4 DEF Secret!Create, Secret!Ask, Secret!told
  <2> QED
    BY <1>1, <2>1
<1>5. CASE Secret!Cleans
  BY <1>1, <1>5
  DEF Secret!Cleans, Secret!WorkerTicks, Secret!WorkerDeletes, Secret!WorkerCommits,
      Secret!WorkerFails, Secret!table, Secret!told
<1>6. CASE Secret!Tick
  BY <1>1, <1>6 DEF Secret!Tick, Secret!table, Secret!told
<1>7. CASE UNCHANGED Secret!vars
  BY <1>1, <1>7 DEF Secret!vars, Secret!told
<1> QED
  BY <1>2, <1>3, <1>4, <1>5, <1>6, <1>7 DEF Secret!Next

\* What was over is still over.
LEMMA OverStays ==
  ASSUME Secret!SecretsAssumption, SecretIInv, Onward
  PROVE  /\ \A x \in Notes, t \in Nat : OverBy(x, t) => OverBy(x, t)'
         /\ \A x \in Notes : OverBy(x, now) => OverBy(x, now)'
         /\ \A x \in Notes : Secret!Known(x) => Secret!Known(x)' /\ link'[x] = link[x]
<1>1. \A x \in Notes : Secret!Known(x) => Secret!Known(x)' /\ link'[x] = link[x]
  BY DEF Secret!Known, Secret!NoLink, Onward
<1>2. now \in Nat /\ now' \in Nat /\ now <= now' /\ \A x \in Notes : link[x].until \in Nat
  BY DEF Onward, SecretIInv, SecretTypes
<1>3. ASSUME NEW x \in Notes, NEW t \in Nat, OverBy(x, t)
      PROVE  x \in gone' \/ (Secret!Known(x)' /\ link'[x].until <= t)
  BY <1>1, <1>3 DEF OverBy, Onward
<1>4. ASSUME NEW x \in Notes, OverBy(x, now)
      PROVE  x \in gone' \/ (Secret!Known(x)' /\ link'[x].until <= now')
  BY <1>1, <1>2, <1>4 DEF OverBy, Onward
<1> QED
  BY <1>1, <1>3, <1>4 DEF OverBy

\* Steps of others leave a request as it was.
LEMMA OthersFit ==
  ASSUME Secret!SecretsAssumption, SecretIInv, OverInv, Onward, NEW d \in Readers,
         reader'[d] = reader[d], job'[d] = job[d], known'[d] = known[d]
  PROVE  RequestFits(d)'
<1>1. RequestFits(d) /\ JobFits(d)
  BY DEF OverInv, SecretIInv, SecretJobs
<1>2. job[d].at \in Nat /\ now \in Nat /\ now' \in Nat /\ now <= now'
  BY DEF SecretIInv, SecretTypes, Onward
<1>3. CASE reader[d] \in {"delete", "select", "commit"}
  <2>1. /\ job[d].of \in Notes /\ Secret!Known(job[d].of) /\ job[d].at <= now
        /\ job[d].id = link[job[d].of].id
        /\ \A x \in known[d] : x \in Notes /\ OverBy(x, job[d].at)
    BY <1>1, <1>3 DEF JobFits, RequestFits
  <2>2. /\ Secret!Known(job[d].of)' /\ link'[job[d].of] = link[job[d].of]
        /\ OverBy(job[d].of, now) => OverBy(job[d].of, now)'
        /\ \A x \in known[d] : OverBy(x, job[d].at)'
    BY <1>2, <2>1, OverStays
  <2>3. job[d].at <= now'
    BY <1>2, <2>1
  <2>4. (\A x \in known[d] : OverBy(x, job[d].at))'
    BY <2>2
  <2> QED
    BY <1>1, <1>3, <2>1, <2>2, <2>3, <2>4 DEF RequestFits, OverBy, Secret!Known
<1>4. CASE reader[d] \notin {"delete", "select", "commit"}
  BY <1>4 DEF RequestFits
<1> QED
  BY <1>3, <1>4

LEMMA RowsStayLinked ==
  ASSUME Secret!SecretsAssumption, SecretIInv, OverInv, Onward,
         \A i \in SecretIds : secret'[i] = secret[i] \/ secret'[i] = Secret!NoRow
  PROVE  RowsLinked'
<1>1. Secret!NoRow.secret \notin Notes
  BY DEF Secret!NoRow, Secret!SecretsAssumption
<1>2. \A i \in SecretIds : secret[i].secret \in Notes =>
        link'[secret[i].secret] = link[secret[i].secret]
  BY DEF SecretIInv, SecretRowsFit, Onward
<1> QED
  BY <1>1, <1>2 DEF RowsLinked, OverInv, Secret!Known

\* What is left to show of a step of one request.
LEMMA OverKept ==
  ASSUME Secret!SecretsAssumption, SecretIInv, OverInv, Onward, NEW c \in Readers,
         \A d \in Readers \ {c} : reader'[d] = reader[d] /\ job'[d] = job[d] /\ known'[d] = known[d],
         known' \in [Readers -> SUBSET Notes],
         RequestFits(c)', RowsLinked',
         \A x \in over' : x \in over \/ OverBy(x, now)'
  PROVE  OverInv'
<1>1. \A d \in Readers : RequestFits(d)'
  BY OthersFit
<1>2. over \subseteq Notes /\ \A x \in over : OverBy(x, now)
  BY DEF SecretIInv, SecretTypes, OverInv, ToldTrue
<1>3. \A x \in over : OverBy(x, now)'
  BY <1>2, OverStays
<1>4. ToldTrue'
  BY <1>3 DEF ToldTrue
<1> QED
  BY <1>1, <1>4 DEF OverInv

\* A request ends, and the rows are as they were or fewer.
LEMMA OverKeptAtEnd ==
  ASSUME Secret!SecretsAssumption, SecretIInv, OverInv, Onward, NEW c \in Readers, Secret!Done(c),
         RowsLinked',
         \A x \in over' : x \in over \/ OverBy(x, now)'
  PROVE  OverInv'
<1>1. /\ reader'[c] = "idle" /\ known' \in [Readers -> SUBSET Notes]
      /\ \A d \in Readers \ {c} : reader'[d] = reader[d] /\ job'[d] = job[d] /\ known'[d] = known[d]
  BY DEF Secret!Done, Secret!Go, SecretIInv, SecretTypes, OverInv
<1>2. RequestFits(c)'
  BY <1>1 DEF RequestFits
<1> QED
  BY <1>1, <1>2, OverKept

LEMMA CreateOver ==
  ASSUME Secret!SecretsAssumption, SecretIInv, OverInv, Onward, NEW c \in Readers, NEW s \in Notes,
         NEW hours \in 1..SecretHours, Secret!Create(c, s, hours)
  PROVE  OverInv'
<1>1. /\ reader' = [reader EXCEPT ![c] = "insert"] /\ UNCHANGED <<secret, known, over>>
      /\ \A d \in Readers \ {c} : job'[d] = job[d]
  BY DEF Secret!Create, Secret!Go, Secret!table, Secret!told, SecretIInv, SecretTypes
<1>2. reader'[c] = "insert" /\ \A d \in Readers \ {c} : reader'[d] = reader[d]
  BY <1>1 DEF SecretIInv, SecretTypes
<1>3. RequestFits(c)'
  BY <1>2 DEF RequestFits
<1>4. known' \in [Readers -> SUBSET Notes]
  BY <1>1 DEF OverInv
<1> QED
  BY <1>1, <1>2, <1>3, <1>4, RowsStayLinked, OverKept

\* A new row ends when its link says.
LEMMA NewRowLinked ==
  ASSUME Secret!SecretsAssumption, SecretIInv, OverInv, Onward, NEW c \in Readers,
           NEW i \in SecretIds, reader[c] = "insert",
         secret' = [secret EXCEPT ![i] = [secret |-> job[c].of, until |-> now + job[c].at]],
         NEW l, l.id # None => l = [id |-> i, until |-> now + job[c].at],
         link' = [link EXCEPT ![job[c].of] = l]
  PROVE  RowsLinked'
<1>1. /\ secret'[i] = [secret |-> job[c].of, until |-> now + job[c].at]
      /\ \A k \in SecretIds \ {i} : secret'[k] = secret[k]
      /\ job[c].of \in Notes /\ link'[job[c].of] = l
  BY DEF SecretIInv, SecretTypes, SecretJobs, JobFits
<1>2. \A k \in SecretIds : secret[k].secret \in Notes =>
        link'[secret[k].secret] = link[secret[k].secret]
  BY DEF SecretIInv, SecretRowsFit, Onward
<1> QED
  BY <1>1, <1>2 DEF RowsLinked, OverInv, Secret!Known

LEMMA InsertOver ==
  ASSUME Secret!SecretsAssumption, SecretIInv, OverInv, Onward, NEW c \in Readers,
           NEW i \in SecretIds,
         Secret!Insert(c, i) \/ Secret!InsertFails(c, i)
  PROVE  OverInv'
<1>1. reader[c] = "insert" /\ UNCHANGED over
  BY DEF Secret!Insert, Secret!InsertFails, Secret!told
<1>2. CASE Secret!Insert(c, i) /\ secret[i] = Secret!NoRow
  <2> DEFINE l == [id |-> i, until |-> now + job[c].at]
  <2>1. /\ secret' = [secret EXCEPT ![i] = [secret |-> job[c].of, until |-> now + job[c].at]]
        /\ link' = [link EXCEPT ![job[c].of] = l] /\ Secret!Done(c)
    BY <1>2 DEF Secret!Insert, Secret!Stored
  <2>2. RowsLinked'
    BY <1>1, <2>1, NewRowLinked
  <2> QED
    BY <1>1, <2>1, <2>2, OverKeptAtEnd
<1>3. CASE Secret!Insert(c, i) /\ secret[i] # Secret!NoRow /\ job[c].n = 1
  <2>1. Secret!Done(c) /\ UNCHANGED secret
    BY <1>3 DEF Secret!Insert
  <2> QED
    BY <1>1, <2>1, RowsStayLinked, OverKeptAtEnd
<1>4. CASE Secret!Insert(c, i) /\ secret[i] # Secret!NoRow /\ job[c].n # 1
  <2>1. /\ UNCHANGED <<secret, reader, known>>
        /\ \A d \in Readers \ {c} : job'[d] = job[d]
    BY <1>4 DEF Secret!Insert, SecretIInv, SecretTypes
  <2>2. RequestFits(c)'
    BY <1>1, <2>1 DEF RequestFits
  <2>3. known' \in [Readers -> SUBSET Notes]
    BY <2>1 DEF OverInv
  <2> QED
    BY <1>1, <2>1, <2>2, <2>3, RowsStayLinked, OverKept
<1>5. CASE Secret!InsertFails(c, i)
  <2>1. Secret!Done(c) /\ link' = [link EXCEPT ![job[c].of] = Secret!Lost] /\ Secret!Lost.id = None
    BY <1>5 DEF Secret!InsertFails, Secret!Lost
  <2>2. CASE UNCHANGED secret
    BY <1>1, <2>1, <2>2, RowsStayLinked, OverKeptAtEnd
  <2>3. CASE secret' = [secret EXCEPT ![i] = [secret |-> job[c].of, until |-> now + job[c].at]]
    <3>1. RowsLinked'
      BY <1>1, <2>1, <2>3, NewRowLinked
    <3> QED
      BY <1>1, <2>1, <3>1, OverKeptAtEnd
  <2> QED
    BY <1>5, <2>2, <2>3 DEF Secret!InsertFails
<1> QED
  BY <1>2, <1>3, <1>4, <1>5

\* Who asks in time sees his secret in its row.
LEMMA AskOver ==
  ASSUME Secret!SecretsAssumption, SecretIInv, OverInv, Onward, NEW c \in Readers,
           NEW op \in {"read", "burn"},
         NEW s \in Notes, Secret!Ask(c, op, s)
  PROVE  OverInv'
<1> DEFINE i == link[s].id
           j == [op |-> op, of |-> s, id |-> i, at |-> now, saw |-> secret[i], n |-> 0]
<1>1. /\ Secret!Known(s) /\ reader' = [reader EXCEPT ![c] = "delete"] /\ job' = [job EXCEPT ![c] = j]
      /\ known' = [known EXCEPT ![c] = over \cup {x \in Notes : Secret!Ended(x)}]
      /\ UNCHANGED <<now, secret, link, gone, over>>
  BY DEF Secret!Ask, Secret!Go, Secret!table, Secret!told
<1>2. /\ reader'[c] = "delete" /\ job'[c] = j /\ known'[c] = over \cup {x \in Notes : Secret!Ended(x)}
      /\ \A d \in Readers \ {c} : reader'[d] = reader[d] /\ job'[d] = job[d] /\ known'[d] = known[d]
      /\ known' \in [Readers -> SUBSET Notes] /\ now \in Nat
  BY <1>1 DEF SecretIInv, SecretTypes, OverInv
<1>3. \A x \in known'[c] : x \in Notes /\ OverBy(x, now)
  BY <1>2 DEF OverInv, ToldTrue, OverBy, Secret!Ended, SecretIInv, SecretTypes
<1>4. \/ OverBy(s, now)
      \/ secret[i] = [secret |-> s, until |-> link[s].until] /\ link[s].until > now
  BY <1>1 DEF OverBy, SecretIInv, SecretsHeld, Secret!Ended, SecretTypes
<1>5. RequestFits(c)'
  <2>1. j.of = s /\ j.id = link[s].id /\ j.at = now /\ j.saw = secret[i]
    OBVIOUS
  <2> HIDE DEF j, i
  <2>2. /\ job'[c].of = s /\ job'[c].id = link'[s].id /\ job'[c].at = now'
        /\ job'[c].saw = secret[i] /\ Secret!Known(s)' /\ now' \in Nat
    BY <1>1, <1>2, <2>1 DEF Secret!Known
  <2>3. \A x \in known'[c] : x \in Notes /\ OverBy(x, job[c].at)'
    BY <1>1, <1>2, <1>3, <2>2 DEF OverBy, Secret!Known
  <2>4. \/ OverBy(job[c].of, now)'
        \/ /\ job'[c].saw = [secret |-> s, until |-> link'[s].until]
           /\ job'[c].saw.until > job'[c].at
    BY <1>1, <1>4, <2>2 DEF OverBy, Secret!Known
  <2> QED
    BY <1>2, <2>2, <2>3, <2>4 DEF RequestFits
<1> QED
  BY <1>1, <1>2, <1>5, RowsStayLinked, OverKept

\* A deletion that finds nothing comes after the end of what it was asked for.
LEMMA NothingMeansOver ==
  ASSUME Secret!SecretsAssumption, SecretIInv, OverInv, NEW c \in Readers,
           Secret!DeletesNothing(c),
         job[c].op = "read" => job[c].of \in ReadOnce
  PROVE  OverBy(job[c].of, now)
<1> DEFINE s == job[c].of
<1> SUFFICES ASSUME ~OverBy(s, now)
             PROVE  FALSE
  OBVIOUS
<1>1. /\ reader[c] = "delete" /\ s \in Notes /\ s # None
      /\ Secret!Known(s) /\ job[c].id = link[s].id
      /\ job[c].saw = [secret |-> s, until |-> link[s].until] /\ job[c].saw.until > job[c].at
  BY
  DEF Secret!DeletesNothing, OverInv, RequestFits, SecretIInv, SecretJobs, JobFits,
      Secret!SecretsAssumption
<1>2. Secret!Meant(job[c])
  BY <1>1 DEF Secret!Meant, Secret!AnyAge, Secret!NoRow
<1>3. secret[link[s].id] = [secret |-> s, until |-> link[s].until]
  BY <1>1 DEF SecretIInv, SecretsHeld, OverBy, Secret!Ended
<1> QED
  BY <1>1, <1>2, <1>3 DEF Secret!DeletesNothing

LEMMA DeletesNothingOver ==
  ASSUME Secret!SecretsAssumption, SecretIInv, OverInv, Onward, NEW c \in Readers,
           Secret!DeletesNothing(c)
  PROVE  OverInv'
<1>1. /\ reader[c] = "delete" /\ UNCHANGED <<now, secret, link, gone>>
      /\ job[c].of \in Notes /\ job[c].id \in SecretIds
  BY DEF Secret!DeletesNothing, Secret!table, SecretIInv, SecretJobs, JobFits
<1>2. RowsLinked'
  BY <1>1, RowsStayLinked
<1>3. CASE job[c].op = "read"
  <2>1. reader' = [reader EXCEPT ![c] = "select"] /\ UNCHANGED <<job, known, over>>
    BY <1>3 DEF Secret!DeletesNothing, Secret!Go
  <2>2. reader'[c] = "select" /\ \A d \in Readers \ {c} : reader'[d] = reader[d]
    BY <2>1 DEF SecretIInv, SecretTypes
  <2>3. job[c].of \in ReadOnce => OverBy(job[c].of, now)
    BY <1>3, NothingMeansOver
  <2>4. RequestFits(c)'
    BY <1>1, <2>1, <2>2, <2>3 DEF RequestFits, OverInv, OverBy, Secret!Known
  <2>5. known' \in [Readers -> SUBSET Notes]
    BY <2>1 DEF OverInv
  <2> QED
    BY <1>2, <2>1, <2>2, <2>4, <2>5, OverKept
<1>4. CASE job[c].op # "read"
  <2>1. Secret!Done(c) /\ over' = over \cup {job[c].of}
    BY <1>4 DEF Secret!DeletesNothing, Secret!Gone
  <2>2. \A x \in over' : x \in over \/ OverBy(x, now)'
    <3>1. OverBy(job[c].of, now)
      BY <1>4, NothingMeansOver
    <3> QED
      BY <1>1, <2>1, <3>1 DEF OverBy, Secret!Known
  <2> QED
    BY <1>2, <2>1, <2>2, OverKeptAtEnd
<1> QED
  BY <1>3, <1>4

\* What a read deletes was not over when it was asked for.
LEMMA DeletesOver ==
  ASSUME Secret!SecretsAssumption, SecretIInv, OverInv, Onward, NEW c \in Readers,
           Secret!Deletes(c)
  PROVE  OverInv'
<1> DEFINE s == job[c].saw.secret
<1>1. /\ reader[c] = "delete" /\ Secret!Meant(job[c]) /\ secret[job[c].id] = job[c].saw
      /\ reader' = [reader EXCEPT ![c] = "commit"]
      /\ UNCHANGED <<now, secret, job, known, link, gone, over>>
      /\ job[c].id \in SecretIds /\ job[c].at \in Nat
  BY DEF Secret!Deletes, Secret!Go, Secret!told, SecretIInv, SecretJobs, JobFits, SecretTypes
<1>2. reader'[c] = "commit" /\ \A d \in Readers \ {c} : reader'[d] = reader[d]
  BY <1>1 DEF SecretIInv, SecretTypes
<1>3. job[c].op = "read" => s \notin known[c]
  <2> SUFFICES ASSUME job[c].op = "read", s \in known[c]
               PROVE  FALSE
    OBVIOUS
  <2>1. s \in Notes /\ OverBy(s, job[c].at)
    BY <1>1 DEF OverInv, RequestFits
  <2>2. s \notin gone
    BY <1>1, <2>1 DEF SecretIInv, SecretRowsFit
  <2>3. link[s].until = job[c].saw.until /\ link[s].until <= job[c].at
    BY <1>1, <2>1, <2>2 DEF OverInv, RowsLinked, OverBy
  <2> QED
    BY <1>1, <2>3 DEF Secret!Meant, SecretIInv, SecretTypes, SecretRow
<1>4. RequestFits(c)'
  BY <1>1, <1>2, <1>3 DEF RequestFits, OverInv, OverBy, Secret!Known
<1>5. RowsLinked'
  BY <1>1, RowsStayLinked
<1>6. known' \in [Readers -> SUBSET Notes]
  BY <1>1 DEF OverInv
<1> QED
  BY <1>1, <1>2, <1>4, <1>5, <1>6, OverKept

\* What a read or a burn has taken is over, answered or not.
LEMMA CommitOver ==
  ASSUME Secret!SecretsAssumption, SecretIInv, OverInv, Onward, NEW c \in Readers,
           Secret!Commit(c) \/ Secret!CommitFails(c)
  PROVE  OverInv'
<1> DEFINE s == job[c].saw.secret
<1>1. Secret!Done(c) /\ (Secret!Remove(c) \/ UNCHANGED secret)
  BY DEF Secret!Commit, Secret!CommitFails, Secret!Given
<1>2. \A i \in SecretIds : secret'[i] = secret[i] \/ secret'[i] = Secret!NoRow
  BY <1>1 DEF Secret!Remove
<1>3. CASE Secret!Commit(c)
  <2>1. over' \subseteq over \cup {s} /\ s \in gone'
    BY <1>3 DEF Secret!Commit, Secret!Given
  <2>2. \A x \in over' : x \in over \/ x \in gone'
    BY <2>1
  <2>3. \A x \in over' : x \in over \/ OverBy(x, now)'
    BY <2>2 DEF OverBy
  <2> QED
    BY <1>1, <1>2, <2>3, RowsStayLinked, OverKeptAtEnd
<1>4. CASE Secret!CommitFails(c)
  <2>1. UNCHANGED over
    BY <1>4 DEF Secret!CommitFails
  <2> QED
    BY <1>1, <1>2, <2>1, RowsStayLinked, OverKeptAtEnd
<1> QED
  BY <1>3, <1>4

\* What the SELECT does not find is over.
LEMMA SelectOver ==
  ASSUME Secret!SecretsAssumption, SecretIInv, OverInv, Onward, NEW c \in Readers, Secret!Select(c)
  PROVE  OverInv'
<1> DEFINE s == job[c].of
           r == secret[job[c].id]
<1>1. /\ reader[c] = "select" /\ UNCHANGED <<now, secret, link, gone>> /\ Secret!Done(c)
      /\ s \in Notes /\ s # None
      /\ Secret!Known(s) /\ job[c].id = link[s].id /\ (s \in ReadOnce => OverBy(s, now))
  BY
  DEF Secret!Select, Secret!table, Secret!Given, Secret!Gone, OverInv, RequestFits, SecretIInv,
      SecretJobs, JobFits, Secret!SecretsAssumption
<1>2. CASE Secret!Readable(r)
  <2>1. UNCHANGED over
    BY <1>2 DEF Secret!Select, Secret!Given, Secret!Readable
  <2> QED
    BY <1>1, <2>1, RowsStayLinked, OverKeptAtEnd
<1>3. CASE ~Secret!Readable(r)
  <2>1. over' = over \cup {s}
    BY <1>3 DEF Secret!Select, Secret!Gone
  <2>2. OverBy(s, now)
    <3> SUFFICES ASSUME s \notin gone, ~(link[s].until <= now)
                 PROVE  s \in ReadOnce
      BY <1>1 DEF OverBy
    <3>1. r = [secret |-> s, until |-> link[s].until] /\ link[s].until > now
      BY <1>1 DEF SecretIInv, SecretsHeld, Secret!Ended, SecretTypes
    <3> QED
      BY <1>1, <1>3, <3>1 DEF Secret!Readable, Secret!NoRow
  <2>3. \A x \in over' : x \in over \/ OverBy(x, now)'
    BY <1>1, <2>1, <2>2 DEF OverBy, Secret!Known
  <2> QED
    BY <1>1, <2>3, RowsStayLinked, OverKeptAtEnd
<1> QED
  BY <1>2, <1>3

\* The worker, the clock and steps of nobody touch no request.
LEMMA OthersOver ==
  ASSUME Secret!SecretsAssumption, SecretIInv, OverInv, Onward,
           Secret!Cleans \/ Secret!Tick \/ UNCHANGED Secret!vars
  PROVE  OverInv'
<1>1. UNCHANGED <<reader, job, known, over>>
  BY
  DEF Secret!Cleans, Secret!WorkerTicks, Secret!WorkerDeletes, Secret!WorkerCommits,
      Secret!WorkerFails, Secret!Tick, Secret!vars, Secret!table, Secret!told
<1>2. UNCHANGED secret \/ Secret!Remove("worker")
  BY
  DEF Secret!Cleans, Secret!WorkerTicks, Secret!WorkerDeletes, Secret!WorkerCommits,
      Secret!WorkerFails, Secret!Tick, Secret!vars, Secret!table
<1>3. RowsLinked'
  BY <1>2, RowsStayLinked DEF Secret!Remove
<1>4. \A d \in Readers : RequestFits(d)'
  BY <1>1, OthersFit
<1>5. over \subseteq Notes /\ \A x \in over : OverBy(x, now)
  BY DEF SecretIInv, SecretTypes, OverInv, ToldTrue
<1>6. \A x \in over : OverBy(x, now)'
  BY <1>5, OverStays
<1>7. ToldTrue'
  BY <1>1, <1>6 DEF ToldTrue
<1> QED
  BY <1>1, <1>3, <1>4, <1>7 DEF OverInv

LEMMA InitOverInv ==
  ASSUME Secret!SecretsAssumption, Secret!Init
  PROVE  OverInv
<1> QED
  BY
  DEF Secret!Init, Secret!SecretsAssumption, OverInv, RowsLinked, ToldTrue, RequestFits,
      Secret!NoRow

LEMMA NextOverInv ==
  ASSUME Secret!SecretsAssumption, SecretIInv, OverInv, [Secret!Next]_(Secret!vars)
  PROVE  OverInv'
<1>0. Onward
  BY StepsGoOnward
<1>1. ASSUME NEW c \in Readers, Secret!Works(c)
      PROVE  OverInv'
  BY <1>0, <1>1, DeletesNothingOver, DeletesOver, CommitOver, SelectOver DEF Secret!Works
<1>2. ASSUME NEW c \in Readers, NEW i \in SecretIds, Secret!Insert(c, i) \/ Secret!InsertFails(c, i)
      PROVE  OverInv'
  BY <1>0, <1>2, InsertOver
<1>3. ASSUME NEW c \in Readers, NEW s \in Notes,
             \/ \E hours \in 1 .. SecretHours : Secret!Create(c, s, hours)
             \/ \E op \in {"read", "burn"} : Secret!Ask(c, op, s)
      PROVE  OverInv'
  BY <1>0, <1>3, CreateOver, AskOver
<1>4. CASE Secret!Cleans \/ Secret!Tick \/ UNCHANGED Secret!vars
  BY <1>0, <1>4, OthersOver
<1> QED
  BY <1>1, <1>2, <1>3, <1>4 DEF Secret!Next

\* An answer that carries a secret was asked for before the secret was over.
LEMMA StepsAnswerInTime ==
  ASSUME Secret!SecretsAssumption, SecretIInv, OverInv, [Secret!Next]_(Secret!vars)
  PROVE  Secret!OverIsOver
<1> SUFFICES ASSUME NEW s \in Notes, given'[s] # given[s]
             PROVE  \E c \in Readers : reader[c] # "idle" /\ reader'[c] = "idle" /\ s \notin known[c]
  BY DEF Secret!OverIsOver
<1> USE DEF SecretIInv
<1>1. ASSUME NEW c \in Readers, Secret!Done(c)
      PROVE  reader'[c] = "idle"
  BY <1>1 DEF Secret!Done, Secret!Go, SecretTypes
<1>2. ASSUME NEW c \in Readers, Secret!Commit(c)
      PROVE  reader[c] # "idle" /\ reader'[c] = "idle" /\ s \notin known[c]
  <2>1. reader[c] = "commit" /\ job[c].op = "read" /\ Secret!Done(c) /\ s = job[c].saw.secret
    BY <1>2 DEF Secret!Commit, Secret!Given, SecretTypes
  <2> QED
    BY <1>1, <2>1 DEF OverInv, RequestFits
<1>3. ASSUME NEW c \in Readers, Secret!Select(c)
      PROVE  reader[c] # "idle" /\ reader'[c] = "idle" /\ s \notin known[c]
  <2>1. /\ reader[c] = "select" /\ Secret!Done(c) /\ s = secret[job[c].id].secret
        /\ Secret!Readable(secret[job[c].id]) /\ job[c].id \in SecretIds
    BY <1>3 DEF Secret!Select, Secret!Given, SecretTypes, SecretJobs, JobFits
  <2>2. s \notin gone /\ secret[job[c].id].until > now
    BY <2>1 DEF SecretRowsFit, Secret!Readable
  <2>3. Secret!Known(s) => link[s].until = secret[job[c].id].until
    BY <2>1 DEF OverInv, RowsLinked
  <2>4. job[c].at <= now /\ \A x \in known[c] : OverBy(x, job[c].at)
    BY <2>1 DEF OverInv, RequestFits
  <2>5. now \in Nat /\ job[c].at \in Nat /\ link[s].until \in Nat
    BY DEF SecretTypes
  <2>6. s \notin known[c]
    BY <2>2, <2>3, <2>4, <2>5 DEF OverBy
  <2> QED
    BY <1>1, <2>1, <2>6
<1>4. CASE \E c \in Readers : Secret!DeletesNothing(c) \/ Secret!Deletes(c) \/ Secret!CommitFails(c)
  BY <1>4 DEF Secret!DeletesNothing, Secret!Deletes, Secret!CommitFails, Secret!told
<1>5. CASE \E c \in Readers, i \in SecretIds : Secret!Insert(c, i) \/ Secret!InsertFails(c, i)
  BY <1>5 DEF Secret!Insert, Secret!InsertFails, Secret!told
<1>6. CASE \E c \in Readers, x \in Notes :
             \/ \E hours \in 1 .. SecretHours : Secret!Create(c, x, hours)
             \/ \E op \in {"read", "burn"} : Secret!Ask(c, op, x)
  BY <1>6 DEF Secret!Create, Secret!Ask, Secret!told
<1>7. CASE Secret!Cleans \/ Secret!Tick \/ UNCHANGED Secret!vars
  BY <1>7
  DEF Secret!Cleans, Secret!WorkerTicks, Secret!WorkerDeletes, Secret!WorkerCommits,
      Secret!WorkerFails, Secret!Tick, Secret!vars, Secret!told
<1> QED
  BY <1>2, <1>3, <1>4, <1>5, <1>6, <1>7 DEF Secret!Next, Secret!Works

-----------------------------------------------------------------------------

SecretsInv == part = "secrets" => SecretIInv /\ OverInv

LEMMA InitSecrets == Init => SecretsInv
<1> QED
  BY PartsAssumption, InitSecretIInv, InitOverInv DEF Init, PartsAssumption, SecretsInv

LEMMA NextSecrets == SecretsInv /\ [Next]_vars => SecretsInv'
<1> SUFFICES ASSUME SecretsInv, [Next]_vars, part' = "secrets"
             PROVE  SecretIInv' /\ OverInv'
  BY DEF SecretsInv
<1>1. part = "secrets" /\ (Secret!Next \/ UNCHANGED secretVars)
  BY DEF Next, vars, InLibrary, InLocks, InSecrets, InAliases, InEmail
<1>2. UNCHANGED secretVars => UNCHANGED Secret!vars
  BY DEF secretVars, Secret!vars
<1>3. Secret!SecretsAssumption /\ SecretIInv /\ OverInv /\ [Secret!Next]_(Secret!vars)
  BY <1>1, <1>2, PartsAssumption DEF PartsAssumption, SecretsInv
<1> QED
  BY <1>3, NextSecretIInv, NextOverInv

\* A read-once secret is taken once, however many read and burn it at once and
\* whatever fails; and a secret stays where its link points until it is taken
\* or over: no id is given away and the worker does not come early
\* (read_secret_content, burn_secret, insert_secret, secret_cleanup_worker).
THEOREM SecretsAreKept == Spec => []SecretsKept
<1>1. SecretsInv => SecretsKept
  <2> SUFFICES ASSUME SecretIInv
               PROVE  Secret!TypeOK /\ Secret!TakenOnce /\ Secret!KeptUntilOver
    BY DEF SecretsKept, SecretsInv
  <2>1. Secret!KeptUntilOver
    BY HeldIsThere
  <2>2. SecretTypes /\ Secret!TakenOnce
    BY DEF SecretIInv
  <2>3. Secret!TypeOK
    BY <2>2 DEF SecretTypes, SecretRow, Secret!TypeOK
  <2> QED
    BY <2>1, <2>2, <2>3
<1> QED
  BY <1>1, InitSecrets, NextSecrets, PTL DEF Spec

\* Who asks after a secret's hour, or after anybody was told that it is read,
\* burnt or gone, is not given it, whatever statements are under way: the read
\* takes its time before its row, and the worker and the burn only remove rows
\* (read_secret_content, burn_secret, secret_cleanup_worker).
THEOREM SecretsEnd == Spec => OverIsOver
<1>1. SecretsInv /\ [Next]_vars => (part = "secrets" => Secret!OverIsOver)
  <2> SUFFICES ASSUME SecretsInv, [Next]_vars, part = "secrets"
               PROVE  Secret!OverIsOver
    OBVIOUS
  <2>1. Secret!Next \/ UNCHANGED secretVars
    BY DEF Next, vars, InLibrary, InLocks, InSecrets, InAliases, InEmail
  <2>2. UNCHANGED secretVars => UNCHANGED Secret!vars
    BY DEF secretVars, Secret!vars
  <2>3. Secret!SecretsAssumption /\ SecretIInv /\ OverInv /\ [Secret!Next]_(Secret!vars)
    BY <2>1, <2>2, PartsAssumption DEF PartsAssumption, SecretsInv
  <2> QED
    BY <2>3, StepsAnswerInTime
<1> QED
  BY <1>1, InitSecrets, NextSecrets, PTL DEF Spec, OverIsOver

-----------------------------------------------------------------------------
(* Aliases of callback targets *)

\* The part runs the component the theorems are about.
AskerPlaces == {"idle", "draw", "insert", "upsert", "commit"}

\* A target is in one row: the unique index of the table.
OneRow == \A i, j \in AliasIds : target[i] = target[j] /\ target[i] # None => i = j

\* What a statement sees is still there: rows are never changed or deleted.
SnapStands == \A c \in Askers : \A i \in AliasIds : snap[c][i] # None => target[i] = snap[c][i]

\* A request has a target once it is made, and an id once it is drawn.
RequestsOK ==
  \A c \in Askers :
    /\ asker[c] # "idle" => wanted[c] \in AliasTargets
    /\ asker[c] \in {"insert", "upsert", "commit"} => draw[c] \in AliasIds

\* An attempt of the loop counts.
Attempts == \A c \in Askers : asker[c] = "insert" => tries[c] # 0

\* A row that is not committed yet collides with no row that is, nor with
\* another one like it.
CommitsFit ==
  \A c \in Askers : asker[c] = "commit" =>
    /\ target[draw[c]] = None
    /\ \A i \in AliasIds : target[i] # wanted[c]
    /\ \A d \in Askers \ {c} : asker[d] = "commit" => draw[d] # draw[c] /\ wanted[d] # wanted[c]

AliasIInv ==
  /\ Callback!TypeOK /\ asker \in [Askers -> AskerPlaces]
  /\ OneRow /\ SnapStands /\ RequestsOK /\ Attempts /\ CommitsFit /\ Callback!AnswerStands

\* The migration leaves one row of each target.
LEMMA InitAliases ==
  ASSUME Callback!AliasesAssumption, Callback!Init
  PROVE  AliasIInv
<1>1. PICK old \in [AliasIds -> AliasTargets \cup {None}] : target = Callback!Deduplicated(old)
  BY DEF Callback!Init
<1>2. \A i \in AliasIds : target[i] = None \/ target[i] = old[i]
  BY <1>1 DEF Callback!Deduplicated
<1>3. OneRow
  <2> SUFFICES ASSUME NEW i \in AliasIds, NEW j \in AliasIds, i < j,
                      target[i] = target[j], target[i] # None
               PROVE  FALSE
    BY DEF OneRow, Callback!AliasesAssumption
  <2>1. i \in Callback!IdsOf(old, old[j])
    BY <1>2 DEF Callback!IdsOf
  <2> QED
    BY <1>1, <2>1 DEF Callback!Deduplicated
<1>4. target \in [AliasIds -> AliasTargets \cup {None}]
  BY <1>1 DEF Callback!Deduplicated
<1>5. Callback!TypeOK /\ asker \in [Askers -> AskerPlaces]
  BY <1>4 DEF Callback!Init, Callback!TypeOK, AskerPlaces, Callback!Empty,
     Callback!AliasesAssumption
<1>6. SnapStands /\ RequestsOK /\ Attempts /\ CommitsFit /\ Callback!AnswerStands
  BY DEF Callback!Init, SnapStands, RequestsOK, Attempts, CommitsFit, Callback!AnswerStands,
     Callback!Empty
<1> QED
  BY <1>3, <1>5, <1>6 DEF AliasIInv

-----------------------------------------------------------------------------
(* What ends a request. *)

\* A request that ends without a new row leaves the rest as it is.
LEMMA IdleKeeps ==
  ASSUME Callback!AliasesAssumption, AliasIInv, NEW c \in Askers, Callback!Idle(c),
         UNCHANGED target,
         answers' \in [AliasTargets -> SUBSET AliasIds], Callback!AnswerStands'
  PROVE  AliasIInv'
<1> USE DEF AliasIInv, Callback!Idle
<1>1. Callback!TypeOK' /\ asker' \in [Askers -> AskerPlaces]
  BY DEF Callback!TypeOK, AskerPlaces, Callback!Empty,
     Callback!AliasesAssumption
<1>2. OneRow'
  BY DEF OneRow
<1>3. SnapStands'
  BY DEF Callback!TypeOK, SnapStands, Callback!Empty
<1>4. (RequestsOK /\ Attempts)'
  BY DEF Callback!TypeOK, RequestsOK, Attempts
<1>5. CommitsFit'
  BY DEF Callback!TypeOK, CommitsFit
<1> QED
  BY <1>1, <1>2, <1>3, <1>4, <1>5

\* An id may be answered that has the target in a committed row.
LEMMA AnswerKeeps ==
  ASSUME Callback!AliasesAssumption, AliasIInv, NEW c \in Askers, asker[c] # "idle",
         NEW i \in AliasIds, target[i] = wanted[c], Callback!Answer(c, i), UNCHANGED target
  PROVE  AliasIInv'
<1>1. wanted[c] \in AliasTargets
  BY DEF AliasIInv, RequestsOK
<1>2. answers' = [answers EXCEPT ![wanted[c]] = @ \cup {i}] /\ Callback!Idle(c)
  BY DEF Callback!Answer
<1>3. answers' \in [AliasTargets -> SUBSET AliasIds]
  BY <1>1, <1>2 DEF AliasIInv, Callback!TypeOK
<1>4. Callback!AnswerStands'
  BY <1>1, <1>2 DEF AliasIInv, Callback!TypeOK, Callback!AnswerStands
<1> QED
  BY <1>2, <1>3, <1>4, IdleKeeps

\* A commit adds a row with a new id and a new target.
LEMMA CommitKeeps ==
  ASSUME Callback!AliasesAssumption, AliasIInv, NEW c \in Askers, asker[c] = "commit",
         Callback!Idle(c),
         target' = [target EXCEPT ![draw[c]] = wanted[c]],
         answers' \in [AliasTargets -> SUBSET AliasIds],
         \A t \in AliasTargets : \A i \in answers'[t] :
           i \in answers[t] \/ (i = draw[c] /\ t = wanted[c])
  PROVE  AliasIInv'
<1> USE DEF AliasIInv
<1>1. /\ draw[c] \in AliasIds /\ wanted[c] \in AliasTargets /\ target[draw[c]] = None
      /\ \A i \in AliasIds : target[i] # wanted[c]
  BY DEF RequestsOK, CommitsFit
<1>2. wanted[c] # None
  BY <1>1 DEF Callback!AliasesAssumption
<1>3. target' \in [AliasIds -> AliasTargets \cup {None}] /\ target'[draw[c]] = wanted[c]
  BY <1>1 DEF Callback!TypeOK
<1>4. \A i \in AliasIds \ {draw[c]} : target'[i] = target[i]
  BY <1>1 DEF Callback!TypeOK
<1>5. Callback!TypeOK' /\ asker' \in [Askers -> AskerPlaces]
  BY <1>3 DEF Callback!Idle, Callback!TypeOK, AskerPlaces, Callback!Empty,
     Callback!AliasesAssumption
<1>6. OneRow'
  BY <1>1, <1>3, <1>4 DEF OneRow
<1>7. \A i \in AliasIds : target[i] # None => target'[i] = target[i]
  BY <1>1, <1>4
<1>8. SnapStands'
  BY <1>7 DEF Callback!Idle, Callback!TypeOK, SnapStands, Callback!Empty
<1>9. (RequestsOK /\ Attempts)'
  BY DEF Callback!Idle, Callback!TypeOK, RequestsOK, Attempts
<1>10. CommitsFit'
  <2> SUFFICES ASSUME NEW d \in Askers, asker'[d] = "commit"
               PROVE  /\ target'[draw'[d]] = None
                      /\ \A i \in AliasIds : target'[i] # wanted'[d]
                      /\ \A e \in Askers \ {d} :
                           asker'[e] = "commit" => draw'[e] # draw'[d] /\ wanted'[e] # wanted'[d]
    BY DEF CommitsFit
  <2>1. \A e \in Askers \ {c} : asker'[e] = asker[e] /\ draw'[e] = draw[e] /\ wanted'[e] = wanted[e]
    BY DEF Callback!Idle, Callback!TypeOK
  <2>2. asker'[c] = "idle"
    BY DEF Callback!Idle
  <2>3. d # c /\ asker[d] = "commit" /\ draw[d] \in AliasIds
    BY <2>1, <2>2 DEF RequestsOK
  <2>4. draw[d] # draw[c] /\ wanted[d] # wanted[c]
    BY <2>3 DEF CommitsFit
  <2> QED
    BY <1>3, <1>4, <2>1, <2>2, <2>3, <2>4 DEF CommitsFit
<1>11. Callback!AnswerStands'
  BY <1>2, <1>3, <1>7 DEF Callback!TypeOK, Callback!AnswerStands, Callback!AliasesAssumption
<1> QED
  BY <1>5, <1>6, <1>8, <1>9, <1>10, <1>11

-----------------------------------------------------------------------------
(* One lemma per action. *)

LEMMA AskStep ==
  ASSUME Callback!AliasesAssumption, AliasIInv, NEW c \in Askers, NEW t \in AliasTargets,
         Callback!Ask(c, t)
  PROVE  AliasIInv'
<1> USE DEF AliasIInv, Callback!Ask
<1>1. Callback!TypeOK' /\ asker' \in [Askers -> AskerPlaces]
  BY DEF Callback!TypeOK, AskerPlaces, Callback!AliasesAssumption
<1>2. (OneRow /\ SnapStands /\ Callback!AnswerStands)'
  BY DEF OneRow, SnapStands, Callback!AnswerStands
<1>3. (RequestsOK /\ Attempts)'
  BY DEF Callback!TypeOK, RequestsOK, Attempts
<1>4. CommitsFit'
  BY DEF Callback!TypeOK, CommitsFit
<1> QED
  BY <1>1, <1>2, <1>3, <1>4

LEMMA DrawStep ==
  ASSUME Callback!AliasesAssumption, AliasIInv, NEW c \in Askers, NEW i \in AliasIds,
         Callback!Draw(c, i)
  PROVE  AliasIInv'
<1> USE DEF AliasIInv, Callback!Draw, Callback!Fallback
<1>1. Callback!TypeOK' /\ asker' \in [Askers -> AskerPlaces]
  BY DEF Callback!TypeOK, AskerPlaces
<1>2. (OneRow /\ Callback!AnswerStands)'
  BY DEF OneRow, Callback!AnswerStands
<1>3. SnapStands'
  BY DEF Callback!TypeOK, SnapStands
<1>4. (RequestsOK /\ Attempts)'
  BY DEF Callback!TypeOK, RequestsOK, Attempts
<1>5. CommitsFit'
  BY DEF Callback!TypeOK, CommitsFit
<1> QED
  BY <1>1, <1>2, <1>3, <1>4, <1>5

\* A statement inserts its row if no row that is committed or on its way to it
\* is in its way.
LEMMA RowGoesIn ==
  ASSUME Callback!AliasesAssumption, AliasIInv, NEW c \in Askers,
         asker[c] \in {"insert", "upsert"}, ~Callback!Waits(c), ~Callback!Taken(c),
         asker' = [asker EXCEPT ![c] = "commit"],
         UNCHANGED <<target, wanted, draw, snap, tries, answers>>
  PROVE  AliasIInv'
<1> USE DEF AliasIInv
<1>1. Callback!TypeOK' /\ asker' \in [Askers -> AskerPlaces]
  BY DEF Callback!TypeOK, AskerPlaces
<1>2. (OneRow /\ SnapStands /\ Callback!AnswerStands)'
  BY DEF OneRow, SnapStands, Callback!AnswerStands
<1>3. (RequestsOK /\ Attempts)'
  BY DEF RequestsOK, Attempts
<1>4. /\ target[draw[c]] = None
      /\ \A i \in AliasIds : target[i] # wanted[c]
  BY DEF Callback!Taken, Callback!IdTaken, Callback!IdsOf
<1>5. \A d \in Askers \ {c} : asker[d] = "commit" => draw[d] # draw[c] /\ wanted[d] # wanted[c]
  BY DEF Callback!Waits, Callback!Clash, Callback!IdClash
<1>6. CommitsFit'
  BY <1>4, <1>5 DEF CommitsFit
<1> QED
  BY <1>1, <1>2, <1>3, <1>6

\* Another attempt.
LEMMA AgainKeeps ==
  ASSUME Callback!AliasesAssumption, AliasIInv, NEW c \in Askers, asker[c] = "insert", tries[c] # 0,
         asker' = [asker EXCEPT ![c] = "draw"], Callback!Again(c),
         UNCHANGED <<target, wanted, draw, snap, answers>>
  PROVE  AliasIInv'
<1> USE DEF AliasIInv
<1>1. tries' \in [Askers -> 0..AliasTries] /\ \A d \in Askers \ {c} : tries'[d] = tries[d]
  <2>1. tries \in [Askers -> 0..AliasTries] /\ AliasTries \in Nat
    BY DEF Callback!TypeOK, Callback!AliasesAssumption
  <2>2. \A n \in 0..AliasTries : n # 0 => n - 1 \in 0..AliasTries
    BY <2>1
  <2>3. tries[c] - 1 \in 0..AliasTries
    BY <2>1, <2>2
  <2> QED
    BY <2>1, <2>3 DEF Callback!Again
<1>2. /\ asker' \in [Askers -> AskerPlaces] /\ asker'[c] = "draw"
      /\ \A d \in Askers \ {c} : asker'[d] = asker[d]
  BY DEF AskerPlaces
<1>3. Callback!TypeOK'
  BY <1>1 DEF Callback!TypeOK
<1>4. (OneRow /\ SnapStands /\ Callback!AnswerStands)'
  BY DEF OneRow, SnapStands, Callback!AnswerStands
<1>5. (RequestsOK /\ Attempts)'
  BY <1>1, <1>2 DEF RequestsOK, Attempts
<1>6. CommitsFit'
  BY <1>2 DEF CommitsFit
<1> QED
  BY <1>2, <1>3, <1>4, <1>5, <1>6

LEMMA InsertStep ==
  ASSUME Callback!AliasesAssumption, AliasIInv, NEW c \in Askers, Callback!Insert(c)
  PROVE  AliasIInv'
<1>1. asker[c] = "insert" /\ ~Callback!Waits(c) /\ UNCHANGED target
  BY DEF Callback!Insert
<1>2. CASE ~Callback!Taken(c)
  BY <1>1, <1>2, RowGoesIn DEF Callback!Insert
<1>3. CASE Callback!Taken(c) /\ Callback!IdsOf(snap[c], wanted[c]) # {}
  <2>1. PICK i \in Callback!IdsOf(snap[c], wanted[c]) : Callback!Answer(c, i)
    BY <1>3 DEF Callback!Insert
  <2>2. i \in AliasIds /\ snap[c][i] = wanted[c] /\ wanted[c] \in AliasTargets
    BY <1>1 DEF Callback!IdsOf, AliasIInv, RequestsOK
  <2>3. target[i] = wanted[c]
    BY <2>2 DEF AliasIInv, SnapStands, Callback!AliasesAssumption
  <2> QED
    BY <1>1, <2>1, <2>2, <2>3, AnswerKeeps
<1>4. CASE Callback!Taken(c) /\ Callback!IdsOf(snap[c], wanted[c]) = {}
  <2>1. tries[c] # 0
    BY <1>1 DEF AliasIInv, Attempts
  <2> QED
    BY <1>1, <1>4, <2>1, AgainKeeps DEF Callback!Insert
<1> QED
  BY <1>2, <1>3, <1>4

LEMMA UpsertStep ==
  ASSUME Callback!AliasesAssumption, AliasIInv, NEW c \in Askers, Callback!Upsert(c)
  PROVE  AliasIInv'
<1>1. asker[c] = "upsert" /\ ~Callback!Waits(c) /\ UNCHANGED target
  BY DEF Callback!Upsert
<1>2. CASE /\ ~Callback!Taken(c)
           /\ asker' = [asker EXCEPT ![c] = "commit"]
           /\ UNCHANGED <<wanted, draw, snap, tries, answers>>
  BY <1>1, <1>2, RowGoesIn
<1>3. ASSUME NEW i \in Callback!IdsOf(target, wanted[c]), Callback!Answer(c, i)
      PROVE  AliasIInv'
  BY <1>1, <1>3, AnswerKeeps DEF Callback!IdsOf
<1>4. CASE Callback!Idle(c) /\ UNCHANGED answers
  BY <1>1, <1>4, IdleKeeps DEF AliasIInv, Callback!TypeOK, Callback!AnswerStands
<1> QED
  BY <1>2, <1>3, <1>4 DEF Callback!Upsert

LEMMA CommitStep ==
  ASSUME Callback!AliasesAssumption, AliasIInv, NEW c \in Askers, Callback!Commit(c)
  PROVE  AliasIInv'
<1>1. /\ asker[c] = "commit" /\ Callback!Idle(c)
      /\ target' = [target EXCEPT ![draw[c]] = wanted[c]]
      /\ answers' = [answers EXCEPT ![wanted[c]] = @ \cup {draw[c]}]
  BY DEF Callback!Commit, Callback!Answer
<1>2. draw[c] \in AliasIds /\ wanted[c] \in AliasTargets
  BY <1>1 DEF AliasIInv, RequestsOK
<1>3. answers' \in [AliasTargets -> SUBSET AliasIds]
  BY <1>1, <1>2 DEF AliasIInv, Callback!TypeOK
<1>4. \A t \in AliasTargets : \A i \in answers'[t] :
        i \in answers[t] \/ (i = draw[c] /\ t = wanted[c])
  BY <1>1 DEF AliasIInv, Callback!TypeOK
<1> QED
  BY <1>1, <1>3, <1>4, CommitKeeps

LEMMA FailsStep ==
  ASSUME Callback!AliasesAssumption, AliasIInv, NEW c \in Askers, Callback!Fails(c)
  PROVE  AliasIInv'
<1>1. Callback!Idle(c) /\ UNCHANGED answers
  BY DEF Callback!Fails
<1>2. answers' \in [AliasTargets -> SUBSET AliasIds]
  BY <1>1 DEF AliasIInv, Callback!TypeOK
<1>3. CASE UNCHANGED target
  BY <1>1, <1>2, <1>3, IdleKeeps DEF AliasIInv, Callback!AnswerStands
<1>4. CASE asker[c] = "commit" /\ target' = [target EXCEPT ![draw[c]] = wanted[c]]
  BY <1>1, <1>2, <1>4, CommitKeeps
<1> QED
  BY <1>3, <1>4 DEF Callback!Fails

LEMMA NextAliases ==
  ASSUME Callback!AliasesAssumption, AliasIInv, [Callback!Next]_(Callback!vars)
  PROVE  AliasIInv'
<1>1. CASE UNCHANGED (Callback!vars)
  BY <1>1 DEF AliasIInv, Callback!TypeOK, OneRow, SnapStands, RequestsOK, Attempts, CommitsFit,
     Callback!AnswerStands, Callback!vars
<1>2. ASSUME NEW c \in Askers, NEW t \in AliasTargets, Callback!Ask(c, t)
      PROVE  AliasIInv'
  BY <1>2, AskStep
<1>3. ASSUME NEW c \in Askers, Callback!Works(c) \/ Callback!Fails(c)
      PROVE  AliasIInv'
  BY <1>3, DrawStep, InsertStep, UpsertStep, CommitStep, FailsStep DEF Callback!Works
<1> QED
  BY <1>1, <1>2, <1>3 DEF Callback!Next

\* A target has one row, and its answers are in it.
LEMMA OneAnswer ==
  ASSUME Callback!AliasesAssumption, AliasIInv
  PROVE  Callback!SameAlias
<1> SUFFICES ASSUME NEW t \in AliasTargets, NEW i \in answers[t], NEW j \in answers[t]
             PROVE  i = j
  BY DEF Callback!SameAlias
<1>1. i \in AliasIds /\ j \in AliasIds
  BY DEF AliasIInv, Callback!TypeOK
<1>2. target[i] = t /\ target[j] = t /\ t # None
  BY DEF AliasIInv, Callback!AnswerStands, Callback!AliasesAssumption
<1> QED
  BY <1>1, <1>2 DEF AliasIInv, OneRow

CallbackInv == part = "aliases" => AliasIInv

LEMMA InitCallback == Init => CallbackInv
<1> QED
  BY PartsAssumption, InitAliases DEF Init, PartsAssumption, CallbackInv

LEMMA NextCallback == CallbackInv /\ [Next]_vars => CallbackInv'
<1> SUFFICES ASSUME CallbackInv, [Next]_vars, part' = "aliases"
             PROVE  AliasIInv'
  BY DEF CallbackInv
<1>1. part = "aliases" /\ (Callback!Next \/ UNCHANGED aliasVars)
  BY DEF Next, vars, InLibrary, InLocks, InSecrets, InAliases, InEmail
<1>2. AliasIInv /\ Callback!AliasesAssumption /\ [Callback!Next]_(Callback!vars)
  BY <1>1, PartsAssumption DEF PartsAssumption, CallbackInv, aliasVars, Callback!vars
<1> QED
  BY <1>2, NextAliases

\* A target has one alias ever, and its alias leads to it (insert_alias,
\* alias_redirect).
THEOREM AliasesStay == Spec => []AliasesStand
<1>1. CallbackInv => AliasesStand
  <2> SUFFICES ASSUME AliasIInv
               PROVE  Callback!TypeOK /\ Callback!SameAlias /\ Callback!AnswerStands
    BY DEF AliasesStand, CallbackInv
  <2> QED
    BY PartsAssumption, OneAnswer DEF PartsAssumption, AliasIInv
<1> QED
  BY <1>1, InitCallback, NextCallback, PTL DEF Spec

-----------------------------------------------------------------------------
(* E-mail aliases *)

\* The part runs the component the theorems are about.
LEMMA EmailRuns ==
  /\ Email!EmailAssumption => EmailFacts!EmailAssumption
  /\ Email!Init => EmailFacts!Init
  /\ Email!Next => EmailFacts!Next
<1>1. /\ Email!EmailAssumption => EmailFacts!EmailAssumption
      /\ Email!Init => EmailFacts!Init
  BY DEF
    Email!EmailAssumption, Email!Link, Email!Init, Email!Idle,
    EmailFacts!EmailAssumption, EmailFacts!Link, EmailFacts!Init,
    EmailFacts!Idle
<1>2. Email!Next => EmailFacts!Next
  BY DEF
    Email!Next, Email!IssueLink, Email!Begin, Email!Operations, Email!Handle,
    Email!EmailForKey, Email!Usable, Email!Idle, Email!Session, Email!Act,
    Email!Done, Email!Create, Email!Forever, Email!Update, Email!Mine,
    Email!Delete, Email!Revoke, Email!Abort, Email!Tick, Email!Older,
    EmailFacts!Next, EmailFacts!IssueLink, EmailFacts!Begin,
    EmailFacts!Operations, EmailFacts!Handle, EmailFacts!EmailForKey,
    EmailFacts!Usable, EmailFacts!Idle, EmailFacts!Session, EmailFacts!Act,
    EmailFacts!Done, EmailFacts!Create, EmailFacts!Forever, EmailFacts!Update,
    EmailFacts!Mine, EmailFacts!Delete, EmailFacts!Revoke, EmailFacts!Abort,
    EmailFacts!Tick, EmailFacts!Older
<1> QED
  BY <1>1, <1>2

EmailInv == part = "email" => EmailFacts!EmailTypes

LEMMA InitEmail == Init => EmailInv
<1> QED
  BY EmailRuns, EmailFacts!InitEmail DEF Init, EmailInv

LEMMA EmailSteps ==
  ASSUME EmailInv, [Next]_vars, part' = "email" \/ part = "email"
  PROVE  /\ part = "email" /\ EmailFacts!EmailTypes /\ EmailFacts!EmailAssumption
         /\ EmailFacts!Next \/ UNCHANGED <<login, row, web>>
<1>1. part = "email" /\ (Email!Next \/ UNCHANGED <<login, row, web>>)
  BY DEF Next, vars, emailVars, InLibrary, InLocks, InSecrets, InAliases, InEmail
<1> QED
  BY <1>1, PartsAssumption, EmailRuns DEF PartsAssumption, EmailInv

LEMMA NextEmail == EmailInv /\ [Next]_vars => EmailInv'
<1> SUFFICES ASSUME EmailInv, [Next]_vars, part' = "email"
             PROVE  EmailFacts!EmailTypes'
  BY DEF EmailInv
<1>1. /\ EmailFacts!EmailTypes /\ EmailFacts!EmailAssumption
      /\ EmailFacts!Next \/ UNCHANGED <<login, row, web>>
  BY EmailSteps
<1>2. CASE UNCHANGED <<login, row, web>>
  BY <1>1, <1>2 DEF EmailFacts!EmailTypes
<1> QED
  BY <1>1, <1>2, EmailFacts!NextEmail

\* An e-mail alias changes hands only through its owner, and an address without
\* a link that works lets nobody in any more (email_for_key, create_email_alias,
\* update_email_alias, delete_email_alias).
THEOREM OwnersKeepAliases == Spec => OwnersStand
<1>1. EmailInv /\ [Next]_vars => (part = "email" => Email!NoTakeover /\ Email!LockedStaysOut)
  <2> SUFFICES ASSUME EmailInv, [Next]_vars, part = "email"
               PROVE  Email!NoTakeover /\ Email!LockedStaysOut
    OBVIOUS
  <2>1. /\ EmailFacts!EmailTypes
        /\ EmailFacts!Next \/ UNCHANGED <<login, row, web>>
    BY EmailSteps
  <2>2. CASE UNCHANGED <<login, row, web>>
    BY <2>2 DEF Email!NoTakeover, Email!LockedStaysOut, Email!Acting
  <2>3. CASE EmailFacts!Next
    <3>1. EmailFacts!NoTakeover /\ EmailFacts!LockedStaysOut
      BY <2>1, <2>3, EmailFacts!RowsHaveOwners, EmailFacts!LinksLetIn
    <3> QED
      BY <3>1 DEF
        Email!NoTakeover, Email!Older, Email!Acting, Email!LockedStaysOut,
    Email!Locked, EmailFacts!NoTakeover, EmailFacts!Older, EmailFacts!Acting,
    EmailFacts!LockedStaysOut, EmailFacts!Locked
  <2> QED
    BY <2>1, <2>2, <2>3
<1> QED
  BY <1>1, InitEmail, NextEmail, PTL DEF Spec, OwnersStand
=============================================================================
