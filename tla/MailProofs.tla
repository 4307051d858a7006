----------------------------- MODULE MailProofs -----------------------------
(***************************************************************************)
(* Proofs about EmailAliases, the web side of the e-mail aliases, and about *)
(* MailAgent, the delivery of mail beside it.                              *)
(***************************************************************************)
EXTENDS MailAgent, FiniteSetTheorems, TLAPS

-----------------------------------------------------------------------------
(* E-mail aliases *)

\* A request has the fields its place needs, and was made about a link that was
\* issued; a link and a row have an owner.
Requests ==
  [pc : {"idle"}]
    \cup [pc : {"key"}, op : Operations, key : Links, alias : Aliases, target : Links]
    \cup [pc : {"act"}, op : Operations, alias : Aliases, target : Links, email : Users]

Expiries == {Forever} \cup Lives \cup Nat

EmailTypes ==
  /\ link \in [Links -> {None} \cup Link]
  /\ row \in [Aliases -> {None} \cup Alias]
  /\ req \in [Clients -> Requests]
  /\ \A c \in Clients : req[c].pc # "idle" => link[req[c].target] # None

LEMMA InitEmail ==
  ASSUME Init
  PROVE  EmailTypes
<1> QED
  BY DEF Init, Idle, EmailTypes, Requests

LEMMA DoneType ==
  ASSUME EmailTypes, NEW c \in Clients, Done(c)
  PROVE  /\ req' \in [Clients -> Requests] /\ req'[c].pc = "idle"
         /\ \A d \in Clients \ {c} : req'[d] = req[d]
<1>1. Idle \in Requests /\ Idle.pc = "idle"
  BY DEF Idle, Requests
<1> QED
  BY <1>1 DEF Done, EmailTypes

\* What a request that was let in acts on.
LEMMA ActType ==
  ASSUME EmailTypes, NEW c \in Clients, req[c].pc = "act"
  PROVE  req[c].alias \in Aliases /\ req[c].target \in Links /\ req[c].email \in Users
<1>1. req[c] \in Requests
  BY DEF EmailTypes
<1> QED
  BY <1>1 DEF Requests

\* A link that was issued is never forgotten.
LEMMA LinksStep ==
  ASSUME EmailAssumption, EmailTypes, Next
  PROVE  /\ link' \in [Links -> {None} \cup Link]
         /\ \A l \in Links : link[l] # None => link'[l] # None
<1> USE DEF EmailTypes
<1>0. LinkLife \in Nat /\ None \notin Link
  BY DEF EmailAssumption
<1>1. ASSUME NEW l \in Links, NEW r \in Link, link' = [link EXCEPT ![l] = r]
      PROVE  /\ link' \in [Links -> {None} \cup Link]
             /\ \A k \in Links : link[k] # None => link'[k] # None
  BY <1>0, <1>1
<1>2. ASSUME NEW l \in Links, NEW u \in Users, IssueLink(l, u)
      PROVE  \E r \in Link : link' = [link EXCEPT ![l] = r]
  <2>1. [email |-> u, revoked |-> FALSE, left |-> LinkLife] \in Link
    BY <1>0 DEF Link
  <2> QED
    BY <1>2, <2>1 DEF IssueLink
<1>3. ASSUME NEW c \in Clients, Revoke(c)
      PROVE  UNCHANGED link \/ \E l \in Links, r \in Link : link' = [link EXCEPT ![l] = r]
  <2>1. req[c].target \in Links /\ link[req[c].target] # None
    BY <1>3, ActType DEF Revoke, Act
  <2>2. [link[req[c].target] EXCEPT !.revoked = TRUE] \in Link
    BY <2>1 DEF Link
  <2> QED
    BY <1>3, <2>1, <2>2 DEF Revoke
<1>4. CASE Tick
  <2>1. \A r \in Link : Older(r) \in Link
    BY <1>0 DEF Older, Link
  <2>2. Older(None) = None
    BY DEF Older
  <2>3. \A l \in Links : link'[l] = Older(link[l])
    BY <1>4 DEF Tick
  <2> QED
    BY <1>0, <1>4, <2>1, <2>2, <2>3 DEF Tick
<1>5. \/ UNCHANGED link
      \/ \E l \in Links, u \in Users : IssueLink(l, u)
      \/ \E c \in Clients : Revoke(c)
      \/ Tick
  BY DEF Next, Handle, Begin, EmailForKey, Session,
     Create, Update, Delete, Abort
<1> QED
  BY <1>1, <1>2, <1>3, <1>4, <1>5

LEMMA RowsStep ==
  ASSUME EmailAssumption, EmailTypes, Next
  PROVE  row' \in [Aliases -> {None} \cup Alias]
<1> USE DEF EmailTypes
<1>0. /\ Forever \in Expiries /\ Lives \subseteq Expiries
      /\ \A n \in Expiries : n \in Int /\ (n > 0 => n - 1 \in Expiries)
  BY DEF Forever, Expiries, EmailAssumption
<1>1. ASSUME NEW a \in Aliases, NEW r \in Alias, row' = [row EXCEPT ![a] = r]
      PROVE  row' \in [Aliases -> {None} \cup Alias]
  BY <1>1
<1>2. ASSUME NEW c \in Clients, Create(c)
      PROVE  UNCHANGED row \/ \E a \in Aliases, r \in Alias : row' = [row EXCEPT ![a] = r]
  <2>1. req[c].alias \in Aliases /\ req[c].email \in Users
    BY <1>2, ActType DEF Create, Act
  <2>2. \A n \in Expiries : [email |-> req[c].email, left |-> n] \in Alias
    BY <2>1 DEF Alias, Expiries
  <2> QED
    BY <1>0, <1>2, <2>1, <2>2 DEF Create
<1>3. ASSUME NEW c \in Clients, Update(c)
      PROVE  UNCHANGED row \/ \E a \in Aliases, r \in Alias : row' = [row EXCEPT ![a] = r]
  <2>1. req[c].alias \in Aliases
    BY <1>3, ActType DEF Update, Act
  <2>2. Mine(c) => \A n \in Expiries : [row[req[c].alias] EXCEPT !.left = n] \in Alias
    BY <2>1 DEF Mine, Alias, Expiries
  <2> QED
    BY <1>0, <1>3, <2>1, <2>2 DEF Update
<1>4. ASSUME NEW c \in Clients, Delete(c)
      PROVE  row' \in [Aliases -> {None} \cup Alias]
  BY <1>4 DEF Delete
<1>5. CASE Tick
  <2>1. \A r \in {None} \cup Alias : Older(r) \in {None} \cup Alias
    BY <1>0 DEF Older, Alias, Expiries
  <2> QED
    BY <1>5, <2>1 DEF Tick
<1>6. \/ UNCHANGED row
      \/ \E c \in Clients : Create(c) \/ Update(c) \/ Delete(c)
      \/ Tick
  BY DEF Next, Handle, IssueLink, Begin, EmailForKey,
     Session, Revoke, Abort
<1> QED
  BY <1>1, <1>2, <1>3, <1>4, <1>5, <1>6

LEMMA RequestsStep ==
  ASSUME EmailAssumption, EmailTypes, Next
  PROVE  /\ req' \in [Clients -> Requests]
         /\ \A c \in Clients : req'[c].pc # "idle" => link'[req'[c].target] # None
<1> USE DEF EmailTypes
<1>0. \A l \in Links : link[l] # None => link'[l] # None
  BY LinksStep
<1>1. \A c \in Clients : req[c].pc # "idle" => req[c].target \in Links
  BY DEF Requests
<1>2. ASSUME NEW c \in Clients, NEW r \in Requests, req' = [req EXCEPT ![c] = r],
             r.pc # "idle" => r.target \in Links /\ link[r.target] # None
      PROVE  /\ req' \in [Clients -> Requests]
             /\ \A d \in Clients : req'[d].pc # "idle" => link'[req'[d].target] # None
  <2>1. req' \in [Clients -> Requests] /\ req'[c] = r /\ \A d \in Clients \ {c} : req'[d] = req[d]
    BY <1>2
  <2> QED
    BY <1>0, <1>1, <1>2, <2>1
<1>3. ASSUME NEW c \in Clients, Begin(c)
      PROVE  \E r \in Requests : /\ req' = [req EXCEPT ![c] = r]
                                    /\ r.target \in Links /\ link[r.target] # None
  <2>1. PICK l \in Links, op \in Operations, a \in Aliases, m \in Links :
          /\ link[m] # None
          /\ req' = [req EXCEPT ![c] =
               [pc |-> "key", key |-> l, op |-> op, alias |-> a, target |-> m]]
    BY <1>3 DEF Begin
  <2>2. [pc |-> "key", key |-> l, op |-> op, alias |-> a, target |-> m] \in Requests
    BY DEF Requests
  <2> QED
    BY <2>1, <2>2
<1>4. ASSUME NEW c \in Clients, EmailForKey(c)
      PROVE  \E r \in Requests :
               /\ req' = [req EXCEPT ![c] = r]
               /\ r.pc # "idle" => r.target \in Links /\ link[r.target] # None
  <2> DEFINE q == req[c]
             l == q.key
             acts == [pc |-> "act", op |-> q.op, alias |-> q.alias, target |-> q.target,
                      email |-> link[l].email]
  <2>1. q.pc = "key" /\ q \in Requests
    BY <1>4 DEF EmailForKey
  <2>2. l \in Links /\ q.op \in Operations /\ q.alias \in Aliases /\ q.target \in Links
    BY <2>1 DEF Requests
  <2>3. Usable(l) => link[l].email \in Users
    BY <2>2 DEF Usable, Link
  <2>4. Usable(l) => acts \in Requests
    BY <2>2, <2>3 DEF Requests
  <2>5. Idle \in Requests /\ Idle.pc = "idle"
    BY DEF Idle, Requests
  <2>6. req' = [req EXCEPT ![c] = IF Usable(l) THEN acts ELSE Idle]
    BY <1>4 DEF EmailForKey
  <2>7. acts.target = q.target /\ link[q.target] # None
    BY <2>1
  <2> HIDE DEF acts
  <2> QED
    BY <2>2, <2>4, <2>5, <2>6, <2>7
<1>5. ASSUME NEW c \in Clients, Done(c)
      PROVE  \E r \in Requests : req' = [req EXCEPT ![c] = r] /\ r.pc = "idle"
  <2>1. Idle \in Requests /\ Idle.pc = "idle"
    BY DEF Idle, Requests
  <2> QED
    BY <1>5, <2>1 DEF Done
<1>6. \/ UNCHANGED req
      \/ \E c \in Clients : Begin(c) \/ EmailForKey(c) \/ Done(c)
  BY DEF Next, Handle, IssueLink, Session, Create,
     Update, Delete, Revoke, Abort, Tick
<1>7. CASE UNCHANGED req
  BY <1>0, <1>1, <1>7
<1> QED
  BY <1>2, <1>3, <1>4, <1>5, <1>6, <1>7

LEMMA NextEmail ==
  ASSUME EmailAssumption, EmailTypes, Next
  PROVE  EmailTypes'
<1> QED
  BY LinksStep, RowsStep, RequestsStep DEF EmailTypes

\* What a request does to the rows: it makes one, or acts on one of its owner.
LEMMA RowsHaveOwners ==
  ASSUME EmailTypes, Next
  PROVE  NoTakeover
<1> USE DEF EmailTypes
<1> SUFFICES ASSUME NEW a \in Aliases, row[a] # None, row'[a] # row[a], ~Tick
             PROVE  /\ row'[a] # None => row'[a].email = row[a].email
                    /\ \E c \in Acting(row[a].email) : req'[c].pc = "idle" /\ req[c].alias = a
  BY DEF NoTakeover, Tick
<1>1. PICK c \in Clients : Create(c) \/ Update(c) \/ Delete(c)
  BY DEF Next, Handle, IssueLink, Begin, EmailForKey, Session,
     Revoke, Abort
<1>2. ~Create(c)
  BY DEF Create, Active
<1>3. /\ req[c].pc = "act" /\ Mine(c) /\ req[c].alias = a
      /\ row'[a] # None => row'[a].email = row[a].email
  <2>1. CASE Update(c)
    <3>1. PICK n : row' = [row EXCEPT ![req[c].alias].left = n]
      BY <2>1 DEF Update
    <3>2. row[a] \in [email : Users, left : Expiries]
      BY DEF Alias, Expiries
    <3> QED
      BY <2>1, <3>1, <3>2 DEF Update, Act
  <2>2. CASE Delete(c)
    BY <2>2 DEF Delete, Act
  <2> QED
    BY <1>1, <1>2, <2>1, <2>2
<1>4. req'[c].pc = "idle"
  BY <1>1, DoneType DEF Create, Update, Delete
<1> QED
  BY <1>3, <1>4 DEF Acting, Mine

\* email_for_key lets nobody in without a link that works.
LEMMA LinksLetIn ==
  ASSUME EmailTypes, Next
  PROVE  LockedStaysOut
<1> USE DEF EmailTypes
<1> SUFFICES ASSUME NEW u \in Users, Locked(u), NEW c \in Clients,
                    req'[c].pc = "act", req'[c].email = u, req'[c] # req[c]
             PROVE  FALSE
  BY DEF LockedStaysOut, Acting
<1>1. ASSUME NEW d \in Clients, Done(d)
      PROVE  FALSE
  BY <1>1 DEF Done, Idle
<1>2. ASSUME NEW d \in Clients, Begin(d)
      PROVE  FALSE
  BY <1>2 DEF Begin
<1>3. EmailForKey(c)
  BY <1>1, <1>2 DEF Next, Handle, IssueLink, EmailForKey, Session,
     Create, Update, Delete, Revoke, Abort, Tick
<1>4. req[c].key \in Links
  <2>1. req[c] \in Requests /\ req[c].pc = "key"
    BY <1>3 DEF EmailForKey
  <2> QED
    BY <2>1 DEF Requests
<1>5. Usable(req[c].key) /\ link[req[c].key].email = u
  BY <1>3 DEF EmailForKey, Idle
<1>6. link[req[c].key].revoked \/ link[req[c].key].left = 0
  BY <1>4, <1>5 DEF Usable, Locked
<1> QED
  BY <1>5, <1>6 DEF Usable

-----------------------------------------------------------------------------
(* The mail agent *)

Places == {"off", "start", "link", "select", "mark", "smtp", "hour", "day"} \cup Ended
Runs == [pc : Places, to : Users \cup {None}, at : 0..6]

\* What a mail, its run, its receipt and those entitled to it agree on: until the
\* server has taken it, nobody has it; who is written to was entitled when the
\* alias was read; whoever holds the alias while the mail is handled is entitled.
Fits(m) ==
  LET pc == run[m].pc x == mail[m] IN
  /\ pc # "off" => x \in Mail
  /\ pc = "link" => x.to = "hi" /\ x.from \in Users
  /\ pc \in {"select", "mark", "hour", "day"} => x.to \in Aliases
  /\ pc \in {"mark", "smtp"} => run[m].at >= 1
  /\ pc \in {"mark", "smtp", "hour", "day"} =>
       run[m].to \in Users /\ (x.to \in Aliases => run[m].to \in entitled[m])
  /\ pc # "off" /\ x.to \in Aliases /\ Active(x.to) => row[x.to].email \in entitled[m]
  /\ pc \in {"off", "start", "link", "select", "mark", "smtp", "ignored"} => accepted[m] = None
  /\ accepted[m] # None => (x.to \in Aliases => accepted[m] \in entitled[m])
  /\ pc \in {"hour", "day", "sent"} => accepted[m] # None
  /\ pc # "off" /\ x.to = "echo" /\ x.auto =>
       pc \in {"start", "ignored", "failed"} /\ accepted[m] = None

\* Delivered, and not about to be counted; about to be counted by the day.
Counting == {m \in Mails : accepted[m] # None /\ run[m].pc # "hour"}
ByDay == {m \in Mails : run[m].pc = "day"}

Counts ==
  /\ counted \in [h : Nat, d : Nat]
  /\ counted.h <= Cardinality(Counting)
  /\ counted.d + Cardinality(ByDay) <= counted.h

MailTypes ==
  /\ mail \in [Mails -> {None} \cup Mail]
  /\ run \in [Mails -> Runs]
  /\ accepted \in [Mails -> Users \cup {None}]
  /\ entitled \in [Mails -> SUBSET Users]

MailIInv ==
  EmailTypes /\ MailTypes /\ (\A m \in Mails : Fits(m)) /\ Counts

\* The body is the last thing that is sent, and 2xx the answer to it.
LEMMA BodyIsLast ==
  /\ LastStep = 6 /\ Len(Dialog) = 6
  /\ \A i \in 1..6 : Dialog[i].say = "body" <=> i = 6
  /\ Dialog[6].expect = 2
<1>1. Len(Dialog) = 6
  BY DEF Dialog
<1>2. \A i \in 1..6 : Dialog[i].say = "body" <=> i = 6
  BY DEF Dialog
<1>3. Dialog[6].expect = 2
  BY DEF Dialog
<1> QED
  BY <1>1, <1>2, <1>3 DEF LastStep

LEMMA InitMail ==
  ASSUME MailAssumption, MailInit
  PROVE  MailIInv
<1>1. EmailTypes
  BY InitEmail DEF MailInit
<1>2. MailTypes
  BY DEF MailInit, MailTypes, Off, Runs, Places
<1>3. ASSUME NEW m \in Mails PROVE Fits(m)
  BY <1>3 DEF MailInit, Fits, Off
<1>4. Counting = {} /\ ByDay = {}
  BY DEF MailInit, Counting, ByDay, Off
<1>5. Counts
  BY <1>4, FS_EmptySet DEF MailInit, Counts
<1> QED
  BY <1>1, <1>2, <1>3, <1>5 DEF MailIInv

\* A step of one run leaves the others as they are.
LEMMA OthersFit ==
  ASSUME MailIInv, EmailTypes', row' = row, MailTypes', Counts', NEW m \in Mails, Fits(m)',
         \A n \in Mails \ {m} : /\ mail'[n] = mail[n] /\ run'[n] = run[n]
                                /\ accepted'[n] = accepted[n] /\ entitled'[n] = entitled[n]
  PROVE  MailIInv'
<1>1. ASSUME NEW n \in Mails \ {m} PROVE Fits(n)'
  <2>1. Fits(n)
    BY DEF MailIInv
  <2> QED
    BY <2>1 DEF Fits, Active
<1> QED
  BY <1>1 DEF MailIInv

\* The counters are right after a step that counts nothing.
LEMMA NothingCounted ==
  ASSUME MailAssumption, Counts, counted' = counted,
         Counting \subseteq Counting', ByDay' \subseteq ByDay
  PROVE  Counts'
<1>1. IsFiniteSet(Mails)
  BY DEF MailAssumption
<1>2. PICK a, b : a = Counting' /\ b = ByDay'
  OBVIOUS
<1>3. a \subseteq Mails /\ ByDay \subseteq Mails
  BY <1>2 DEF Counting, ByDay
<1>4. IsFiniteSet(a) /\ IsFiniteSet(ByDay)
  BY <1>1, <1>3, FS_Subset
<1>5. IsFiniteSet(Counting) /\ Cardinality(Counting) <= Cardinality(a)
  BY <1>2, <1>4, FS_Subset
<1>6. IsFiniteSet(b) /\ Cardinality(b) <= Cardinality(ByDay)
  BY <1>2, <1>4, FS_Subset
<1>7. /\ Cardinality(a) \in Nat /\ Cardinality(b) \in Nat
      /\ Cardinality(Counting) \in Nat /\ Cardinality(ByDay) \in Nat
  BY <1>4, <1>5, <1>6, FS_CardinalityType
<1> QED
  BY <1>2, <1>5, <1>6, <1>7 DEF Counts

\* A run goes on, counting nothing.
LEMMA RunMoves ==
  ASSUME MailAssumption, MailIInv, EmailTypes', UNCHANGED <<row, mail, entitled, counted>>,
         NEW m \in Mails, NEW r \in Runs, NEW a \in Users \cup {None},
         run' = [run EXCEPT ![m] = r], accepted' = [accepted EXCEPT ![m] = a],
         accepted[m] = None \/ (a = accepted[m] /\ r.pc # "hour"), r.pc # "day", Fits(m)'
  PROVE  MailIInv'
<1>1. MailTypes /\ Counts
  BY DEF MailIInv
<1>2. MailTypes' /\ run'[m] = r /\ accepted'[m] = a
  BY <1>1 DEF MailTypes
<1>3. \A n \in Mails \ {m} : run'[n] = run[n] /\ accepted'[n] = accepted[n]
  BY <1>1 DEF MailTypes
<1>4. Counting \subseteq Counting' /\ ByDay' \subseteq ByDay
  BY <1>2, <1>3 DEF Counting, ByDay
<1>5. Counts'
  BY <1>1, <1>4, NothingCounted
<1> QED
  BY <1>2, <1>3, <1>5, OthersFit

\* Where a run is, the rest of it unchanged.
LEMMA GoesTo ==
  ASSUME MailIInv, NEW m \in Mails, NEW pc \in Places, Go(m, pc)
  PROVE  \E r \in Runs : /\ run' = [run EXCEPT ![m] = r] /\ run'[m] = r
                         /\ r.pc = pc /\ r.to = run[m].to /\ r.at = run[m].at
<1>1. run \in [Mails -> Runs]
  BY DEF MailIInv, MailTypes
<1>2. [run[m] EXCEPT !.pc = pc] \in Runs
  BY <1>1 DEF Runs
<1>3. run' = [run EXCEPT ![m] = [run[m] EXCEPT !.pc = pc]]
  BY DEF Go
<1> QED
  BY <1>1, <1>2, <1>3 DEF Runs

LEMMA SameReceipt ==
  ASSUME MailIInv, NEW m \in Mails, accepted' = accepted
  PROVE  accepted' = [accepted EXCEPT ![m] = accepted[m]] /\ accepted[m] \in Users \cup {None}
BY DEF MailIInv, MailTypes

LEMMA FailFits ==
  ASSUME MailAssumption, MailIInv, NEW m \in Mails, Fail(m)
  PROVE  MailIInv'
<1>1. "failed" \in Places /\ Go(m, "failed")
  BY DEF Fail, Places, Ended
<1>2. PICK r \in Runs : /\ run' = [run EXCEPT ![m] = r] /\ run'[m] = r
                        /\ r.pc = "failed" /\ r.to = run[m].to /\ r.at = run[m].at
  BY <1>1, GoesTo
<1>3. UNCHANGED <<vars, mail, accepted, counted, entitled>> /\ run[m].pc # "off"
  BY DEF Fail
<1>4. Fits(m)'
  BY <1>2, <1>3 DEF Fits, MailIInv, Active, vars
<1>5. EmailTypes'
  BY <1>3 DEF MailIInv, EmailTypes, vars
<1> QED
  BY <1>2, <1>3, <1>4, <1>5, RunMoves, SameReceipt DEF vars

LEMMA DispatchFits ==
  ASSUME MailAssumption, MailIInv, NEW m \in Mails, Dispatch(m)
  PROVE  MailIInv'
<1>1. /\ run[m].pc = "start" /\ Fits(m) /\ UNCHANGED <<vars, mail, accepted, counted, entitled>>
      /\ EmailTypes' /\ MailTypes
  BY DEF Dispatch, At, MailIInv, EmailTypes, vars
<1>2. mail[m] \in Mail /\ accepted[m] = None
  BY <1>1 DEF Fits
<1>3. ASSUME NEW r \in Runs, run' = [run EXCEPT ![m] = r], Fits(m)', r.pc \notin {"hour", "day"}
      PROVE  MailIInv'
  BY <1>1, <1>3, RunMoves, SameReceipt DEF vars
<1>4. ASSUME NEW pc \in {"failed", "ignored", "link", "select"}, Go(m, pc),
             pc = "link" => mail[m].to = "hi" /\ mail[m].from \in Users,
             pc = "select" => mail[m].to \in Aliases
      PROVE  MailIInv'
  <2>1. PICK r \in Runs : /\ run' = [run EXCEPT ![m] = r] /\ run'[m] = r /\ r.pc = pc
    BY <1>4, GoesTo DEF Places, Ended
  <2>2. mail[m].to = "echo" /\ mail[m].auto => pc \in {"ignored", "failed"}
    BY <1>4 DEF MailAssumption
  <2>3. Fits(m)'
    BY <1>1, <1>2, <1>4, <2>1, <2>2 DEF Fits, Active, vars
  <2> QED
    BY <1>3, <2>1, <2>3
<1>5. ASSUME mail[m].to = "echo", Echoable(mail[m]),
             run' = [run EXCEPT ![m] = [pc |-> "smtp", to |-> mail[m].from, at |-> 1]]
      PROVE  MailIInv'
  <2>1. PICK r : r = [pc |-> "smtp", to |-> mail[m].from, at |-> 1]
    OBVIOUS
  <2>2. r \in Runs /\ r.pc = "smtp" /\ r.to = mail[m].from /\ r.at = 1
    BY <1>5, <2>1 DEF Runs, Places, Echoable
  <2>3. run'[m] = r
    BY <1>1, <1>5, <2>1 DEF MailTypes
  <2>4. r.to \in Users /\ mail[m].to \notin Aliases /\ ~mail[m].auto
    BY <1>5, <2>2 DEF Echoable, MailAssumption
  <2>5. Fits(m)'
    BY <1>1, <1>2, <1>5, <2>2, <2>3, <2>4 DEF Fits, Active, vars
  <2> QED
    BY <1>3, <1>5, <2>1, <2>2, <2>5
<1>6. mail[m].to \in {"echo", "hi"} \cup Aliases /\ mail[m].from \in Senders
  BY <1>2 DEF Mail
<1>7. \/ Go(m, "failed") \/ Go(m, "ignored")
      \/ Go(m, "link") /\ mail[m].to = "hi" /\ mail[m].from \in Users
      \/ Go(m, "select") /\ mail[m].to \in Aliases
      \/ /\ mail[m].to = "echo" /\ Echoable(mail[m])
         /\ run' = [run EXCEPT ![m] = [pc |-> "smtp", to |-> mail[m].from, at |-> 1]]
  <2>1. CASE ~mail[m].utf8
    BY <2>1 DEF Dispatch
  <2>2. CASE mail[m].utf8 /\ mail[m].to = "echo"
    BY <2>2 DEF Dispatch, Go
  <2>3. CASE mail[m].utf8 /\ mail[m].to = "hi"
    <3>1. Go(m, CASE mail[m].from = "none" -> "failed"
                  [] mail[m].from \in {"null", "mailer-daemon"} -> "ignored"
                  [] OTHER -> "link")
      BY <2>3 DEF Dispatch
    <3>2. CASE mail[m].from = "none"
      BY <3>1, <3>2
    <3>3. CASE mail[m].from \in {"null", "mailer-daemon"}
      BY <3>1, <3>3
    <3>4. CASE mail[m].from \notin {"none", "null", "mailer-daemon"}
      BY <1>6, <2>3, <3>1, <3>4 DEF Senders
    <3> QED
      BY <3>2, <3>3, <3>4
  <2>4. CASE mail[m].utf8 /\ mail[m].to \notin {"echo", "hi"}
    BY <1>6, <2>4 DEF Dispatch
  <2> QED
    BY <2>1, <2>2, <2>3, <2>4
<1> QED
  BY <1>4, <1>5, <1>7

LEMMA NewLinkFits ==
  ASSUME MailAssumption, MailIInv, NEW m \in Mails, NewLink(m)
  PROVE  MailIInv'
<1>1. run[m].pc = "link" /\ Fits(m) /\ UNCHANGED <<mail, accepted, counted, entitled>> /\ MailTypes
  BY DEF NewLink, At, MailIInv
<1>2. mail[m] \in Mail /\ mail[m].to = "hi" /\ mail[m].from \in Users /\ accepted[m] = None
  BY <1>1 DEF Fits
<1>3. Next /\ row' = row
  BY <1>2 DEF NewLink, Next, IssueLink
<1>4. EmailTypes'
  BY <1>3, NextEmail DEF MailIInv, MailAssumption
<1>5. PICK r : r = [pc |-> "smtp", to |-> mail[m].from, at |-> 1]
  OBVIOUS
<1>6. r \in Runs /\ r.pc = "smtp" /\ r.to = mail[m].from /\ r.at = 1
  BY <1>2, <1>5 DEF Runs, Places
<1>7. run' = [run EXCEPT ![m] = r] /\ run'[m] = r
  BY <1>1, <1>5 DEF NewLink, MailTypes
<1>8. mail[m].to \notin Aliases
  BY <1>2 DEF MailAssumption
<1>9. Fits(m)'
  BY <1>1, <1>2, <1>3, <1>6, <1>7, <1>8 DEF Fits, Active
<1> QED
  BY <1>1, <1>3, <1>4, <1>6, <1>7, <1>9, RunMoves, SameReceipt

\* handle_alias writes to whom the alias has when it is read.
LEMMA SelectFits ==
  ASSUME MailAssumption, MailIInv, NEW m \in Mails, Select(m)
  PROVE  MailIInv'
<1>1. /\ run[m].pc = "select" /\ Fits(m) /\ UNCHANGED <<vars, mail, accepted, counted, entitled>>
      /\ EmailTypes' /\ MailTypes /\ EmailTypes
  BY DEF Select, At, MailIInv, EmailTypes, vars
<1>2. mail[m] \in Mail /\ mail[m].to \in Aliases /\ accepted[m] = None
  BY <1>1 DEF Fits
<1>3. CASE Active(mail[m].to)
  <2>1. PICK r : r = [pc |-> "mark", to |-> row[mail[m].to].email, at |-> 1]
    OBVIOUS
  <2>2. row[mail[m].to] \in Alias /\ row[mail[m].to].email \in entitled[m]
    BY <1>1, <1>2, <1>3 DEF Fits, Active, EmailTypes
  <2>3. r \in Runs /\ r.pc = "mark" /\ r.to = row[mail[m].to].email /\ r.at = 1
    BY <2>1, <2>2 DEF Runs, Places, Alias
  <2>4. run' = [run EXCEPT ![m] = r] /\ run'[m] = r
    BY <1>1, <1>3, <2>1 DEF Select, MailTypes
  <2>5. r.to \in Users /\ mail[m].to # "echo"
    BY <1>2, <2>2, <2>3 DEF Alias, MailAssumption
  <2>6. Fits(m)'
    BY <1>1, <1>2, <2>2, <2>3, <2>4, <2>5 DEF Fits, Active, vars
  <2> QED
    BY <1>1, <2>3, <2>4, <2>6, RunMoves, SameReceipt DEF vars
<1>4. CASE ~Active(mail[m].to)
  <2>1. Go(m, "failed")
    BY <1>4 DEF Select, Go
  <2>2. PICK r \in Runs : run' = [run EXCEPT ![m] = r] /\ run'[m] = r /\ r.pc = "failed"
    BY <2>1, GoesTo DEF Places, Ended
  <2>3. Fits(m)'
    BY <1>1, <1>2, <2>2 DEF Fits, Active, vars
  <2> QED
    BY <1>1, <2>2, <2>3, RunMoves, SameReceipt DEF vars
<1> QED
  BY <1>3, <1>4

LEMMA MarkFits ==
  ASSUME MailAssumption, MailIInv, NEW m \in Mails, Mark(m)
  PROVE  MailIInv'
<1>1. /\ run[m].pc = "mark" /\ Fits(m) /\ UNCHANGED <<vars, mail, accepted, counted, entitled>>
      /\ EmailTypes' /\ Go(m, "smtp") /\ "smtp" \in Places
  BY DEF Mark, At, MailIInv, EmailTypes, vars, Places
<1>2. PICK r \in Runs : /\ run' = [run EXCEPT ![m] = r] /\ run'[m] = r
                        /\ r.pc = "smtp" /\ r.to = run[m].to /\ r.at = run[m].at
  BY <1>1, GoesTo
<1>3. mail[m].to # "echo"
  BY <1>1 DEF Fits, MailAssumption
<1>4. Fits(m)'
  BY <1>1, <1>2, <1>3 DEF Fits, Active, vars
<1> QED
  BY <1>1, <1>2, <1>4, RunMoves, SameReceipt DEF vars

\* smtp_submit: until the body is answered the server has nothing, and the agent
\* goes on to count only when it is.
LEMMA CommandFits ==
  ASSUME MailAssumption, MailIInv, NEW m \in Mails, Command(m)
  PROVE  MailIInv'
<1>1. /\ run[m].pc = "smtp" /\ Fits(m) /\ UNCHANGED <<vars, mail, counted, entitled>>
      /\ EmailTypes' /\ MailTypes
  BY DEF Command, At, MailIInv, EmailTypes, vars
<1>2. /\ mail[m] \in Mail /\ run[m].to \in Users /\ accepted[m] = None
      /\ mail[m].to \in Aliases => run[m].to \in entitled[m]
      /\ ~(mail[m].to = "echo" /\ mail[m].auto)
  BY <1>1 DEF Fits
<1>3. run[m] \in Runs /\ run[m].at \in 1..6 /\ None \notin Users
  BY <1>1 DEF MailTypes, Runs, Fits, MailAssumption, EmailAssumption
<1>4. PICK digit \in {2, 3, 4, 5} :
        /\ accepted' = IF digit = 2 /\ run[m].at = 6
                         THEN [accepted EXCEPT ![m] = run[m].to] ELSE accepted
        /\ run' = [run EXCEPT ![m] =
             IF digit # Dialog[run[m].at].expect THEN [@ EXCEPT !.pc = "failed"]
             ELSE IF run[m].at < 6 THEN [@ EXCEPT !.at = run[m].at + 1]
             ELSE IF mail[m].to \in Aliases THEN [@ EXCEPT !.pc = "hour"]
             ELSE [@ EXCEPT !.pc = "sent"]]
  BY <1>3, BodyIsLast DEF Command
<1>5. CASE digit # Dialog[run[m].at].expect
  <2>1. accepted' = accepted
    BY <1>4, <1>5, BodyIsLast
  <2>2. Go(m, "failed") /\ "failed" \in Places
    BY <1>4, <1>5 DEF Go, Places, Ended
  <2>3. PICK r \in Runs : run' = [run EXCEPT ![m] = r] /\ run'[m] = r /\ r.pc = "failed"
    BY <2>2, GoesTo
  <2>4. Fits(m)'
    BY <1>1, <1>2, <2>1, <2>3 DEF Fits, Active, vars
  <2> QED
    BY <1>1, <2>1, <2>3, <2>4, RunMoves, SameReceipt DEF vars
<1>6. CASE digit = Dialog[run[m].at].expect /\ run[m].at < 6
  <2>1. accepted' = accepted
    BY <1>4, <1>6
  <2>2. PICK r : r = [run[m] EXCEPT !.at = run[m].at + 1]
    OBVIOUS
  <2>3. r \in Runs /\ r.pc = "smtp" /\ r.at >= 1 /\ r.to = run[m].to
    BY <1>1, <1>3, <1>6, <2>2 DEF Runs
  <2>4. run' = [run EXCEPT ![m] = r] /\ run'[m] = r
    <3>1. run' = [run EXCEPT ![m] = [@ EXCEPT !.at = run[m].at + 1]]
      BY <1>4, <1>6
    <3> QED
      BY <1>1, <2>2, <3>1 DEF MailTypes
  <2>5. Fits(m)'
    BY <1>1, <1>2, <2>1, <2>3, <2>4 DEF Fits, Active, vars
  <2> QED
    BY <1>1, <2>1, <2>3, <2>4, <2>5, RunMoves, SameReceipt DEF vars
<1>7. CASE digit = Dialog[run[m].at].expect /\ run[m].at = 6
  <2>1. accepted' = [accepted EXCEPT ![m] = run[m].to] /\ accepted'[m] = run[m].to
    BY <1>1, <1>4, <1>7, BodyIsLast DEF MailTypes
  <2>2. PICK r : r = [run[m] EXCEPT !.pc = IF mail[m].to \in Aliases THEN "hour" ELSE "sent"]
    OBVIOUS
  <2>3. /\ r \in Runs /\ r.to = run[m].to
        /\ r.pc = IF mail[m].to \in Aliases THEN "hour" ELSE "sent"
    BY <1>3, <2>2 DEF Runs, Places, Ended
  <2>4. run' = [run EXCEPT ![m] = r] /\ run'[m] = r
    <3>1. CASE mail[m].to \in Aliases
      <4>1. run' = [run EXCEPT ![m] = [run[m] EXCEPT !.pc = "hour"]]
        BY <1>4, <1>7, <3>1
      <4> QED
        BY <1>1, <2>2, <3>1, <4>1 DEF MailTypes
    <3>2. CASE mail[m].to \notin Aliases
      <4>1. run' = [run EXCEPT ![m] = [run[m] EXCEPT !.pc = "sent"]]
        BY <1>4, <1>7, <3>2
      <4> QED
        BY <1>1, <2>2, <3>2, <4>1 DEF MailTypes
    <3> QED
      BY <3>1, <3>2
  <2>5. Fits(m)'
    BY <1>1, <1>2, <1>3, <2>1, <2>3, <2>4 DEF Fits, Active, vars
  <2> QED
    BY <1>1, <1>2, <2>1, <2>3, <2>4, <2>5, RunMoves DEF vars
<1> QED
  BY <1>3, <1>5, <1>6, <1>7

LEMMA AnswerLostFits ==
  ASSUME MailAssumption, MailIInv, NEW m \in Mails, AnswerLost(m)
  PROVE  MailIInv'
<1>1. /\ run[m].pc = "smtp" /\ Fits(m) /\ UNCHANGED <<vars, mail, counted, entitled>>
      /\ EmailTypes' /\ MailTypes /\ Go(m, "failed") /\ "failed" \in Places
  BY DEF AnswerLost, At, MailIInv, EmailTypes, vars, Places, Ended
<1>2. /\ run[m].to \in Users /\ accepted[m] = None
      /\ mail[m].to \in Aliases => run[m].to \in entitled[m]
      /\ ~(mail[m].to = "echo" /\ mail[m].auto)
  BY <1>1 DEF Fits
<1>3. PICK r \in Runs : run' = [run EXCEPT ![m] = r] /\ run'[m] = r /\ r.pc = "failed"
  BY <1>1, GoesTo
<1>4. accepted' = [accepted EXCEPT ![m] = run[m].to] /\ accepted'[m] = run[m].to
  BY <1>1 DEF AnswerLost, MailTypes
<1>5. Fits(m)'
  BY <1>1, <1>2, <1>3, <1>4 DEF Fits, Active, vars
<1> QED
  BY <1>1, <1>2, <1>3, <1>4, <1>5, RunMoves DEF vars

\* record_forward, the hour: it counts what was delivered and not counted yet.
LEMMA RecordHourFits ==
  ASSUME MailAssumption, MailIInv, NEW m \in Mails, RecordHour(m)
  PROVE  MailIInv'
<1>1. /\ run[m].pc = "hour" /\ Fits(m) /\ UNCHANGED <<vars, mail, accepted, entitled>>
      /\ EmailTypes' /\ MailTypes /\ Counts /\ Go(m, "day")
      /\ counted' = [counted EXCEPT !.h = counted.h + 1]
  BY DEF RecordHour, At, MailIInv, EmailTypes, vars
<1>2. PICK r \in Runs : /\ run' = [run EXCEPT ![m] = r] /\ run'[m] = r
                        /\ r.pc = "day" /\ r.to = run[m].to
  BY <1>1, GoesTo DEF Places
<1>3. accepted[m] # None
  BY <1>1 DEF Fits
<1>4. Fits(m)'
  BY <1>1, <1>2 DEF Fits, Active, vars
<1>5. MailTypes'
  BY <1>1, <1>2 DEF MailTypes
<1>6. PICK a, b, c, d : a = Counting /\ b = ByDay /\ c = Counting' /\ d = ByDay'
  OBVIOUS
<1>7. a \subseteq Mails /\ b \subseteq Mails /\ m \notin a /\ m \notin b
  BY <1>1, <1>6 DEF Counting, ByDay
<1>8. c = a \cup {m} /\ d = b \cup {m}
  BY <1>1, <1>2, <1>3, <1>6 DEF Counting, ByDay, MailTypes
<1>9. IsFiniteSet(a) /\ IsFiniteSet(b)
  BY <1>7, FS_Subset DEF MailAssumption
<1>10. Cardinality(c) = Cardinality(a) + 1 /\ Cardinality(d) = Cardinality(b) + 1
  BY <1>7, <1>8, <1>9, FS_AddElement
<1>11. Counts'
  <2>1. Cardinality(a) \in Nat /\ Cardinality(b) \in Nat
    BY <1>9, FS_CardinalityType
  <2>2. /\ counted \in [h : Nat, d : Nat] /\ counted' \in [h : Nat, d : Nat]
        /\ counted'.h = counted.h + 1 /\ counted'.d = counted.d
    BY <1>1 DEF Counts
  <2>3. counted.h <= Cardinality(a) /\ counted.d + Cardinality(b) <= counted.h
    BY <1>1, <1>6 DEF Counts
  <2> QED
    BY <1>6, <1>10, <2>1, <2>2, <2>3 DEF Counts
<1>12. \A n \in Mails \ {m} : run'[n] = run[n]
  BY <1>1, <1>2 DEF MailTypes
<1> QED
  BY <1>1, <1>4, <1>5, <1>11, <1>12, OthersFit DEF vars

\* The day, after the hour.
LEMMA RecordDayFits ==
  ASSUME MailAssumption, MailIInv, NEW m \in Mails, RecordDay(m)
  PROVE  MailIInv'
<1>1. /\ run[m].pc = "day" /\ Fits(m) /\ UNCHANGED <<vars, mail, accepted, entitled>>
      /\ EmailTypes' /\ MailTypes /\ Counts /\ Go(m, "sent")
      /\ counted' = [counted EXCEPT !.d = counted.d + 1]
  BY DEF RecordDay, At, MailIInv, EmailTypes, vars
<1>2. PICK r \in Runs : run' = [run EXCEPT ![m] = r] /\ run'[m] = r /\ r.pc = "sent"
  BY <1>1, GoesTo DEF Places, Ended
<1>3. accepted[m] # None /\ mail[m].to # "echo"
  BY <1>1 DEF Fits, MailAssumption
<1>4. Fits(m)'
  BY <1>1, <1>2, <1>3 DEF Fits, Active, vars
<1>5. MailTypes'
  BY <1>1, <1>2 DEF MailTypes
<1>6. PICK a, b, d : a = Counting /\ b = ByDay /\ d = ByDay'
  OBVIOUS
<1>7. a \subseteq Mails /\ b \subseteq Mails /\ m \in b
  BY <1>1, <1>6 DEF Counting, ByDay
<1>8. Counting' = a /\ d = b \ {m}
  BY <1>1, <1>2, <1>6 DEF Counting, ByDay, MailTypes
<1>9. IsFiniteSet(a) /\ IsFiniteSet(b)
  BY <1>7, FS_Subset DEF MailAssumption
<1>10. Cardinality(d) = Cardinality(b) - 1
  BY <1>7, <1>8, <1>9, FS_RemoveElement
<1>11. Counts'
  <2>1. Cardinality(b) \in Nat
    BY <1>9, FS_CardinalityType
  <2>2. /\ counted \in [h : Nat, d : Nat] /\ counted' \in [h : Nat, d : Nat]
        /\ counted'.h = counted.h /\ counted'.d = counted.d + 1
    BY <1>1 DEF Counts
  <2>3. counted.h <= Cardinality(a) /\ counted.d + Cardinality(b) <= counted.h
    BY <1>1, <1>6 DEF Counts
  <2> QED
    BY <1>6, <1>8, <1>10, <2>1, <2>2, <2>3 DEF Counts
<1>12. \A n \in Mails \ {m} : run'[n] = run[n]
  BY <1>1, <1>2 DEF MailTypes
<1> QED
  BY <1>1, <1>4, <1>5, <1>11, <1>12, OthersFit DEF vars

LEMMA ArriveFits ==
  ASSUME MailAssumption, MailIInv, NEW m \in Mails, Arrive(m)
  PROVE  MailIInv'
<1>1. /\ run[m].pc = "off" /\ Fits(m) /\ UNCHANGED <<vars, accepted, counted>>
      /\ EmailTypes /\ EmailTypes' /\ MailTypes /\ Counts /\ Go(m, "start")
  BY DEF Arrive, At, MailIInv, EmailTypes, vars
<1>2. PICK x \in Mail :
        /\ mail' = [mail EXCEPT ![m] = x]
        /\ entitled' = [entitled EXCEPT ![m] =
             {row[a].email : a \in {b \in Aliases : b = x.to /\ Active(b)}}]
  BY DEF Arrive
<1>3. PICK r \in Runs : run' = [run EXCEPT ![m] = r] /\ run'[m] = r /\ r.pc = "start"
  BY <1>1, GoesTo DEF Places
<1>4. PICK e : e = {row[a].email : a \in {b \in Aliases : b = x.to /\ Active(b)}}
  OBVIOUS
<1>5. e \in SUBSET Users /\ (x.to \in Aliases /\ Active(x.to) => row[x.to].email \in e)
  BY <1>1, <1>4 DEF Active, EmailTypes, Alias
<1>6. MailTypes' /\ mail'[m] = x /\ entitled'[m] = e
  BY <1>1, <1>2, <1>3, <1>4, <1>5 DEF MailTypes
<1>7. accepted[m] = None
  BY <1>1 DEF Fits
<1>8. Fits(m)'
  BY <1>1, <1>3, <1>5, <1>6, <1>7 DEF Fits, Active, vars
<1>9. \A n \in Mails \ {m} : mail'[n] = mail[n] /\ run'[n] = run[n] /\ entitled'[n] = entitled[n]
  BY <1>1, <1>2, <1>3 DEF MailTypes
<1>10. Counting' = Counting /\ ByDay' = ByDay
  BY <1>1, <1>3, <1>7, <1>9 DEF Counting, ByDay
<1>11. Counts'
  BY <1>1, <1>10, NothingCounted
<1> QED
  BY <1>1, <1>6, <1>8, <1>9, <1>11, OthersFit DEF vars

\* Whoever takes an alias while mail to it is handled is entitled from then on.
LEMMA WebFits ==
  ASSUME MailAssumption, MailIInv, Web
  PROVE  MailIInv'
<1>1. EmailTypes /\ EmailTypes' /\ MailTypes /\ UNCHANGED <<mail, run, accepted, counted>>
  <2>1. Next
    BY DEF Web, Next
  <2> QED
    BY <2>1, NextEmail DEF Web, MailIInv, MailAssumption
<1>2. ASSUME NEW m \in Mails
      PROVE  /\ entitled'[m] \in SUBSET Users
             /\ run[m].pc # "off" => entitled[m] \subseteq entitled'[m]
             /\ run[m].pc # "off" /\ mail[m].to \in Aliases /\ Active(mail[m].to)' =>
                  row'[mail[m].to].email \in entitled'[m]
  <2>1. PICK e : e = {row'[a].email : a \in {b \in Aliases : b = mail[m].to /\ Active(b)'}}
    OBVIOUS
  <2>2. entitled'[m] = IF run[m].pc = "off" THEN {} ELSE entitled[m] \cup e
    BY <2>1 DEF Web, At
  <2>3. e \in SUBSET Users
    BY <1>1, <2>1 DEF Active, EmailTypes, Alias
  <2>4. mail[m].to \in Aliases /\ Active(mail[m].to)' => row'[mail[m].to].email \in e
    BY <1>1, <2>1 DEF Active
  <2> QED
    BY <1>1, <2>2, <2>3, <2>4 DEF MailTypes
<1>3. MailTypes'
  <2>1. DOMAIN entitled' = Mails /\ entitled' = [m \in Mails |-> entitled'[m]]
    BY DEF Web
  <2> QED
    BY <1>1, <1>2, <2>1 DEF MailTypes
<1>4. ASSUME NEW m \in Mails PROVE Fits(m)'
  <2>1. Fits(m)
    BY DEF MailIInv
  <2> QED
    BY <1>1, <1>2, <2>1 DEF Fits
<1>5. Counts'
  BY <1>1 DEF MailIInv, Counts, Counting, ByDay
<1> QED
  BY <1>1, <1>3, <1>4, <1>5 DEF MailIInv

LEMMA NextMail ==
  ASSUME MailAssumption, MailIInv, [MailNext]_allVars
  PROVE  MailIInv'
<1>1. ASSUME NEW m \in Mails, AgentStep(m)
      PROVE  MailIInv'
  BY <1>1, DispatchFits, NewLinkFits, SelectFits, MarkFits, CommandFits, AnswerLostFits,
     RecordHourFits, RecordDayFits DEF AgentStep
<1>2. CASE UNCHANGED allVars
  BY <1>2 DEF allVars, agent, vars, MailIInv, EmailTypes, MailTypes, Fits, Active, Counts,
     Counting, ByDay
<1> QED
  BY <1>1, <1>2, WebFits, ArriveFits, FailFits DEF MailNext

THEOREM MailInvariance ==
  ASSUME MailAssumption
  PROVE  MailSpec => []MailIInv
<1> QED
  BY InitMail, NextMail, PTL DEF MailSpec

\* What the agent promises of mail, of every state of the invariant: it reports
\* success for mail that a server has, writes to holders alone, answers no
\* automatic mail, and counts what was delivered (main, handle_alias, smtp_submit,
\* record_forward).
LEMMA MailIsRight ==
  ASSUME MailAssumption, MailIInv
  PROVE  /\ MailTypeOK /\ SuccessIsDelivery /\ OnlyToHolder
         /\ EchoAnswersPeople /\ ForwardsCounted
<1>1. \A m \in Mails : Fits(m)
  BY DEF MailIInv
<1>2. MailTypeOK
  <2>1. TypeOK
    BY DEF MailIInv, EmailTypes, TypeOK, Requests
  <2> QED
    BY <2>1, BodyIsLast DEF MailIInv, MailTypes, MailTypeOK, Runs, Places
<1>3. SuccessIsDelivery
  BY <1>1 DEF SuccessIsDelivery, Fits, At
<1>4. OnlyToHolder
  BY <1>1 DEF OnlyToHolder, Fits
<1>5. EchoAnswersPeople
  BY <1>1 DEF EchoAnswersPeople, Fits
<1>6. ForwardsCounted
  <2>1. PICK a, b, c : a = Counting /\ b = ByDay /\ c = {m \in Mails : accepted[m] # None}
    OBVIOUS
  <2>2. a \subseteq c /\ c \subseteq Mails /\ b \subseteq Mails
    BY <2>1 DEF Counting, ByDay
  <2>3. IsFiniteSet(c) /\ IsFiniteSet(b) /\ IsFiniteSet(a) /\ Cardinality(a) <= Cardinality(c)
    BY <2>2, FS_Subset DEF MailAssumption
  <2>4. Cardinality(c) \in Nat /\ Cardinality(b) \in Nat /\ Cardinality(a) \in Nat
    BY <2>3, FS_CardinalityType
  <2>5. /\ counted.h \in Nat /\ counted.d \in Nat
        /\ counted.h <= Cardinality(a) /\ counted.d + Cardinality(b) <= counted.h
    BY <2>1 DEF MailIInv, Counts
  <2> QED
    BY <2>1, <2>3, <2>4, <2>5 DEF ForwardsCounted
<1> QED
  BY <1>2, <1>3, <1>4, <1>5, <1>6

\* What ends a run with failure comes before the server has the mail, with its
\* answer, or after.
LEMMA FailuresComeEarly ==
  ASSUME MailAssumption, MailIInv, MailNext
  PROVE  BounceIsLate
<1> SUFFICES ASSUME NEW m \in Mails, run'[m].pc = "failed", run[m].pc # "failed",
                    accepted[m] # None
             PROVE  run[m].pc \in {"hour", "day"}
  BY DEF BounceIsLate, At
<1>1. Fits(m) /\ run \in [Mails -> Runs]
  BY DEF MailIInv, MailTypes
<1>2. run[m].pc \in {"hour", "day", "sent"}
  BY <1>1 DEF Fits, Runs, Places, Ended
<1>3. run[m].pc # "sent"
  <2> SUFFICES ASSUME run[m].pc = "sent" PROVE run'[m] = run[m]
    OBVIOUS
  <2>1. ASSUME NEW n \in Mails, \E r : run' = [run EXCEPT ![n] = r], run[n].pc # "sent"
        PROVE  run'[m] = run[m]
    BY <1>1, <2>1
  <2>2. ASSUME NEW n \in Mails, AgentStep(n) \/ Arrive(n) \/ Fail(n)
        PROVE  run[n].pc # "sent"
    BY <2>2 DEF AgentStep, Dispatch, NewLink, Select, Mark, Command, AnswerLost, RecordHour,
       RecordDay, Arrive, Fail, At, Ended
  <2>3. ASSUME NEW n \in Mails, AgentStep(n) \/ Arrive(n) \/ Fail(n)
        PROVE  \E r : run' = [run EXCEPT ![n] = r]
    <3>1. Dispatch(n) => \E r : run' = [run EXCEPT ![n] = r]
      BY DEF Dispatch, Go
    <3> QED
      BY <2>3, <3>1 DEF AgentStep, NewLink, Select, Mark, Command, AnswerLost, RecordHour,
         RecordDay, Arrive, Fail, Go
  <2> QED
    BY <2>1, <2>2, <2>3 DEF MailNext, Web
<1> QED
  BY <1>2, <1>3
=============================================================================
