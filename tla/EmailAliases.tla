---------------------------- MODULE EmailAliases -----------------------------
(***************************************************************************)
(* The web side of the e-mail aliases of cc.me (tables email_login_keys    *)
(* and email_aliases).  Every request first exchanges the key of a magic   *)
(* link for an e-mail address (email_for_key), then acts in a second       *)
(* statement; between the two, other requests run.  MailAgent adds the     *)
(* mail that is forwarded meanwhile.                                       *)
(***************************************************************************)
EXTENDS Integers, FiniteSets

CONSTANTS
  Users,     \* e-mail addresses
  Links,     \* magic links that are ever issued
  Aliases,   \* local parts that normalize_email_alias accepts
  Clients,   \* requests that are served at the same time
  None,      \* no row
  LinkLife,  \* 7 days, in ticks
  Lives      \* expiries a request may choose, in ticks from now

Link == [email : Users, revoked : BOOLEAN, left : 0..LinkLife]

EmailAssumption ==
  /\ None \notin Users \cup Link
  /\ LinkLife \in Nat \ {0} /\ Lives \subseteq Nat

Forever == -1   \* expires_at IS NULL
Operations == {"session", "create", "update", "delete", "revoke"}

VARIABLES
  link,   \* email_login_keys: whose, revoked_at, ticks to expires_at; or None
  row,    \* email_aliases: whose, ticks to expires_at; or None
  req     \* each request: where it is, its key, what it asks for, and the
          \*   address it was given for its key

vars == <<link, row, req>>

Alias == [email : Users, left : {Forever} \cup Lives \cup Nat]
Idle == [pc |-> "idle"]

Init ==
  /\ link = [l \in Links |-> None]
  /\ row = [a \in Aliases |-> None]
  /\ req = [c \in Clients |-> Idle]

-----------------------------------------------------------------------------

\* create_magic_link of the mail agent: a new key for whoever wrote to hi@.
IssueLink(l, u) ==
  /\ link[l] = None
  /\ link' = [link EXCEPT ![l] = [email |-> u, revoked |-> FALSE, left |-> LinkLife]]
  /\ UNCHANGED <<row, req>>

Usable(l) == link[l] # None /\ ~link[l].revoked /\ link[l].left > 0

\* An alias that mail is forwarded for.
Active(a) == row[a] # None /\ row[a].left # 0

Begin(c) ==
  /\ req[c].pc = "idle"
  /\ \E l \in Links, op \in Operations, a \in Aliases, m \in Links :
       /\ link[l] # None /\ link[m] # None
       /\ op \notin {"create", "update", "delete"} => a = CHOOSE x \in Aliases : TRUE
       /\ op # "revoke" => m = l
       /\ req' = [req EXCEPT ![c] =
            [pc |-> "key", key |-> l, op |-> op, alias |-> a, target |-> m]]
  /\ UNCHANGED <<link, row>>

\* email_for_key: 401 for a key that is revoked, expired or unknown.
EmailForKey(c) ==
  /\ req[c].pc = "key"
  /\ LET l == req[c].key IN
     req' = [req EXCEPT ![c] =
       IF Usable(l)
         THEN [pc |-> "act", op |-> @.op, alias |-> @.alias, target |-> @.target,
               email |-> link[l].email]
         ELSE Idle]
  /\ UNCHANGED <<link, row>>

Act(c, op) == req[c].pc = "act" /\ req[c].op = op
Done(c) == req' = [req EXCEPT ![c] = Idle]

\* email_session reads aliases and links.
Session(c) ==
  /\ Act(c, "session")
  /\ Done(c)
  /\ UNCHANGED <<link, row>>

\* fault: an expired alias goes to whoever asks for it
CreateOverExpired(c) ==
  /\ Act(c, "create")
  /\ LET a == req[c].alias IN
     IF Active(a) THEN UNCHANGED row
     ELSE \E left \in {Forever} \cup Lives :
            row' = [row EXCEPT ![a] = [email |-> req[c].email, left |-> left]]
  /\ Done(c)
  /\ UNCHANGED link

\* An alias that exists, expired or not, is refused: 409.
Create(c) ==
  /\ Act(c, "create")
  /\ LET a == req[c].alias IN
     IF row[a] # None THEN UNCHANGED row
     ELSE \E left \in {Forever} \cup (Lives \ {0}) :
            row' = [row EXCEPT ![a] = [email |-> req[c].email, left |-> left]]
  /\ Done(c)
  /\ UNCHANGED link

\* fault: the row is found by its alias alone
MineByName(c) == row[req[c].alias] # None

\* WHERE alias = $1 AND email = $2
Mine(c) == row[req[c].alias] # None /\ row[req[c].alias].email = req[c].email

\* The new expiry may be none, or already past; 404 for somebody else's alias.
Update(c) ==
  /\ Act(c, "update")
  /\ IF Mine(c)
       THEN \E left \in {Forever} \cup Lives : row' = [row EXCEPT ![req[c].alias].left = left]
       ELSE UNCHANGED row
  /\ Done(c)
  /\ UNCHANGED link

Delete(c) ==
  /\ Act(c, "delete")
  /\ row' = IF Mine(c) THEN [row EXCEPT ![req[c].alias] = None] ELSE row
  /\ Done(c)
  /\ UNCHANGED link

\* delete_email_magic_link: any link of the same address, the current too.
Revoke(c) ==
  /\ Act(c, "revoke")
  /\ LET l == req[c].target IN
     link' = IF link[l].email = req[c].email
               THEN [link EXCEPT ![l].revoked = TRUE] ELSE link
  /\ Done(c)
  /\ UNCHANGED row

\* The client goes away, or a statement fails.
Abort(c) ==
  /\ req[c].pc # "idle"
  /\ Done(c)
  /\ UNCHANGED <<link, row>>

Older(r) == IF r # None /\ r.left > 0 THEN [r EXCEPT !.left = @ - 1] ELSE r

Tick ==
  /\ link' = [l \in Links |-> Older(link[l])]
  /\ row' = [a \in Aliases |-> Older(row[a])]
  /\ UNCHANGED req

Handle(c) ==
  \/ EmailForKey(c) \/ Session(c) \/ Create(c) \/ Update(c) \/ Delete(c)
  \/ Revoke(c)

Next ==
  \/ \E l \in Links, u \in Users : IssueLink(l, u)
  \/ \E c \in Clients : Begin(c) \/ Handle(c) \/ Abort(c)
  \/ Tick

Spec == Init /\ [][Next]_vars

-----------------------------------------------------------------------------
(* Properties *)

\* No link of u is left: all are revoked or over.
Locked(u) ==
  \A l \in Links : link[l] # None /\ link[l].email = u =>
    link[l].revoked \/ link[l].left = 0

TypeOK ==
  /\ \A l \in Links : link[l] \in {None} \cup Link
  /\ \A a \in Aliases : row[a] = None \/ row[a] \in Alias
  /\ \A c \in Clients : req[c].pc \in {"idle", "key", "act"}

\* Somebody acts for u: requests that email_for_key has let in as u.
Acting(u) == {c \in Clients : req[c].pc = "act" /\ req[c].email = u}

\* What u's alias points to is only changed, or given up, by requests that
\* hold a key of u: an alias of u is never taken over by another address while
\* it has a row, not even after it has expired, and not by a request that was
\* let in before the alias changed hands.
NoTakeover ==
  \A a \in Aliases : row[a] # None =>
    \/ row'[a] = row[a] \/ row'[a] = Older(row[a])
    \/ /\ row'[a] # None => row'[a].email = row[a].email
       /\ \E c \in Acting(row[a].email) : req'[c].pc = "idle" /\ req[c].alias = a

\* Once all links of an address are revoked or expired, no request is let in
\* for it any more, so after those under way its aliases stay as they are.
LockedStaysOut ==
  \A u \in Users : Locked(u) => Acting(u)' \subseteq Acting(u)
=============================================================================
