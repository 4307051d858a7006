------------------------------ MODULE MailAgent ------------------------------
(***************************************************************************)
(* One run of cc-me-mail, the mail delivery agent, for each mail: what it  *)
(* does with mail to echo@, hi@ and aliases, its SMTP dialog, and its exit *)
(* status, beside the web requests of EmailAliases that change the aliases *)
(* meanwhile.  On failure the mail system bounces the mail.                *)
(***************************************************************************)
EXTENDS EmailAliases, Sequences

CONSTANT
  Mails   \* runs of the agent

\* is_reserved_email_alias: no alias is named like the agent's own recipients.
MailAssumption ==
  /\ EmailAssumption
  /\ Aliases \cap {"echo", "hi"} = {} /\ IsFiniteSet(Mails)

\* What is read from a mail: the envelope's sender or the From header, and
\* whether the headers say that nobody wrote it (MailText).
Senders == Users \cup {"none", "null", "mailer-daemon"}
Mail == [to : {"echo", "hi"} \cup Aliases, from : Senders, auto : BOOLEAN,
         utf8 : BOOLEAN]

\* fault: the answer to QUIT counts
DialogQuit == <<[say |-> "connect", expect |-> 2], [say |-> "EHLO", expect |-> 2],
                [say |-> "MAIL", expect |-> 2], [say |-> "RCPT", expect |-> 2],
                [say |-> "DATA", expect |-> 3], [say |-> "body", expect |-> 2],
                [say |-> "QUIT", expect |-> 2]>>

\* The dialog of smtp_submit: what is sent, and the digit that is expected.
Dialog == <<[say |-> "connect", expect |-> 2], [say |-> "EHLO", expect |-> 2],
            [say |-> "MAIL", expect |-> 2], [say |-> "RCPT", expect |-> 2],
            [say |-> "DATA", expect |-> 3], [say |-> "body", expect |-> 2]>>

VARIABLES
  mail,      \* what arrived, or None
  run,       \* the agent: where it is, whom it writes to, the dialog's step
  accepted,  \* to whom the server took responsibility for a mail, or None
  counted,   \* stat_counts of kind f: hours, days
  entitled   \* history: who held the alias actively since the mail arrived

agent == <<mail, run, accepted, counted, entitled>>
allVars == <<vars, agent>>

Off == [pc |-> "off", to |-> None, at |-> 0]
Ended == {"sent", "ignored", "failed"}

MailInit ==
  /\ Init
  /\ mail = [m \in Mails |-> None]
  /\ run = [m \in Mails |-> Off]
  /\ accepted = [m \in Mails |-> None]
  /\ counted = [h |-> 0, d |-> 0]
  /\ entitled = [m \in Mails |-> {}]

-----------------------------------------------------------------------------

Go(m, pc) == run' = [run EXCEPT ![m].pc = pc]
At(m, pc) == run[m].pc = pc

Arrive(m) ==
  /\ At(m, "off")
  /\ \E x \in Mail :
       /\ mail' = [mail EXCEPT ![m] = x]
       /\ entitled' = [entitled EXCEPT ![m] =
            {row[a].email : a \in {b \in Aliases : b = x.to /\ Active(b)}}]
  /\ Go(m, "start")
  /\ UNCHANGED <<vars, accepted, counted>>

\* Any ? of the agent: the database, the network, a timeout, a crash.
Fail(m) ==
  /\ run[m].pc \notin {"off", "start"} \cup Ended
  /\ Go(m, "failed")
  /\ UNCHANGED <<vars, mail, accepted, counted, entitled>>

\* build_echo_reply answers real senders of mail that somebody wrote.
Echoable(x) == x.from \in Users /\ ~x.auto

\* main reads the mail as UTF-8 and dispatches on its recipient.
Dispatch(m) ==
  /\ At(m, "start")
  /\ LET x == mail[m] IN
     CASE ~x.utf8 -> Go(m, "failed")
       [] x.utf8 /\ x.to = "echo" ->
            run' = [run EXCEPT ![m] = IF Echoable(x)
                      THEN [pc |-> "smtp", to |-> x.from, at |-> 1]
                      ELSE [@ EXCEPT !.pc = "ignored"]]
       [] x.utf8 /\ x.to = "hi" ->
            Go(m, CASE x.from = "none" -> "failed"
                    [] x.from \in {"null", "mailer-daemon"} -> "ignored"
                    [] OTHER -> "link")
       [] OTHER -> Go(m, "select")
  /\ UNCHANGED <<vars, mail, accepted, counted, entitled>>

\* handle_login: a link is stored, then mailed.
NewLink(m) ==
  /\ At(m, "link")
  /\ \E l \in Links : IssueLink(l, mail[m].from)
  /\ run' = [run EXCEPT ![m] = [pc |-> "smtp", to |-> mail[m].from, at |-> 1]]
  /\ UNCHANGED <<mail, accepted, counted, entitled>>

\* fault: expired aliases are forwarded for
SelectExpired(m) ==
  /\ At(m, "select")
  /\ LET r == row[mail[m].to] IN
     run' = [run EXCEPT ![m] = IF r = None THEN [@ EXCEPT !.pc = "failed"]
               ELSE [pc |-> "mark", to |-> r.email, at |-> 1]]
  /\ UNCHANGED <<vars, mail, accepted, counted, entitled>>

\* handle_alias: an unknown or expired alias fails.
Select(m) ==
  /\ At(m, "select")
  /\ LET a == mail[m].to IN
     run' = [run EXCEPT ![m] = IF Active(a)
               THEN [pc |-> "mark", to |-> row[a].email, at |-> 1]
               ELSE [@ EXCEPT !.pc = "failed"]]
  /\ UNCHANGED <<vars, mail, accepted, counted, entitled>>

\* UPDATE .. SET last_received_at; the time is not modelled.
Mark(m) ==
  /\ At(m, "mark")
  /\ Go(m, "smtp")
  /\ UNCHANGED <<vars, mail, accepted, counted, entitled>>

LastStep == Len(Dialog)

\* The server reads a command and answers; the agent reads the answer.
\* A server that answers the body with 2xx has taken the mail over.
Command(m) ==
  /\ At(m, "smtp")
  /\ \E digit \in {2, 3, 4, 5} :
       /\ accepted' = IF digit = 2 /\ Dialog[run[m].at].say = "body"
                        THEN [accepted EXCEPT ![m] = run[m].to] ELSE accepted
       /\ run' = [run EXCEPT ![m] =
            IF digit # Dialog[run[m].at].expect THEN [@ EXCEPT !.pc = "failed"]
            ELSE IF run[m].at < LastStep THEN [@ EXCEPT !.at = run[m].at + 1]
            ELSE IF mail[m].to \in Aliases THEN [@ EXCEPT !.pc = "hour"]
            ELSE [@ EXCEPT !.pc = "sent"]]
  /\ UNCHANGED <<vars, mail, counted, entitled>>

\* The server has the message, and its answer does not arrive.
AnswerLost(m) ==
  /\ At(m, "smtp") /\ Dialog[run[m].at].say = "body"
  /\ accepted' = [accepted EXCEPT ![m] = run[m].to]
  /\ Go(m, "failed")
  /\ UNCHANGED <<vars, mail, counted, entitled>>

\* record_forward, after QUIT: two statements of their own.
RecordHour(m) ==
  /\ At(m, "hour")
  /\ counted' = [counted EXCEPT !.h = @ + 1]
  /\ Go(m, "day")
  /\ UNCHANGED <<vars, mail, accepted, entitled>>

RecordDay(m) ==
  /\ At(m, "day")
  /\ counted' = [counted EXCEPT !.d = @ + 1]
  /\ Go(m, "sent")
  /\ UNCHANGED <<vars, mail, accepted, entitled>>

AgentStep(m) ==
  \/ Dispatch(m) \/ NewLink(m) \/ Select(m) \/ Mark(m) \/ Command(m)
  \/ AnswerLost(m) \/ RecordHour(m) \/ RecordDay(m)

\* Web requests and time, while mails are handled.
Web ==
  /\ \/ \E l \in Links, u \in Users : IssueLink(l, u)
     \/ \E c \in Clients : Begin(c) \/ Handle(c) \/ Abort(c)
     \/ Tick
  /\ entitled' = [m \in Mails |-> IF At(m, "off") THEN {} ELSE
       entitled[m] \cup
         {row'[a].email : a \in {b \in Aliases : b = mail[m].to /\ Active(b)'}}]
  /\ UNCHANGED <<mail, run, accepted, counted>>

MailNext == Web \/ \E m \in Mails : Arrive(m) \/ AgentStep(m) \/ Fail(m)

MailSpec == MailInit /\ [][MailNext]_allVars

-----------------------------------------------------------------------------
(* Properties *)

MailTypeOK ==
  /\ TypeOK
  /\ \A m \in Mails : mail[m] = None \/ mail[m] \in Mail
  /\ run \in [Mails -> [pc : {"off", "start", "link", "select", "mark", "smtp",
                              "hour", "day"} \cup Ended,
                        to : Users \cup {None}, at : 0..Len(Dialog)]]
  /\ accepted \in [Mails -> Users \cup {None}]

\* A run that ends with success, and had something to send, was told by the
\* server that it has the mail: nothing is lost without a bounce.
SuccessIsDelivery ==
  \A m \in Mails : At(m, "sent") => accepted[m] # None

\* Mail to an alias reaches nobody but those who held it, unexpired, while the
\* mail was handled, whatever is done to the alias in the meantime.
OnlyToHolder ==
  \A m \in Mails : mail[m] # None /\ mail[m].to \in Aliases =>
    accepted[m] \in entitled[m] \cup {None}

\* Nobody receives a mail from cc.me in answer to an automatic mail to echo@,
\* so two automatons do not write to each other for ever (build_echo_reply).
EchoAnswersPeople ==
  \A m \in Mails : mail[m] # None /\ mail[m].to = "echo" /\ mail[m].auto =>
    accepted[m] = None

\* The counters of forwarded mail never count more than was delivered, and
\* the day's, written after the hour's, never more than the hour's.
ForwardsCounted ==
  /\ counted.d <= counted.h
  /\ counted.h <= Cardinality({m \in Mails : accepted[m] # None})

\* A mail that was delivered does not bounce unless counting it failed or the
\* server's answer was lost: what fails before leaves it undelivered.
BounceIsLate ==
  \A m \in Mails : At(m, "failed")' /\ ~At(m, "failed") /\ accepted[m] # None =>
    run[m].pc \in {"hour", "day"}

=============================================================================
