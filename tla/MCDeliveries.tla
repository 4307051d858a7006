----------------------------- MODULE MCDeliveries ---------------------------
(***************************************************************************)
(* The components that deliver: polls, peeks, forwarders and adapters of   *)
(* inboxes, and mails.  A behaviour runs one of them, its part, and the    *)
(* variables of the others stand still.  A .cfg chooses parts and bounds.  *)
(***************************************************************************)
EXTENDS Integers, Sequences, SequencesExt, TLC

CONSTANTS
  ann, bob, cat, dan, None,
  Parts,
  PeekCount, PeekLimit, PeekWindow, PeekClock,
  Forwarders, ForwardCount, ForwardLimit, ForwardFails, ForwardFaults,
  Events, Tried, Inboxes, FirstInbox, InboxLimit, Providers, AdapterFaults,
  Users, Links, Names, Clients, Mails, LinkLife, Lives,
  LetterLines,
  Programs, MaxStarts

VARIABLES
  part,
  ready, posts, faults, announce, listening, wire, poll, late, queue, lagged,
  clock, stage, stamp, pc, ts, p, page, cursor, read, leases, lost, owed,
  store, took, forwarder, batch, at, calls, answer, fails, breaks,
  req, delivery, reply, stored, held, errors, unanswered,
  link, row, web, mail, run, accepted, counted, entitled,
  text, line, headers, wired,
  file, program, key, starts, used

pollVars == <<ready, posts, faults, announce, listening, wire, poll, late, queue, lagged>>
peekVars == <<clock, stage, stamp, pc, ts, p, page, cursor, read, leases, lost, owed>>
forwardVars == <<store, took, forwarder, batch, at, calls, answer, fails, breaks>>
adapterVars == <<req, delivery, reply, stored, held, errors, unanswered>>
mailVars == <<link, row, web, mail, run, accepted, counted, entitled>>
textVars == <<text, line, headers, wired>>
keyVars == <<file, program, key, starts, used>>
vars == <<part, pollVars, peekVars, forwardVars, adapterVars,
          mailVars, textVars, keyVars>>

-----------------------------------------------------------------------------
(* The parts *)

\* Two pollers on different instances: of different inboxes beside each
\* other, and, where notifications fail, of one.
Homes == "p1" :> "i1" @@ "p2" :> "i2"
WantsOwn == "p1" :> "k1" @@ "p2" :> "k2"
WantsSame == "p1" :> "k1" @@ "p2" :> "k1"

Poll == INSTANCE LongPoll WITH
  Instances <- {"i1", "i2"}, Keys <- {"k1", "k2"}, Pollers <- {"p1", "p2"},
  Home <- Homes, Wants <- WantsOwn, Capacity <- 1, MaxPosts <- 2, MaxFaults <- 1
Prompt == INSTANCE LongPoll WITH
  Instances <- {"i1", "i2"}, Keys <- {"k1", "k2"}, Pollers <- {"p1", "p2"},
  Home <- Homes, Wants <- WantsOwn, Capacity <- 1, MaxPosts <- 2, MaxFaults <- 0
Faulty == INSTANCE LongPoll WITH
  Instances <- {"i1", "i2"}, Keys <- {"k1", "k2"}, Pollers <- {"p1", "p2"},
  Home <- Homes, Wants <- WantsSame, Capacity <- 1, MaxPosts <- 1, MaxFaults <- 2

Cost == [n \in 1..PeekCount |-> IF n = 2 THEN 2 ELSE 1]
Peek == INSTANCE InboxPeek WITH
  Count <- PeekCount, Budget <- 2, Limit <- PeekLimit, Window <- PeekWindow,
  MaxClock <- PeekClock, MaxLeases <- 1, MaxLost <- 1

Forward == INSTANCE Forwarder WITH
  Count <- ForwardCount, Limit <- ForwardLimit, MaxFails <- ForwardFails,
  MaxFaults <- ForwardFaults, pc <- forwarder, faults <- breaks

\* Any request to one of the Providers, tried beside plain ones.
Recipients == {<<>>, <<FirstInbox>>} \cup {<<FirstInbox, i>> : i \in Inboxes}
Bodies == {"junk", "partial", "event", "events", "mixed", "challenge", "unnamed challenge"}
Sent(to, methods, medias, bodies, signs) ==
  [to : {to}, method : methods, media : medias, body : bodies,
   signed : signs, large : BOOLEAN, keys : Recipients]
Requests ==
  Sent("plain", {"GET"}, {"other"}, {"junk"}, {FALSE})
  \cup Sent("webmention", {"POST"}, {"form", "other"}, {"partial", "event"}, {FALSE})
  \cup Sent("pingback", {"POST"}, {"xml", "other"}, {"partial", "event"}, {FALSE})
  \cup Sent("slack", {"POST"}, {"json", "other"}, Bodies \ {"partial"}, {FALSE})
  \cup Sent("discord", {"POST"}, {"json", "other"}, Bodies \ {"unnamed challenge"}, BOOLEAN)
  \cup Sent("cloudevents", {"POST"}, {"event", "batch", "other"}, Bodies, {FALSE})
  \cup Sent("websub", {"GET", "POST"}, {"other"}, {"junk", "challenge"}, {FALSE})
  \cup Sent("meta", {"GET", "POST"}, {"other"}, {"junk", "challenge"}, {FALSE})
Plain == [to |-> "plain", method |-> "POST", media |-> "other", body |-> "event",
          signed |-> FALSE, large |-> FALSE, keys |-> SetToSeq(Inboxes)]
Loads == {[d \in Events |-> IF d = Tried THEN r ELSE Plain] :
            r \in {q \in Requests : q.to \in Providers}}
Adapter == INSTANCE Adapters WITH
  Deliveries <- Events, Limit <- InboxLimit, MaxFaults <- AdapterFaults,
  pc <- delivery, faults <- errors, lost <- unanswered

Agent == INSTANCE MailAgent WITH Aliases <- Names, req <- web

\* All mails of up to LetterLines lines.
Letter == INSTANCE MailText WITH
  MaxLines <- LetterLines, mail <- text, next <- line, wire <- wired

KeyFiles == INSTANCE KeyFile WITH pc <- program

ASSUME PartsAssumption ==
  /\ Poll!PollersAssumption /\ Poll!CapacityAssumption /\ Poll!PollBoundsAssumption
  /\ Faulty!PollersAssumption
  /\ Peek!PeekAssumption /\ Forward!ForwarderAssumption /\ Adapter!AdaptersAssumption
  /\ Agent!MailAssumption /\ Letter!TextAssumption /\ KeyFiles!KeyFileAssumption

-----------------------------------------------------------------------------
(* The behaviours *)

\* The variables of components that do not run.
NoPoll ==
  /\ ready = None /\ posts = None /\ faults = None /\ announce = None
  /\ listening = None /\ wire = None /\ poll = None /\ late = None
  /\ queue = None /\ lagged = None
NoPeek ==
  /\ clock = None /\ stage = None /\ stamp = None /\ pc = None /\ ts = None
  /\ p = None /\ page = None /\ cursor = None /\ read = None /\ leases = None
  /\ lost = None /\ owed = None
NoForward ==
  /\ store = None /\ took = None /\ forwarder = None /\ batch = None
  /\ at = None /\ calls = None /\ answer = None /\ fails = None
  /\ breaks = None
NoAdapter ==
  /\ req = None /\ delivery = None /\ reply = None /\ stored = None
  /\ held = None /\ errors = None /\ unanswered = None
NoMail ==
  /\ link = None /\ row = None /\ web = None /\ mail = None /\ run = None
  /\ accepted = None /\ counted = None /\ entitled = None
NoText ==
  /\ text = None /\ line = None /\ headers = None /\ wired = None
NoKey ==
  /\ file = None /\ program = None /\ key = None /\ starts = None
  /\ used = None

Init ==
  /\ part \in Parts
  /\ IF part \in {"poll", "prompt", "faulty"} THEN Poll!Init ELSE NoPoll
  /\ IF part = "peek" THEN Peek!Init ELSE NoPeek
  /\ IF part = "forward" THEN Forward!Init ELSE NoForward
  /\ IF part = "adapters" THEN Adapter!Init ELSE NoAdapter
  /\ IF part = "mail" THEN Agent!MailInit ELSE NoMail
  /\ IF part = "text" THEN Letter!Init ELSE NoText
  /\ IF part = "key" THEN KeyFiles!Init ELSE NoKey

\* A step of one component.
InPoll(A) ==
  /\ A
  /\ UNCHANGED <<part, peekVars, forwardVars, adapterVars, mailVars,
                 textVars, keyVars>>
InPeek(A) ==
  /\ part = "peek" /\ A
  /\ UNCHANGED <<part, pollVars, forwardVars, adapterVars, mailVars,
                 textVars, keyVars>>
InForward(A) ==
  /\ part = "forward" /\ A
  /\ UNCHANGED <<part, pollVars, peekVars, adapterVars, mailVars,
                 textVars, keyVars>>
InAdapters(A) ==
  /\ part = "adapters" /\ A
  /\ UNCHANGED <<part, pollVars, peekVars, forwardVars, mailVars,
                 textVars, keyVars>>
InMail(A) ==
  /\ part = "mail" /\ A
  /\ UNCHANGED <<part, pollVars, peekVars, forwardVars, adapterVars,
                 textVars, keyVars>>
InText(A) ==
  /\ part = "text" /\ A
  /\ UNCHANGED <<part, pollVars, peekVars, forwardVars, adapterVars,
                 mailVars, keyVars>>
InKey(A) ==
  /\ part = "key" /\ A
  /\ UNCHANGED <<part, pollVars, peekVars, forwardVars, adapterVars,
                 mailVars, textVars>>

Next ==
  \/ part = "poll" /\ InPoll(Poll!Next)
  \/ part = "prompt" /\ InPoll(Prompt!Next)
  \/ part = "faulty" /\ InPoll(Faulty!Next)
  \/ InPeek(Peek!Next)
  \/ InForward(Forward!Next)
  \/ InAdapters(Adapter!Next)
  \/ InMail(Agent!MailNext)
  \/ InText(Letter!Next)
  \/ InKey(KeyFiles!Next)

Spec == Init /\ [][Next]_vars

\* The fairness of each component's own fair specification.
Polls(A) == part \in {"prompt", "faulty"} /\ InPoll(A)
FairSpec ==
  /\ Spec
  /\ \A i \in {"i1", "i2"} :
       /\ \A k \in {"k1", "k2"} :
            WF_vars(Polls(Prompt!NotifyLocal(i, k))) /\ WF_vars(Polls(Prompt!NotifyPostgres(i, k)))
       /\ WF_vars(Polls(Prompt!Forward(i))) /\ WF_vars(Polls(Prompt!Reconnect(i)))
  /\ \A x \in {"p1", "p2"} :
       /\ WF_vars(\/ part = "prompt" /\ InPoll(Prompt!PollerStep(x))
                  \/ part = "faulty" /\ InPoll(Faulty!PollerStep(x)))
       /\ WF_vars(part = "faulty" /\ InPoll(Faulty!Deadline(x)))
  /\ WF_vars(InPeek(Peek!Ask)) /\ WF_vars(InPeek(Peek!Verify)) /\ WF_vars(InPeek(Peek!Look))
  /\ SF_vars(InPeek(Peek!Deadline)) /\ WF_vars(InPeek(Peek!Receive))
  /\ \A f \in Forwarders :
       /\ WF_vars(InForward(Forward!Step(f)))
       /\ WF_vars(InForward(\E x \in calls : x.who = f /\ Forward!Serve(x)))
  /\ \A n \in 1..ForwardCount : WF_vars(InForward(Forward!Lapse(n) /\ ~Forward!Held(n)))
  /\ \A i \in Inboxes : WF_vars(InAdapters(Adapter!Drain(i)))
  /\ \A x \in Events : WF_vars(InAdapters(Adapter!Works(x)))

Symmetry == Permutations({ann, bob}) \cup Permutations({cat, dan})

-----------------------------------------------------------------------------
(* Properties *)

\* No poll sleeps beside a ready delivery without a notification that is on
\* its way to it or reported as lost (long_poll_claim, notify_inbox).
PollsWake == part = "poll" => Poll!TypeOK /\ Poll!NoLostWakeup

\* A poll answers empty only right after a look that found nothing
\* (claim_inbox, long_poll_claim).
EmptyAnswerIsFresh == [][part = "poll" => Poll!EmptyAnswerIsFresh]_vars

\* A client that passes back its cursors reads in one order and nothing twice,
\* and what a page leaves out stays ahead of the cursor (peek_inbox).
PeekInOrder == part = "peek" => Peek!TypeOK /\ Peek!ReadInOrder /\ Peek!CutIsAhead

\* A delivery leaves the inbox of a forwarder only when the target took it, and
\* the target sees it again only after a fault (forward_loop, post_forward, ack).
ForwardsOnce == part = "forward" => Forward!TypeOK /\ Forward!AckedWasTaken /\ Forward!OncePerFault

\* A step of the forwarders and their inbox is one of the bounded store that
\* Inbox implements, or none (process_batch, claim_once, ack_messages).
ForwardersKeepStore == [][part = "forward" => [Forward!Store!Next]_(Forward!Store!vars)]_vars

\* Adapters store events and nothing else, for all recipients or for none, and
\* once unless the acknowledgement of the commit or an answer was lost.
EventsStoredOnce ==
  part = "adapters" =>
    Adapter!TypeOK /\ Adapter!RightWay /\ Adapter!AllOrNone /\ Adapter!CopiesNeedLosses

\* The mail agent reports success only for mail that a server has taken, sends
\* the mail of an alias to its holders alone, answers no automatic mail, and
\* counts no more than was delivered.
MailReachesHolder ==
  part = "mail" => /\ Agent!MailTypeOK /\ Agent!SuccessIsDelivery /\ Agent!OnlyToHolder
                   /\ Agent!EchoAnswersPeople /\ Agent!ForwardsCounted

\* A mail that was delivered bounces only if counting it failed.
BounceIsLate == [][part = "mail" => Agent!BounceIsLate]_vars

\* An automatic mail is recognised by its last Auto-Submitted field, folded or
\* not, and no line ends the transfer early or arrives changed.
MailTextArrives == part = "text" => Letter!AutomaticIsSeen /\ Letter!ArrivesWhole

\* Programs for unix that share a key file run with one key, which nobody else
\* can read (private_key, write_new_key_file and secure_key_file of unix).
OnePrivateKey == part = "key" => KeyFiles!OneKey /\ KeyFiles!KeyIsPrivate

\* What still waits in each part, the n-th of its kind.
Waits(n) ==
  CASE part = "prompt" -> ready[<<"k1", "k2">>[n]] > 0
    [] part = "faulty" -> n = 1 /\ ready["k1"] > 0
    [] part = "peek" -> stage[n] = "ready" /\ Peek!Before(cursor, Peek!Key(n))
    [] part = "forward" -> store[n] \in {"ready", "leased"}
    [] part = "adapters" -> ~Adapter!Arrived(SetToSeq(Events)[n])
    [] OTHER -> FALSE

\* An inbox somebody polls is emptied, by notifications alone if nothing fails
\* and by the deadlines otherwise; a delivery ahead of a client's cursor does
\* not stay there; deliveries to forward and events of providers arrive.
DeliveriesArrive == \A n \in 1..2 : Waits(n) ~> ~Waits(n)
=============================================================================
