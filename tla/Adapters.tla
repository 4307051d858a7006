------------------------------ MODULE Adapters ------------------------------
(***************************************************************************)
(* The ways into an inbox: the plain URL and the adapters of providers,    *)
(* that check a request, answer handshakes themselves and store the rest   *)
(* for every recipient in one transaction. The providers send a request    *)
(* again when the database failed or an inbox was full (502, 409), and     *)
(* when it is not answered.                                                *)
(***************************************************************************)
EXTENDS Integers, Sequences, FiniteSets, SequencesExt, FiniteSetsExt

CONSTANTS
  Deliveries,
  Inboxes,
  Loads,        \* the requests of the deliveries, of RequestType
  Limit,        \* INBOX_MAX_REQUESTS
  MaxFaults     \* bound of the model: database errors and lost answers

\* What the code tells apart in a request. body: of the JSON, form, XML or query,
\* or of a CloudEvent's headers, if media says the event is not in the body.
\* keys: the recipients, none if the path cannot be decoded.
RequestType ==
  [to : {"plain", "webmention", "websub", "slack", "pingback", "meta", "cloudevents", "discord"},
   method : {"GET", "POST"},
   media : {"form", "json", "xml", "event", "batch", "other"},
   body : {"junk", "partial", "event", "events", "mixed", "challenge", "unnamed challenge"},
   signed : BOOLEAN, large : BOOLEAN, keys : Seq(Inboxes)]

AdaptersAssumption ==
  /\ Loads \subseteq [Deliveries -> RequestType]
  /\ Limit \in Nat \ {0} /\ MaxFaults \in Nat

VARIABLES
  req,       \* of each delivery, the request
  pc,        \* "send", "gate", "store", "answer", "done"
  reply,     \* the status of its answer, or "challenge"
  stored,    \* of each delivery and inbox, the copies ever stored
  held,      \* of each inbox, the deliveries in it
  faults,
  lost       \* of each delivery, the commits the handler and the answers the
             \* provider did not learn of

vars == <<req, pc, reply, stored, held, faults, lost>>

Init ==
  /\ req \in Loads
  /\ pc = [d \in Deliveries |-> "send"] /\ reply = [d \in Deliveries |-> 0]
  /\ stored = [d \in Deliveries |-> [i \in Inboxes |-> 0]]
  /\ held = [i \in Inboxes |-> 0] /\ faults = 0
  /\ lost = [d \in Deliveries |-> 0]

-----------------------------------------------------------------------------

StoreIt == 0
Challenge == 1

\* slack_challenge.
Slack(r) ==
  IF r.media # "json" THEN 415
  ELSE CASE r.body \in {"junk", "unnamed challenge"} -> 400
         [] r.body = "challenge" -> Challenge
         [] OTHER -> StoreIt

\* validate_cloudevent: structured, a batch, or binary for any other media type.
CloudEvent(r) ==
  CASE r.media = "event" -> IF r.body \in {"event", "challenge"} THEN StoreIt ELSE 400
    [] r.media = "batch" -> IF r.body = "events" THEN StoreIt ELSE 400
    [] OTHER -> IF r.body = "event" THEN StoreIt ELSE 400

\* enqueue_discord: the signature first, then the type: 1, another byte, or none.
Discord(r) ==
  IF ~r.signed THEN 401
  ELSE IF r.media # "json" THEN 415
  ELSE CASE r.body \in {"junk", "partial"} -> 400
         [] r.body = "challenge" -> Challenge
         [] OTHER -> StoreIt

\* websub_verify, meta_verify.
Verify(r) ==
  IF r.keys = <<>> \/ r.body # "challenge" THEN 400 ELSE Challenge

CheckedForm(r, media) ==
  IF r.media # media THEN 415 ELSE IF r.body # "event" THEN 400 ELSE StoreIt

\* What a handler does with a request before it is enqueued.
Gate(r) ==
  CASE r.to = "webmention" -> CheckedForm(r, "form")
    [] r.to = "pingback" -> CheckedForm(r, "xml")
    [] r.to = "slack" -> Slack(r)
    [] r.to = "cloudevents" -> CloudEvent(r)
    [] r.to = "discord" -> Discord(r)
    [] r.to \in {"websub", "meta"} /\ r.method = "GET" -> Verify(r)
    [] OTHER -> StoreIt

\* decode_public_keys: a copy for each recipient, however often it is named.
Copies(r) == [i \in Inboxes |-> IF i \in ToSet(r.keys) THEN 1 ELSE 0]

\* capture_request, encode_captured_request: the body, and the request as it is
\* stored, are within MAX_CAPTURE_BYTES.
Captured(r) == ~r.large

Answer(d, status) ==
  /\ pc' = [pc EXCEPT ![d] = "answer"] /\ reply' = [reply EXCEPT ![d] = status]

Send(d) ==
  /\ pc[d] = "send" /\ pc' = [pc EXCEPT ![d] = "gate"]
  /\ UNCHANGED <<req, reply, stored, held, faults, lost>>

\* The handler up to the transaction of enqueue_request.
Check(d) ==
  LET r == req[d] gate == Gate(r) IN
  /\ pc[d] = "gate"
  /\ IF gate # StoreIt THEN Answer(d, gate)
     ELSE IF r.keys = <<>> THEN Answer(d, 400)
     ELSE IF ~Captured(r) THEN Answer(d, 413)
     ELSE pc' = [pc EXCEPT ![d] = "store"] /\ UNCHANGED reply
  /\ UNCHANGED <<req, stored, held, faults, lost>>

Full(r) == \E i \in Inboxes : held[i] + Copies(r)[i] > Limit

Put(d) ==
  LET copies == Copies(req[d]) IN
  /\ stored' = [stored EXCEPT ![d] = [i \in Inboxes |-> @[i] + copies[i]]]
  /\ held' = [i \in Inboxes |-> held[i] + copies[i]]

\* One inbox after the other, each committed by itself.
PutSome(d) ==
  LET copies == Copies(req[d]) fit == {i \in Inboxes : held[i] + copies[i] <= Limit} IN
  /\ stored' = [stored EXCEPT ![d] = [i \in Inboxes |-> IF i \in fit THEN @[i] + copies[i] ELSE @[i]]]
  /\ held' = [i \in Inboxes |-> IF i \in fit THEN held[i] + copies[i] ELSE held[i]]

PutNone(d) == UNCHANGED <<stored, held>>   \* rolled back

\* The database fails before it commits, or commits and the acknowledgement is
\* lost: the handler hears an error of both.
Trouble(d) ==
  /\ faults < MaxFaults /\ faults' = faults + 1 /\ Answer(d, 502)
  /\ \/ PutNone(d) /\ UNCHANGED lost
     \/ ~Full(req[d]) /\ Put(d) /\ lost' = [lost EXCEPT ![d] = @ + 1]

\* insert_inbox_messages: all recipients, or an error for all.
Store(d) ==
  /\ pc[d] = "store" /\ UNCHANGED req
  /\ \/ ~Full(req[d]) /\ Put(d) /\ Answer(d, 202) /\ UNCHANGED <<faults, lost>>
     \/ Full(req[d]) /\ PutNone(d) /\ Answer(d, 409) /\ UNCHANGED <<faults, lost>>
     \/ Trouble(d)

Retried(status) == status \in {502, 409}

\* The provider hears the answer.
Hear(d) ==
  /\ pc[d] = "answer"
  /\ pc' = [pc EXCEPT ![d] = IF Retried(reply[d]) THEN "send" ELSE "done"]
  /\ UNCHANGED <<req, reply, stored, held, faults, lost>>

\* It does not, and sends the request again.
Miss(d) ==
  /\ pc[d] = "answer" /\ faults < MaxFaults /\ faults' = faults + 1
  /\ lost' = [lost EXCEPT ![d] = @ + (IF reply[d] = 202 THEN 1 ELSE 0)]
  /\ pc' = [pc EXCEPT ![d] = "send"]
  /\ UNCHANGED <<req, reply, stored, held>>

\* The owner handles and acks what an inbox holds.
Drain(i) ==
  /\ held[i] > 0 /\ held' = [held EXCEPT ![i] = 0]
  /\ UNCHANGED <<req, pc, reply, stored, faults, lost>>

Works(d) == Send(d) \/ Check(d) \/ Store(d) \/ Hear(d)

Next == (\E d \in Deliveries : Works(d) \/ Miss(d)) \/ \E i \in Inboxes : Drain(i)

Spec == Init /\ [][Next]_vars

\* Providers keep trying and the owners keep draining.
FairSpec ==
  Spec /\ (\A i \in Inboxes : WF_vars(Drain(i))) /\ \A d \in Deliveries : WF_vars(Works(d))

-----------------------------------------------------------------------------

TypeOK ==
  /\ req \in [Deliveries -> RequestType]
  /\ reply \in [Deliveries -> {0, Challenge, 202, 400, 401, 413, 415, 502, 409}]
  /\ \A i \in Inboxes : held[i] \in 0 .. Limit
  /\ lost \in [Deliveries -> 0 .. MaxFaults]

\* Which requests are a provider's handshake, and which one to be stored.
Handshake(r) ==
  \/ r.to \in {"websub", "meta"} /\ r.method = "GET" /\ r.body = "challenge" /\ r.keys # <<>>
  \/ r.to \in {"slack", "discord"} /\ r.media = "json" /\ r.body = "challenge"
       /\ (r.to = "discord" => r.signed)

Event(r) ==
  /\ r.keys # <<>> /\ ~r.large /\ ~Handshake(r)
  /\ \/ r.to = "plain"
     \/ r.to \in {"websub", "meta"} /\ r.method = "POST"
     \/ r.to = "webmention" /\ r.media = "form" /\ r.body = "event"
     \/ r.to = "pingback" /\ r.media = "xml" /\ r.body = "event"
     \/ r.to = "slack" /\ r.media = "json" /\ r.body \notin {"junk", "unnamed challenge"}
     \/ r.to = "discord" /\ r.signed /\ r.media = "json" /\ r.body \notin {"junk", "partial"}
     \/ r.to = "cloudevents" /\ \/ r.media = "batch" /\ r.body = "events"
                                \/ r.media # "batch" /\ r.body = "event"
                                \/ r.media = "event" /\ r.body = "challenge"

(***************************************************************************)
(* Handshakes are answered and never stored, events are stored, what is    *)
(* neither is refused and never stored: "adapters answer provider          *)
(* handshakes before storing" (the handlers of /i/<key>/...).              *)
(***************************************************************************)
RightWay ==
  \A d \in Deliveries :
    /\ stored[d] # [i \in Inboxes |-> 0] => Event(req[d])
    /\ pc[d] = "done" => (reply[d] = Challenge <=> Handshake(req[d]))
                         /\ (reply[d] = 202 <=> Event(req[d]))

(***************************************************************************)
(* A provider that was told its event is queued may forget it: every       *)
(* recipient has a copy. Errors, full inboxes and retries never leave some *)
(* recipients without, nor with more copies than others                    *)
(* (enqueue_request, insert_inbox_messages).                               *)
(***************************************************************************)
AllOrNone ==
  \A d \in Deliveries :
    req[d].keys # <<>> =>
      \E n \in 0 .. MaxFaults + 1 : stored[d] = [i \in Inboxes |-> n * Copies(req[d])[i]]

(***************************************************************************)
(* A recipient that is named twice gets one copy, and only a commit the    *)
(* handler, or an answer the provider did not learn of makes a second: an  *)
(* event is stored once for each of these, and once for an answer that     *)
(* was heard (decode_public_keys, the order of commit and answer).         *)
(***************************************************************************)
CopiesNeedLosses ==
  \A d \in Deliveries, i \in Inboxes :
    stored[d][i] <= lost[d] + (IF reply[d] = 202 /\ pc[d] \in {"answer", "done"} THEN 1 ELSE 0)

(***************************************************************************)
(* Every event is stored, though inboxes are full for a while, the         *)
(* database fails and answers are lost (all handlers).                     *)
(***************************************************************************)
Arrived(d) ==
  Event(req[d]) => pc[d] = "done" /\ \A i \in ToSet(req[d].keys) : stored[d][i] > 0
EventsArrive == \A d \in Deliveries : ~Arrived(d) ~> Arrived(d)
=============================================================================
