----------------------------- MODULE Forwarder -----------------------------
(***************************************************************************)
(* The forwarders (cc-me of client/rust) of one inbox, the inbox, and the  *)
(* target they replay deliveries to. A forwarder claims a batch, replays   *)
(* it in turn, acks what the target took, releases the rest after a        *)
(* failure and exits; something starts it again. Calls travel: one whose   *)
(* connection breaks may still be carried out, later or never. Claims,     *)
(* acks and releases are atomic here: how is the subject of Inbox.         *)
(***************************************************************************)
EXTENDS Integers, Sequences, SequencesExt, FiniteSets

CONSTANTS
  Forwarders,  \* processes with the key of the inbox
  Count,       \* deliveries, numbered in the order of the inbox
  Limit,       \* deliveries of a claim
  MaxFails,    \* bound of the model: replays the target refuses
  MaxFaults    \* bound of the model: crashes, broken connections, leases
               \* that end while their forwarder is still at work

Ids == 1..Count

ForwarderAssumption ==
  /\ Count \in Nat /\ Limit \in Nat \ {0}
  /\ MaxFails \in Nat /\ MaxFaults \in Nat
  /\ "nobody" \notin Forwarders

VARIABLES
  store,   \* of each delivery: "none", "open", "ready", "leased", "gone"
  took,    \* how often the target answered it below 400
  pc,      \* of each forwarder: "down", "claim", "replay", "ack", "failack",
           \*   "release"
  batch,   \* the deliveries it has claimed
  at,      \* the one it replays
  calls,   \* the requests on their way: who waits ("nobody": the connection
           \*   broke), the operation and the ids
  answer,  \* the answer on its way to each forwarder
  fails, faults

vars == <<store, took, pc, batch, at, calls, answer, fails, faults>>
work == <<pc, batch, at>>
net == <<calls, answer>>

NoAnswer == [some |-> FALSE, items |-> <<>>]

Init ==
  /\ store = [d \in Ids |-> "none"] /\ took = [d \in Ids |-> 0]
  /\ pc = [f \in Forwarders |-> "down"]
  /\ batch = [f \in Forwarders |-> <<>>]
  /\ at = [f \in Forwarders |-> 0]
  /\ calls = {} /\ answer = [f \in Forwarders |-> NoAnswer]
  /\ fails = 0 /\ faults = 0

-----------------------------------------------------------------------------
(* The inbox. *)

Post(d) ==
  /\ store[d] = "none"
  /\ store' = [store EXCEPT ![d] = "open"]
  /\ UNCHANGED <<took, work, net, fails, faults>>
Accept(d) ==
  /\ store[d] = "open"
  /\ store' = [store EXCEPT ![d] = "ready"]
  /\ UNCHANGED <<took, work, net, fails, faults>>

Ready == {d \in Ids : store[d] = "ready"}
Oldest == {d \in Ready : Cardinality({e \in Ready : e < d}) < Limit}
Put(ids, to) == store' = [d \in Ids |-> IF d \in ids THEN to ELSE store[d]]
\* A release stores what was acked again.
StoredAll(ids) == ids
Stored(ids) == {d \in ids : store[d] # "gone"}

\* claim_inbox: the oldest ready deliveries, in any order (RETURNING has none).
ServeClaim(c) ==
  /\ c.op = "claim"
  /\ Put(Oldest, "leased")
  /\ \E items \in SetToSeqs(Oldest) :
       answer' = [f \in Forwarders |-> IF f = c.who THEN [some |-> TRUE, items |-> items]
                                                    ELSE answer[f]]

\* ack_inbox, release_inbox: whoever holds the leases.
ServeIds(c) ==
  /\ c.op # "claim"
  /\ Put(Stored(c.ids), IF c.op = "ack" THEN "gone" ELSE "ready")
  /\ answer' = [f \in Forwarders |-> IF f = c.who THEN [some |-> TRUE, items |-> <<>>]
                                                  ELSE answer[f]]

Serve(c) ==
  /\ ServeClaim(c) \/ ServeIds(c)
  /\ calls' = calls \ {c}
  /\ UNCHANGED <<took, work, fails, faults>>

Held(d) ==
  \E f \in Forwarders : d \in ToSet(batch[f]) \/ d \in ToSet(answer[f].items)

\* lease_until passes: CLAIM_RECOVERY_SECONDS are over.
Lapse(d) ==
  /\ store[d] = "leased"
  /\ Held(d) => faults < MaxFaults
  /\ faults' = IF Held(d) THEN faults + 1 ELSE faults
  /\ Put({d}, "ready")
  /\ UNCHANGED <<took, work, net, fails>>

-----------------------------------------------------------------------------
(* A forwarder. *)

Waits(f) == answer[f].some \/ \E c \in calls : c.who = f
Call(f, op, ids) == calls' = calls \cup {[who |-> f, op |-> op, ids |-> ids]}
Go(f, to) == pc' = [pc EXCEPT ![f] = to]
Exit(f) ==
  /\ Go(f, "down")
  /\ batch' = [batch EXCEPT ![f] = <<>>]
  /\ at' = [at EXCEPT ![f] = 0]

Start(f) ==
  /\ pc[f] = "down" /\ Go(f, "claim")
  /\ UNCHANGED <<store, took, batch, at, net, fails, faults>>

\* What the target has taken of the batch: acked, and the rest: released.
Handled(f) == ToSet(SubSeq(batch[f], 1, at[f] - 1))
Rest(f) == ToSet(SubSeq(batch[f], at[f], Len(batch[f])))

\* The claim, the acks and the release of process_batch and run.
Send(f) ==
  /\ ~Waits(f)
  /\ \/ pc[f] = "claim" /\ Call(f, "claim", {})
     \/ pc[f] \in {"ack", "failack"} /\ Call(f, "ack", Handled(f))
     \/ pc[f] = "release" /\ Call(f, "release", Rest(f))
  /\ UNCHANGED <<store, took, work, answer, fails, faults>>

\* An answer: a batch to replay, or the next step of process_batch.
Take(f) ==
  /\ answer[f].some
  /\ answer' = [answer EXCEPT ![f] = NoAnswer]
  /\ \/ /\ pc[f] = "claim"
        /\ batch' = [batch EXCEPT ![f] = answer[f].items]
        /\ at' = [at EXCEPT ![f] = 1]
        /\ Go(f, IF answer[f].items = <<>> THEN "claim" ELSE "replay")
     \/ /\ pc[f] = "ack"
        /\ batch' = [batch EXCEPT ![f] = <<>>] /\ Go(f, "claim")
        /\ UNCHANGED at
     \/ pc[f] = "failack" /\ Go(f, "release") /\ UNCHANGED <<batch, at>>
     \/ pc[f] = "release" /\ Exit(f)
  /\ UNCHANGED <<store, took, calls, fails, faults>>

\* forward_request is Ok, also for a redirect that is not followed.
Forwarded(f) ==
  /\ pc[f] = "replay"
  /\ took' = [took EXCEPT ![batch[f][at[f]]] = @ + 1]
  /\ at' = [at EXCEPT ![f] = @ + 1]
  /\ Go(f, IF at[f] = Len(batch[f]) THEN "ack" ELSE "replay")
  /\ UNCHANGED <<store, batch, net, fails, faults>>

\* The batch is kept whole until every delivery of it is forwarded.
FailureReleasesAll(f) ==
  /\ at' = [at EXCEPT ![f] = 1] /\ Go(f, "release")
\* The failure path of process_batch.
Failure(f) ==
  /\ Go(f, IF at[f] = 1 THEN "release" ELSE "failack") /\ UNCHANGED at

\* The target refuses, or its answer is lost after it took the delivery.
Refused(f) ==
  /\ pc[f] = "replay"
  /\ \/ fails < MaxFails /\ fails' = fails + 1 /\ UNCHANGED <<took, faults>>
     \/ /\ faults < MaxFaults /\ faults' = faults + 1
        /\ took' = [took EXCEPT ![batch[f][at[f]]] = @ + 1]
        /\ UNCHANGED fails
  /\ Failure(f)
  /\ UNCHANGED <<store, batch, net>>

Orphan(f) ==
  /\ calls' = {IF c.who = f THEN [c EXCEPT !.who = "nobody"] ELSE c : c \in calls}
  /\ answer' = [answer EXCEPT ![f] = NoAnswer]

\* A connection breaks: the errors of claim and of the last ack end the
\* process, those of the failure path are ignored.
Break(f) ==
  /\ Waits(f) /\ faults < MaxFaults
  /\ faults' = faults + 1
  /\ Orphan(f)
  /\ IF pc[f] = "failack" THEN Go(f, "release") /\ UNCHANGED <<batch, at>> ELSE Exit(f)
  /\ UNCHANGED <<store, took, fails>>

Crash(f) ==
  /\ pc[f] # "down" /\ faults < MaxFaults
  /\ faults' = faults + 1
  /\ Orphan(f) /\ Exit(f)
  /\ UNCHANGED <<store, took, fails>>

Vanish(c) ==
  /\ c.who = "nobody"
  /\ calls' = calls \ {c}
  /\ UNCHANGED <<store, took, work, answer, fails, faults>>

Step(f) == Start(f) \/ Send(f) \/ Take(f) \/ Forwarded(f)

Next ==
  \/ \E d \in Ids : Post(d) \/ Accept(d) \/ Lapse(d)
  \/ \E f \in Forwarders :
       \/ Start(f) \/ Send(f) \/ Take(f) \/ Forwarded(f)
       \/ Refused(f) \/ Break(f) \/ Crash(f)
  \/ \E c \in calls : Serve(c) \/ Vanish(c)

Spec == Init /\ [][Next]_vars

\* Forwarders run and are started again, calls are served or lost, leases end,
\* and the target takes what it is given, refusals being bounded.
FairSpec ==
  /\ Spec
  /\ \A f \in Forwarders :
       /\ WF_vars(Step(f))
       /\ WF_vars(\E c \in calls : c.who = f /\ Serve(c))
  /\ \A d \in Ids : WF_vars(Lapse(d) /\ ~Held(d))

-----------------------------------------------------------------------------

TypeOK ==
  /\ store \in [Ids -> {"none", "open", "ready", "leased", "gone"}]
  /\ \A f \in Forwarders :
       /\ pc[f] \in {"down", "claim", "replay", "ack", "failack", "release"}
       /\ at[f] \in 0..(Limit + 1) /\ Len(batch[f]) <= Limit
       /\ pc[f] = "replay" => at[f] \in DOMAIN batch[f]
       /\ Cardinality({c \in calls : c.who = f}) <= 1
       /\ answer[f].some => \A c \in calls : c.who # f

(***************************************************************************)
(* A delivery leaves the inbox only when the target took it, which is what *)
(* the client takes for success: an answer below 400, a redirect that is   *)
(* not followed included. So it is whatever fails in a batch, in whichever *)
(* order late acks and releases of other forwarders arrive                 *)
(* (process_batch, forward_request).                                       *)
(***************************************************************************)
AckedWasTaken == \A d \in Ids : store[d] = "gone" => took[d] > 0

(***************************************************************************)
(* The target sees a delivery again only after a fault: refusals, the      *)
(* releases that follow and forwarders side by side give no duplicate, and *)
(* each crash, broken connection or outlived lease at most one of each     *)
(* delivery (process_batch, claim_once, ack_messages, release_messages).   *)
(***************************************************************************)
OncePerFault == \A d \in Ids : took[d] <= 1 + faults

(***************************************************************************)
(* Every delivery is taken and leaves the inbox in the end: what a         *)
(* forwarder had claimed when it exited comes back, released or by its     *)
(* lease (run, process_batch, CLAIM_RECOVERY_SECONDS).                     *)
(***************************************************************************)
EventuallyHandled == \A d \in Ids : store[d] = "ready" ~> store[d] = "gone"

(***************************************************************************)
(* The forwarders and the inbox together keep the inbox's promise.         *)
(***************************************************************************)
Store == INSTANCE InboxStore WITH
  Keys <- {"inbox"}, MaxRequests <- Count,
  dest <- [d \in Ids |-> IF store[d] = "none" THEN {} ELSE {"inbox"}],
  outcome <- [d \in Ids |-> CASE store[d] = "none" -> "unsent"
                              [] store[d] = "open" -> "open"
                              [] OTHER -> "queued"],
  rows <- [k \in {"inbox"} |-> {d \in Ids : store[d] \in {"ready", "leased"}}],
  reserved <- [k \in {"inbox"} |-> {d \in Ids : store[d] = "leased"}]
ImplementsStore == Store!Spec
=============================================================================
