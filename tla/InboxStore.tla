----------------------------- MODULE InboxStore -----------------------------
(***************************************************************************)
(* What the inboxes of cc.me promise their clients, without counters,      *)
(* locks or transactions: a bounded store of deliveries per key, a posted  *)
(* delivery that goes to every recipient at once or to none, and           *)
(* deliveries that leave the store only when they are acked.               *)
(***************************************************************************)
EXTENDS Integers, FiniteSets

CONSTANTS Keys, Ids, MaxRequests

VARIABLES
  dest,      \* the recipients each delivery was posted to
  outcome,   \* how each delivery ended
  rows,      \* the deliveries each inbox stores
  reserved   \* the stored deliveries a claim has reserved

vars == <<dest, outcome, rows, reserved>>

Init ==
  /\ dest = [m \in Ids |-> {}]
  /\ outcome = [m \in Ids |-> "unsent"]
  /\ rows = [k \in Keys |-> {}]
  /\ reserved = [k \in Keys |-> {}]

Post(m, K) ==
  /\ outcome[m] = "unsent"
  /\ outcome' = [outcome EXCEPT ![m] = "open"]
  /\ dest' = [dest EXCEPT ![m] = K]
  /\ UNCHANGED <<rows, reserved>>

Accept(m) ==
  /\ outcome[m] = "open"
  /\ \A k \in dest[m] : Cardinality(rows[k]) < MaxRequests
  /\ outcome' = [outcome EXCEPT ![m] = "queued"]
  /\ rows' = [k \in Keys |-> IF k \in dest[m] THEN rows[k] \cup {m}
                                              ELSE rows[k]]
  /\ UNCHANGED <<dest, reserved>>

Refuse(m) ==
  /\ outcome[m] = "open"
  /\ \E k \in dest[m] : Cardinality(rows[k]) >= MaxRequests
  /\ outcome' = [outcome EXCEPT ![m] = "full"]
  /\ UNCHANGED <<dest, rows, reserved>>

Fail(m) ==
  /\ outcome[m] = "open"
  /\ outcome' = [outcome EXCEPT ![m] = "error"]
  /\ UNCHANGED <<dest, rows, reserved>>

Reserve(k) ==
  /\ \E S \in SUBSET (rows[k] \ reserved[k]) :
       reserved' = [reserved EXCEPT ![k] = @ \cup S]
  /\ UNCHANGED <<dest, outcome, rows>>

Free(k) ==
  /\ \E S \in SUBSET reserved[k] :
       reserved' = [reserved EXCEPT ![k] = @ \ S]
  /\ UNCHANGED <<dest, outcome, rows>>

Settle(k) ==
  /\ \E S \in SUBSET rows[k] :
       /\ rows' = [rows EXCEPT ![k] = @ \ S]
       /\ reserved' = [reserved EXCEPT ![k] = @ \ S]
  /\ UNCHANGED <<dest, outcome>>

\* Reservations end by themselves, in any number of inboxes at once.
Expire ==
  /\ reserved' \in [Keys -> SUBSET Ids]
  /\ \A k \in Keys : reserved'[k] \subseteq reserved[k]
  /\ UNCHANGED <<dest, outcome, rows>>

Next ==
  \/ \E m \in Ids : \/ \E K \in (SUBSET Keys) \ {{}} : Post(m, K)
                    \/ Accept(m)
                    \/ Refuse(m)
                    \/ Fail(m)
  \/ \E k \in Keys : Reserve(k) \/ Free(k) \/ Settle(k)
  \/ Expire

Spec == Init /\ [][Next]_vars

=============================================================================
