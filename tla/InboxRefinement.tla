--------------------------- MODULE InboxRefinement ---------------------------
(* The transactions of Inbox seen as the store of InboxStore. *)
EXTENDS InboxInv

\* The stored deliveries of k whose lease runs.
Reserved(k) == {m \in rows[k] : lease[k][m] > 0}

Store == INSTANCE InboxStore WITH reserved <- [k \in Keys |-> Reserved(k)]

\* The statement-level transactions of insert_inbox_messages, claim_once,
\* ack_messages and release_messages implement the store the clients are
\* promised: every step is one atomic operation of it, or invisible.
ImplementsStore == Store!Spec

=============================================================================
