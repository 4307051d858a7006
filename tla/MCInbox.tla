------------------------------ MODULE MCInbox -------------------------------
(* Instances of Inbox for TLC. *)
EXTENDS InboxRefinement, TLC

Symmetry == Permutations(Senders) \cup Permutations(Consumers)
=============================================================================
