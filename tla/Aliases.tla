------------------------------ MODULE Aliases ------------------------------
(***************************************************************************)
(* The short aliases of OAuth callback targets: POST /c returns the alias  *)
(* of a target or makes one, by statements that each work on the rows      *)
(* committed when they began, but collide with whatever is committed or    *)
(* being inserted when they insert. GET /c/<id> redirects to the target.   *)
(***************************************************************************)
EXTENDS Integers

CONSTANTS
  Clients, Targets,
  Ids,          \* a set of numbers: the ids, in the order of the text
  None,
  Tries,        \* attempts before the upsert
  MaxFaults     \* bound of the model: statements that fail or lose their answer

AliasesAssumption ==
  /\ Ids \subseteq Nat /\ Tries \in Nat /\ MaxFaults \in Nat
  /\ None \notin Targets \cup Ids

VARIABLES
  target,    \* aliases: the target of each id, or None
  pc,        \* of each client: "idle", "draw", "insert", "upsert", "commit"
  want,      \* the target it asks an alias for
  draw,      \* the id it has drawn
  snap,      \* the rows its statement sees
  tries,     \* the attempts it has left
  faults,
  answers    \* history: of each target, the ids answered for it

vars == <<target, pc, want, draw, snap, tries, faults, answers>>

Empty == [i \in Ids |-> None]
IdsOf(table, t) == {i \in Ids : table[i] = t}

\* The migration keeps the smallest id of each target.
Deduplicated(table) ==
  [i \in Ids |-> IF \E j \in IdsOf(table, table[i]) : j < i THEN None ELSE table[i]]

Init ==
  /\ \E old \in [Ids -> Targets \cup {None}] : target = Deduplicated(old)
  /\ pc = [c \in Clients |-> "idle"] /\ want = [c \in Clients |-> None]
  /\ draw = [c \in Clients |-> None] /\ snap = [c \in Clients |-> Empty]
  /\ tries = [c \in Clients |-> 0] /\ faults = 0
  /\ answers = [t \in Targets |-> {}]

-----------------------------------------------------------------------------

Idle(c) ==
  /\ pc' = [pc EXCEPT ![c] = "idle"] /\ want' = [want EXCEPT ![c] = None]
  /\ draw' = [draw EXCEPT ![c] = None] /\ snap' = [snap EXCEPT ![c] = Empty]
  /\ tries' = [tries EXCEPT ![c] = 0]

Answer(c, i) == Idle(c) /\ answers' = [answers EXCEPT ![want[c]] = @ \cup {i}]

\* create_alias.
Ask(c, t) ==
  /\ pc[c] = "idle"
  /\ pc' = [pc EXCEPT ![c] = "draw"] /\ want' = [want EXCEPT ![c] = t]
  /\ tries' = [tries EXCEPT ![c] = Tries]
  /\ UNCHANGED <<target, draw, snap, faults, answers>>

Fallback(c) == tries[c] = 0   \* behind the loop

\* random_alias_id and the start of a statement.
Draw(c, i) ==
  /\ pc[c] = "draw"
  /\ pc' = [pc EXCEPT ![c] = IF Fallback(c) THEN "upsert" ELSE "insert"]
  /\ draw' = [draw EXCEPT ![c] = i] /\ snap' = [snap EXCEPT ![c] = target]
  /\ UNCHANGED <<target, want, tries, faults, answers>>

\* A row of another transaction that is not committed yet is waited for.
IdClash(c, d) == draw[d] = draw[c]
Clash(c, d) == IdClash(c, d) \/ want[d] = want[c]
Waits(c) == \E d \in Clients \ {c} : pc[d] = "commit" /\ Clash(c, d)

IdTaken(c) == target[draw[c]] # None
Taken(c) == IdTaken(c) \/ IdsOf(target, want[c]) # {}

Again(c) == tries' = [tries EXCEPT ![c] = @ - 1]

\* INSERT ... ON CONFLICT DO NOTHING: the row goes in, or the row the statement
\* sees for the target is the answer, or there is none to see: another attempt.
Insert(c) ==
  /\ pc[c] = "insert" /\ ~Waits(c)
  /\ IF ~Taken(c)
     THEN pc' = [pc EXCEPT ![c] = "commit"] /\ UNCHANGED <<want, draw, snap, tries, answers>>
     ELSE IF IdsOf(snap[c], want[c]) # {}
     THEN \E i \in IdsOf(snap[c], want[c]) : Answer(c, i)
     ELSE /\ pc' = [pc EXCEPT ![c] = "draw"] /\ Again(c)
          /\ UNCHANGED <<want, draw, snap, answers>>
  /\ UNCHANGED <<target, faults>>

\* ON CONFLICT (target) DO UPDATE: returns the row of the target, seen or not;
\* an id that is taken is an error.
Upsert(c) ==
  /\ pc[c] = "upsert" /\ ~Waits(c)
  /\ \/ /\ ~Taken(c)
        /\ pc' = [pc EXCEPT ![c] = "commit"] /\ UNCHANGED <<want, draw, snap, tries, answers>>
     \/ \E i \in IdsOf(target, want[c]) : Answer(c, i)
     \/ /\ IdTaken(c) /\ IdsOf(target, want[c]) = {}
        /\ Idle(c) /\ UNCHANGED answers
  /\ UNCHANGED <<target, faults>>

Commit(c) ==
  /\ pc[c] = "commit"
  /\ target' = [target EXCEPT ![draw[c]] = want[c]]
  /\ Answer(c, draw[c]) /\ UNCHANGED faults

\* The request fails: undone, or committed without an answer.
Fails(c) ==
  /\ pc[c] # "idle" /\ faults < MaxFaults /\ faults' = faults + 1
  /\ Idle(c) /\ UNCHANGED answers
  /\ \/ UNCHANGED target
     \/ pc[c] = "commit" /\ target' = [target EXCEPT ![draw[c]] = want[c]]

Works(c) == Insert(c) \/ Upsert(c) \/ Commit(c) \/ \E i \in Ids : Draw(c, i)

Next == \E c \in Clients : Works(c) \/ Fails(c) \/ \E t \in Targets : Ask(c, t)

Spec == Init /\ [][Next]_vars
FairSpec == Spec /\ \A c \in Clients : WF_vars(Works(c))

-----------------------------------------------------------------------------

TypeOK ==
  /\ target \in [Ids -> Targets \cup {None}]
  /\ want \in [Clients -> Targets \cup {None}] /\ draw \in [Clients -> Ids \cup {None}]
  /\ snap \in [Clients -> [Ids -> Targets \cup {None}]]
  /\ tries \in [Clients -> 0 .. Tries] /\ answers \in [Targets -> SUBSET Ids]

(***************************************************************************)
(* "Reusing the same target returns the same alias": whoever asks, however *)
(* the requests race and fail, a target has one answer ever (insert_alias).*)
(***************************************************************************)
SameAlias == \A t \in Targets : \A i, j \in answers[t] : i = j

(***************************************************************************)
(* An alias that was answered redirects to its target from then on, for    *)
(* it is committed before the answer and no later request takes its id     *)
(* over (insert_alias, alias_redirect).                                    *)
(***************************************************************************)
AnswerStands == \A t \in Targets : \A i \in answers[t] : target[i] = t

(***************************************************************************)
(* No request waits for ever for the rows of others, nor is it sent round  *)
(* again without end (the attempts of insert_alias and its upsert).        *)
(***************************************************************************)
Ends == \A c \in Clients : pc[c] # "idle" ~> pc[c] = "idle"
=============================================================================
