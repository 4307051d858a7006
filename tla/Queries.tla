------------------------------ MODULE Queries ------------------------------
(***************************************************************************)
(* The handlers that read the parameters of a query or a form one by one:  *)
(* the OAuth trampoline, the aliases' redirect, the challenges of WebSub   *)
(* and Meta, and Webmention. Parameters repeat and stand in any order; the *)
(* query grows by one parameter per step.                                  *)
(***************************************************************************)
EXTENDS Integers, Sequences, SequencesExt

CONSTANTS
  Params,     \* the parameters: <<key, value>>
  OwnQuery,   \* the parameters a target brings along
  MaxLen      \* bound of the model: parameters of a query

QueriesAssumption ==
  /\ \A p \in Params : Len(p) = 2
  /\ OwnQuery \in Seq(Params) /\ MaxLen \in Nat

VARIABLE query

Init == query = <<>>

\* The server is asked again, with one parameter more.
Next == Len(query) < MaxLen /\ \E p \in Params : query' = Append(query, p)

Spec == Init /\ [][Next]_query

-----------------------------------------------------------------------------

NoValue == <<>>
Some(v) == <<v>>
First(found, v) == IF found = NoValue THEN Some(v) ELSE found
IsHttp(v) == v = "url"   \* values are "url", "mailto" or no URL at all

\* A loop over the parameters: what a step makes of its result so far and of
\* the next parameter.
Loop(Step(_, _), start, q) ==
  LET read[n \in 0..Len(q)] == IF n = 0 THEN start ELSE Step(read[n - 1], q[n])
  IN read[Len(q)]

Repeated(acc, p) == p[1] = "at" /\ acc.target # NoValue

\* callback_target: parameters before the target wait for it.
TargetStep(acc, p) ==
  IF acc.bad \/ Repeated(acc, p) THEN acc
  ELSE IF p[1] = "at"
    THEN [bad |-> ~IsHttp(p[2]), target |-> Some(p[2]), pairs |-> OwnQuery \o acc.pairs]
    ELSE [acc EXCEPT !.pairs = Append(@, p)]
Trampoline(q) == Loop(TargetStep, [bad |-> FALSE, target |-> NoValue, pairs |-> <<>>], q)

\* append_query_params, for an alias of the same target.
Redirected(q) == OwnQuery \o q

\* Answers at the challenge, whatever follows.
WebSubEager(q) ==
  LET at == {i \in DOMAIN q : q[i][1] = "hub.challenge"}
      bad == {i \in DOMAIN q : q[i] = <<"hub.mode", "publish">> \/ q[i] = <<"hub.topic", "mailto">>}
      firsts == {i \in at : \A j \in at \cup bad : i <= j}
  IN IF firsts = {} THEN NoValue ELSE Some(q[CHOOSE i \in firsts : TRUE][2])

\* websub_challenge.
WebSubStep(acc, p) ==
  CASE p[1] = "hub.challenge" -> [acc EXCEPT !.challenge = First(@, p[2])]
    [] p[1] = "hub.mode" /\ p[2] \notin {"subscribe", "unsubscribe"} -> [acc EXCEPT !.bad = TRUE]
    [] p[1] = "hub.topic" /\ ~IsHttp(p[2]) -> [acc EXCEPT !.bad = TRUE]
    [] OTHER -> acc
WebSubEnd(q) == Loop(WebSubStep, [bad |-> FALSE, challenge |-> NoValue], q)
WebSub(q) == IF WebSubEnd(q).bad THEN NoValue ELSE WebSubEnd(q).challenge

\* meta_challenge: the owner's token is in the URL, as v or verify_token.
MetaStep(acc, p) ==
  CASE p[1] = "hub.challenge" -> [acc EXCEPT !.challenge = First(@, p[2])]
    [] p[1] = "hub.mode" /\ p[2] # "subscribe" -> [acc EXCEPT !.bad = TRUE]
    [] p[1] = "hub.verify_token" -> [acc EXCEPT !.token = First(@, p[2])]
    [] p[1] \in {"v", "verify_token"} -> [acc EXCEPT !.expected = First(@, p[2])]
    [] OTHER -> acc
MetaEnd(q) ==
  Loop(MetaStep, [bad |-> FALSE, challenge |-> NoValue, token |-> NoValue, expected |-> NoValue], q)
Refused(end) == end.bad \/ (end.expected # NoValue /\ end.token # end.expected)
Meta(q) == IF Refused(MetaEnd(q)) THEN NoValue ELSE MetaEnd(q).challenge

\* validate_webmention looks at the first source and the first target only.
MentionStep(acc, p) ==
  CASE p[1] = "source" -> [acc EXCEPT !.source = First(@, p[2])]
    [] p[1] = "target" -> [acc EXCEPT !.target = First(@, p[2])]
    [] OTHER -> acc
MentionEnd(q) == Loop(MentionStep, [source |-> NoValue, target |-> NoValue], q)
Webmention(q) == MentionEnd(q).source = Some("url") /\ MentionEnd(q).target = Some("url")

-----------------------------------------------------------------------------

\* The values of the parameters with these keys, and the parameters with others.
Values(q, keys) ==
  LET Step(acc, p) == IF p[1] \in keys THEN Append(acc, p[2]) ELSE acc IN Loop(Step, <<>>, q)
Others(q, keys) ==
  LET Step(acc, p) == IF p[1] \in keys THEN acc ELSE Append(acc, p) IN Loop(Step, <<>>, q)

(***************************************************************************)
(* "Every callback query parameter except at is appended to the target":   *)
(* behind the target's own, in their order, wherever the first at stands   *)
(* (callback_target).                                                      *)
(***************************************************************************)
TargetGetsAll ==
  LET ats == Values(query, {"at"}) end == Trampoline(query) IN
  /\ end.bad <=> ats # <<>> /\ ~IsHttp(ats[1])
  /\ ats # <<>> /\ ~end.bad => end.pairs = OwnQuery \o Others(query, {"at"})

(***************************************************************************)
(* An application that moves from the trampoline to an alias is called     *)
(* with the same parameters, wherever at stood between them                *)
(* (callback_target, append_query_params).                                 *)
(***************************************************************************)
AliasAgrees ==
  Values(query, {"at"}) = <<>> =>
    \A i \in 1 .. Len(query) + 1 :
      Trampoline(InsertAt(query, i, <<"at", "url">>)).pairs = Redirected(query)

(***************************************************************************)
(* A challenge that is answered is the one that came first: a parameter    *)
(* more can have the request refused, never answered otherwise, and for a  *)
(* Meta request never opens what a wrong token closed (websub_challenge,   *)
(* meta_challenge).                                                        *)
(***************************************************************************)
ChallengeStands ==
  query # <<>> =>
    LET before == Front(query)
        token == Values(before, {"hub.verify_token"})
        expected == Values(before, {"v", "verify_token"})
    IN /\ WebSub(before) # NoValue => WebSub(query) \in {NoValue, WebSub(before)}
       /\ Meta(before) # NoValue => Meta(query) \in {NoValue, Meta(before)}
       /\ token # <<>> /\ expected # <<>> /\ token[1] # expected[1] => Meta(query) = NoValue

SameKind(p, r) == p[1] = r[1] \/ {p[1], r[1]} = {"v", "verify_token"}
Swapped(q, i) == [q EXCEPT ![i] = q[i + 1], ![i + 1] = q[i]]

(***************************************************************************)
(* A provider may send its parameters in any order: only the order of      *)
(* those of one kind counts (the early returns of the loops).              *)
(***************************************************************************)
OrderIsFree ==
  \A i \in 1 .. Len(query) - 1 :
    ~SameKind(query[i], query[i + 1]) =>
      LET other == Swapped(query, i) IN
      /\ WebSub(other) = WebSub(query) /\ Meta(other) = Meta(query)
      /\ Webmention(other) = Webmention(query)
=============================================================================
