------------------------------ MODULE MailText -------------------------------
(***************************************************************************)
(* How cc-me-mail reads and writes the text of a mail: Headers::parse, the *)
(* headers that say nobody wrote the mail, and the transfer of its lines   *)
(* over SMTP (dot_stuffed).  A mail is the sequence of its lines as split  *)
(* at newlines; a final newline is an empty last line.                     *)
(***************************************************************************)
EXTENDS Integers, Sequences, SequencesExt

CONSTANT MaxLines   \* bound of the model: lines of a mail

TextAssumption == MaxLines \in Nat

\* A line: a field with its value's words, a continuation, a line without a
\* colon, or text that starts with dots.
Field(name, words) == [kind |-> "field", name |-> name, words |-> words, dots |-> 0]
Fold(words) == [kind |-> "fold", name |-> "none", words |-> words, dots |-> 0]
Text(dots, words) == [kind |-> "text", name |-> "none", words |-> words, dots |-> dots]
Blank == Text(0, <<>>)

Lines ==
  {Field("auto-submitted", <<>>), Field("auto-submitted", <<"no">>),
   Field("auto-submitted", <<"auto">>), Field("precedence", <<"list">>),
   Field("from", <<"x">>), Fold(<<"auto">>), Blank,
   Text(0, <<"x">>), Text(1, <<>>), Text(1, <<"x">>), Text(2, <<>>)}

VARIABLES
  mail,     \* its lines
  next,     \* Headers::parse: the line it is at, or 0 once it is done
  headers,  \* what it has found: names and words
  wire      \* what was sent after DATA, or <<>>

vars == <<mail, next, headers, wire>>

Init ==
  /\ mail \in UNION {[1..n -> Lines] : n \in 1..MaxLines}
  /\ next = 1 /\ headers = <<>> /\ wire = <<>>

-----------------------------------------------------------------------------
(* Headers *)

\* fault: an empty line does not end the headers
EndsNever(line) == FALSE

EndsHeaders(line) == line = Blank

\* One round of the loop over lines; str::lines has no empty last line.
ParseLine ==
  /\ next # 0 /\ next <= Len(mail)
  /\ LET line == mail[next] IN
     /\ next' = IF EndsHeaders(line) THEN 0 ELSE next + 1
     /\ headers' =
          CASE line.kind = "field" ->
                 Append(headers, [name |-> line.name, words |-> line.words])
            [] line.kind = "fold" /\ headers # <<>> ->
                 [headers EXCEPT ![Len(headers)].words = @ \o line.words]
            [] OTHER -> headers
  /\ UNCHANGED <<mail, wire>>

ParseEnd ==
  /\ next = Len(mail) + 1
  /\ next' = 0
  /\ UNCHANGED <<mail, headers, wire>>

\* Headers::get: the last field of that name; empty if there is none.
Get(name) ==
  LET found == {i \in DOMAIN headers : headers[i].name = name}
  IN IF found = {} THEN <<>> ELSE headers[Max(found)].words

AutoSubmitted == Get("auto-submitted") \notin {<<>>, <<"no">>}
Bulkish == Contains(Get("precedence"), "list")

-----------------------------------------------------------------------------
(* Sending *)

\* fault: a line that is not only a dot is left alone
DottedLone(line) == IF line.dots = 1 /\ line.words = <<>> THEN [line EXCEPT !.dots = 2] ELSE line

Dotted(line) == IF line.dots > 0 THEN [line EXCEPT !.dots = @ + 1] ELSE line

\* The lines with their dots stuffed, a line end, and the dot that ends them.
Send ==
  /\ next = 0 /\ wire = <<>>
  /\ wire' = [i \in DOMAIN mail |-> Dotted(mail[i])] \o <<Text(1, <<>>)>>
  /\ UNCHANGED <<mail, next, headers>>

Next == ParseLine \/ ParseEnd \/ Send

Spec == Init /\ [][Next]_vars

-----------------------------------------------------------------------------
(* Properties *)

\* Header lines stand before the first empty line.
HeaderLines ==
  {i \in DOMAIN mail : \A j \in 1..i : mail[j] # Blank}

\* A mail counts as automatic exactly if its last Auto-Submitted field, with
\* the lines that continue it, says anything but "no".
AutomaticIsSeen ==
  next = 0 =>
    LET fields == {i \in HeaderLines : mail[i].kind = "field"}
        mine == {i \in fields : mail[i].name = "auto-submitted"}
        folds(i) == {j \in HeaderLines : j > i /\ mail[j].kind = "fold"
                       /\ \A k \in fields : k <= i \/ k > j}
    IN AutoSubmitted <=>
         /\ mine # {}
         /\ LET i == CHOOSE x \in mine : \A y \in mine : y <= x
            IN mail[i].words = <<"auto">> \/ folds(i) # {}

\* What an SMTP server makes of the data: lines up to the lone dot, without
\* the dot that was put before others.
Received ==
  LET lone == {i \in DOMAIN wire : wire[i].dots = 1 /\ wire[i].words = <<>>}
  IN [i \in 1..(Min(lone) - 1) |->
        IF wire[i].dots > 0 THEN [wire[i] EXCEPT !.dots = @ - 1] ELSE wire[i]]

\* No line of a mail ends the transfer early or arrives changed.
ArrivesWhole == wire # <<>> => Received = mail

=============================================================================
