------------------------------ MODULE KeyFile ------------------------------
(***************************************************************************)
(* private_key of the client library: programs that start with the path of *)
(* a key file load the private key it holds, or create it. They run side   *)
(* by side, the file is written in pieces, and any of them may be killed.  *)
(* This is the build for unix: elsewhere the file is written over if there *)
(* is one by then, and secure_key_file does nothing (cfg(not(unix))).      *)
(***************************************************************************)
EXTENDS Integers

CONSTANTS
  Programs,
  MaxStarts   \* bound of the model: starts, each with a key of its own

KeyFileAssumption == MaxStarts \in Nat

VARIABLES
  file,    \* what the path names: its key, how much of it is written (0 none,
           \*   1 a part, 2 the key, 3 the newline too) and whether only its
           \*   owner may read it
  pc,      \* of each program: "off", "read", "secure", "create", "write", "run",
           \*   "error"
  key,     \* the key it has
  starts,
  used     \* history: the keys programs have run with

vars == <<file, pc, key, starts, used>>

Absent == [exists |-> FALSE, key |-> 0, written |-> 0, private |-> FALSE]
New(k) == [exists |-> TRUE, key |-> k, written |-> 0, private |-> TRUE]

\* There is no file, or one its owner made, with key 0.
Init ==
  /\ file \in {Absent} \cup
        [exists : {TRUE}, key : {0}, written : {2, 3}, private : BOOLEAN]
  /\ pc = [p \in Programs |-> "off"]
  /\ key = [p \in Programs |-> 0]
  /\ starts = 0 /\ used = {}

Go(p, to) == pc' = [pc EXCEPT ![p] = to]
Run(p, k) == Go(p, "run") /\ key' = [key EXCEPT ![p] = k] /\ used' = used \cup {k}

Start(p) ==
  /\ pc[p] = "off" /\ starts < MaxStarts
  /\ starts' = starts + 1
  /\ Go(p, "read")
  /\ key' = [key EXCEPT ![p] = starts + 1]   \* the one it would generate
  /\ UNCHANGED <<file, used>>

\* read_to_string, and private_key_bytes of what it returned; without a file a
\* new key is generated.
Read(p) ==
  /\ pc[p] = "read"
  /\ \/ /\ ~file.exists
        /\ Go(p, "create") /\ UNCHANGED key
     \/ /\ file.exists /\ file.written >= 2
        /\ key' = [key EXCEPT ![p] = file.key]
        /\ Go(p, "secure")
     \/ /\ file.exists /\ file.written < 2
        /\ Go(p, "error") /\ UNCHANGED key
  /\ UNCHANGED <<file, starts, used>>

\* secure_key_file of unix
Secure(p) ==
  /\ pc[p] = "secure"
  /\ file' = [file EXCEPT !.private = TRUE]
  /\ Run(p, key[p])
  /\ UNCHANGED starts

\* The file is opened with create and truncate, as other systems do it.
CreateOver(p) ==
  /\ pc[p] = "create"
  /\ file' = New(key[p]) /\ Go(p, "write")
  /\ UNCHANGED <<key, starts, used>>

\* write_new_key_file of unix: create_new, which fails when there is a file by
\* now, and mode 0600.
Create(p) ==
  /\ pc[p] = "create"
  /\ IF file.exists
     THEN Go(p, "error") /\ UNCHANGED file
     ELSE file' = New(key[p]) /\ Go(p, "write")
  /\ UNCHANGED <<key, starts, used>>

\* write_all, twice; a write may be cut short.
Write(p) ==
  /\ pc[p] = "write"
  /\ \E n \in (file.written + 1)..3 :
       /\ file' = [file EXCEPT !.written = n, !.key = key[p]]
       /\ IF n = 3 THEN Run(p, key[p]) ELSE UNCHANGED <<pc, key, used>>
  /\ UNCHANGED starts

\* What it asks of the file system fails.
Fail(p) ==
  /\ pc[p] \in {"read", "secure", "create", "write"} /\ Go(p, "error")
  /\ UNCHANGED <<file, key, starts, used>>

\* The program ends, or is killed.
Stop(p) ==
  /\ pc[p] # "off" /\ Go(p, "off")
  /\ key' = [key EXCEPT ![p] = 0]
  /\ UNCHANGED <<file, starts, used>>

\* No start is left.
Rest == starts = MaxStarts /\ (\A p \in Programs : pc[p] = "off") /\ UNCHANGED vars

Next ==
  \/ \E p \in Programs :
       \/ Start(p) \/ Read(p) \/ Secure(p) \/ Create(p) \/ Write(p)
       \/ Fail(p) \/ Stop(p)
  \/ Rest

Spec == Init /\ [][Next]_vars

-----------------------------------------------------------------------------

(***************************************************************************)
(* On unix all programs that ever run with the key file run with one key,  *)
(* and so read one inbox: programs that create it at once, and writes that *)
(* were cut short, included (private_key, write_new_key_file).             *)
(***************************************************************************)
OneKey == \A k, l \in used : k = l

(***************************************************************************)
(* On unix a program that runs has left the key readable for its owner     *)
(* alone, from the first byte on when it wrote the file                    *)
(* (write_new_key_file, secure_key_file; client/PROTOCOL.md:15).           *)
(***************************************************************************)
KeyIsPrivate ==
  /\ \A p \in Programs : pc[p] = "run" => file.private
  /\ file.exists /\ ~file.private => file.key = 0

=============================================================================
