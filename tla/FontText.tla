------------------------------ MODULE FontText ------------------------------
(***************************************************************************)
(* parse_font_metadata: the reader of METADATA.pb, line by line, with a    *)
(* depth and the block it is in. The text grows by one line per step, and  *)
(* the reader has read it all.                                             *)
(***************************************************************************)
EXTENDS Integers, Sequences, FiniteSetsExt

CONSTANT MaxLines   \* bound of the model: lines of a text

FontTextAssumption == MaxLines \in Nat

\* "fonts {", "axes {", another message, "}", a filename or a tag, and a name,
\* each with one of two values.
Open(key) == [kind |-> "open", key |-> key, value |-> 0]
Close == [kind |-> "close", key |-> "none", value |-> 0]
Field(key, value) == [kind |-> "field", key |-> key, value |-> value]
Lines == {Open("fonts"), Open("axes"), Open("other"), Close}
         \cup {Field(k, v) : k \in {"filename", "tag", "name"}, v \in {1, 2}}

VARIABLES
  text,
  depth, block,    \* the messages open, and the outermost one, or "none"
  font, axis,      \* the filename and the tag of the block, 0 if empty
  found            \* metadata: the fonts, the axes, the name

vars == <<text, depth, block, font, axis, found>>

Init ==
  /\ text = <<>> /\ depth = 0 /\ block = "none" /\ font = 0 /\ axis = 0
  /\ found = [fonts |-> <<>>, axes |-> <<>>, name |-> 0]

-----------------------------------------------------------------------------

Opens(line) ==
  /\ depth' = depth + 1
  /\ IF depth = 0 THEN block' = line.key /\ font' = 0 /\ axis' = 0
     ELSE UNCHANGED <<block, font, axis>>
  /\ UNCHANGED found

Taken(f, a) ==
  [found EXCEPT !.fonts = IF block = "fonts" /\ f # 0 THEN Append(@, f) ELSE @,
                !.axes = IF block = "axes" /\ a # 0 THEN Append(@, a) ELSE @]

Closed(d) == IF d = 0 THEN 0 ELSE d - 1   \* saturating_sub

Closes(line) ==
  /\ depth' = Closed(depth)
  /\ IF depth <= 1
     THEN /\ found' = Taken(font, axis) /\ block' = "none"
          /\ font' = (IF block = "fonts" THEN 0 ELSE font)
          /\ axis' = (IF block = "axes" THEN 0 ELSE axis)
     ELSE UNCHANGED <<found, block, font, axis>>

Fields(line) ==
  /\ font' = (IF depth = 1 /\ block = "fonts" /\ line.key = "filename" THEN line.value ELSE font)
  /\ axis' = (IF depth = 1 /\ block = "axes" /\ line.key = "tag" THEN line.value ELSE axis)
  /\ UNCHANGED <<depth, block>>

Sets(line) ==
  /\ Fields(line)
  /\ found' = (IF depth = 0 /\ line.key = "name" THEN [found EXCEPT !.name = line.value] ELSE found)

ReadLine(line) ==
  /\ Len(text) < MaxLines /\ text' = Append(text, line)
  /\ \/ line.kind = "open" /\ Opens(line)
     \/ line.kind = "close" /\ Closes(line)
     \/ line.kind = "field" /\ Sets(line)

Next == \E line \in Lines : ReadLine(line)

Spec == Init /\ [][Next]_vars

-----------------------------------------------------------------------------

Nested(d, line) ==
  CASE line.kind = "open" -> d + 1 [] line.kind = "close" -> Closed(d) [] OTHER -> d

\* How many messages are open before the text t and behind each line of it.
Depths(t) ==
  LET d[n \in 0 .. Len(t)] == IF n = 0 THEN 0 ELSE Nested(d[n - 1], t[n])
  IN d

\* The outermost messages: from where they open to where they close.
Messages(t) ==
  {m \in (DOMAIN t) \X (DOMAIN t) :
     /\ m[1] < m[2] /\ Depths(t)[m[1] - 1] = 0 /\ Depths(t)[m[2]] = 0
     /\ \A n \in m[1] .. m[2] - 1 : Depths(t)[n] > 0}

\* The last field of that name between two lines, at a depth.
FieldsAt(t, first, last, key, d) ==
  {n \in first .. last : t[n].kind = "field" /\ t[n].key = key /\ Depths(t)[n] = d}
LastField(t, first, last, key, d) ==
  LET at == FieldsAt(t, first, last, key, d) IN IF at = {} THEN 0 ELSE t[Max(at)].value

\* The value of such a field that stands in the message itself, and the
\* messages that have one.
Value(t, m, key) == LastField(t, m[1], m[2], key, 1)
Named(t, outer, key) == {m \in Messages(t) : t[m[1]].key = outer /\ Value(t, m, key) # 0}

Lists(list, t, outer, key) ==
  \E at \in [DOMAIN list -> Named(t, outer, key)] :
    /\ \A m \in Named(t, outer, key) : \E i \in DOMAIN list : at[i] = m
    /\ \A i, j \in DOMAIN list : i < j => at[i][2] < at[j][1]
    /\ \A i \in DOMAIN list : list[i] = Value(t, at[i], key)

(***************************************************************************)
(* The files and axes found are those of the outermost fonts and axes      *)
(* messages that are closed and name one, in their order, whatever other   *)
(* messages stand in and around them (parse_font_metadata).                *)
(***************************************************************************)
FindsAll ==
  /\ Lists(found.fonts, text, "fonts", "filename")
  /\ Lists(found.axes, text, "axes", "tag")

(***************************************************************************)
(* A field inside a message never becomes the family's own, and the name   *)
(* is the last one outside (parse_font_metadata).                          *)
(***************************************************************************)
OwnName == found.name = LastField(text, 1, Len(text), "name", 0)
=============================================================================
