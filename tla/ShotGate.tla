------------------------------ MODULE ShotGate ------------------------------
(***************************************************************************)
(* What GET /shot checks before it looks at its cache: the proof of work   *)
(* of the token, the spec in its document, and the host of its URL.        *)
(* Numbers are small: bytes have Width bits, scales are multiples of 1/2.  *)
(***************************************************************************)
EXTENDS Integers, Sequences

CONSTANTS
  Width,       \* bits of a byte (8)
  DigestLen,   \* bytes of a digest (32)
  Level,       \* SHOT_POW_LEVEL
  MaxDim,      \* SHOT_MAX_DIM
  TsWindow,    \* SHOT_TS_WINDOW_SECONDS
  MaxSkew      \* bound of the model: largest distance of ts from now

GateAssumption ==
  /\ Width \in Nat \ {0} /\ DigestLen \in Nat \ {0} /\ Level \in Nat
  /\ MaxDim \in Nat \ {0} /\ TsWindow \in Nat /\ MaxSkew \in Nat

\* Powers of two.
Power[n \in Nat] == IF n = 0 THEN 1 ELSE 2 * Power[n - 1]

Bytes == 0..(Power[Width] - 1)

\* A host: what its name resolves to, or the address it is.
Hosts == {"none", "unresolved", "public", "forbidden", "mixed"}
Tokens == {"absent", "malformed", "long suffix", "no spec", "good"}
Specs ==
  {s \in [width : 0..(MaxDim + 1), height : 0..(MaxDim + 1), scale : 0..3,
          ts : (-MaxSkew)..MaxSkew, scheme : {"http", "other"},
          named : BOOLEAN, host : Hosts] :
     s.named \/ s.host \in {"none", "public", "forbidden"}}

VARIABLES
  token,     \* the form of the token
  digest,    \* sha256(sha256(doc) . suffix)
  spec,      \* what the document says
  pc, bits, next,   \* pow_trailing_zero_bits: where it is, its result so far,
                    \*   the byte it looks at
  status,    \* the answer: 0 while there is none, 200 when let through
  resolved   \* the host was looked up

vars == <<token, digest, spec, pc, bits, next, status, resolved>>
input == <<token, digest, spec>>

Plain == [width |-> 1, height |-> 1, scale |-> 2, ts |-> 0, scheme |-> "http",
          named |-> TRUE, host |-> "public"]

Init ==
  /\ digest \in [1..DigestLen -> Bytes]
  /\ token \in Tokens
  /\ spec \in IF token = "good" THEN Specs ELSE {Plain}
  /\ pc = "token" /\ bits = 0 /\ next = DigestLen
  /\ status = 0 /\ resolved = FALSE

-----------------------------------------------------------------------------

Answer(code) == pc' = "answered" /\ status' = code
On(where) == pc' = where /\ UNCHANGED status

\* u8::trailing_zeros of a byte that is not zero.
TrailingZeros(b) == CHOOSE n \in 0..(Width - 1) : b % Power[n] = 0 /\ (b \div Power[n]) % 2 = 1

\* pow_token_doc_and_level, up to its hashes.
ReadToken ==
  /\ pc = "token"
  /\ CASE token = "absent" -> Answer(200)        \* the documentation
       [] token \in {"malformed", "long suffix"} -> Answer(400)
       [] OTHER -> On("level")
  /\ UNCHANGED <<input, bits, next, resolved>>

\* fault: the digest is read from its first byte
LastByteFirst == digest[DigestLen + 1 - next]

LastByte == digest[next]

\* One round of the loop of pow_trailing_zero_bits, which ends with the first
\* byte from the end that is not zero.
CountBits ==
  /\ pc = "level" /\ next > 0
  /\ IF LastByte = 0 THEN bits' = bits + Width /\ next' = next - 1
                     ELSE bits' = bits + TrailingZeros(LastByte) /\ next' = 0
  /\ UNCHANGED <<input, pc, status, resolved>>

CheckLevel ==
  /\ pc = "level" /\ next = 0
  /\ IF bits < Level THEN Answer(403)
     ELSE IF token = "no spec" THEN Answer(400) ELSE On("spec")
  /\ UNCHANGED <<input, bits, next, resolved>>

\* ShotSpec::validate; ts is relative to now.
Valid(s) ==
  /\ s.width \in 1..MaxDim /\ s.height \in 1..MaxDim
  /\ s.scale > 0 /\ s.scale <= 2
  /\ s.width * s.scale >= 2 /\ s.height * s.scale >= 2
  /\ s.ts \in (-TsWindow)..TsWindow

CheckSpec ==
  /\ pc = "spec"
  /\ IF Valid(spec) THEN On("url") ELSE Answer(400)
  /\ UNCHANGED <<input, bits, next, resolved>>

\* shot_check_url: an address is checked, a name is looked up and refused if
\* any of its addresses is.
CheckUrl ==
  /\ pc = "url"
  /\ resolved' = (spec.scheme = "http" /\ spec.host # "none" /\ spec.named)
  /\ CASE spec.scheme # "http" \/ spec.host = "none" -> Answer(400)
       [] resolved' /\ spec.host = "unresolved" -> Answer(502)
       [] spec.host = "forbidden" \/ (resolved' /\ spec.host = "mixed") -> Answer(400)
       [] OTHER -> Answer(200)
  /\ UNCHANGED <<input, bits, next>>

Next == ReadToken \/ CountBits \/ CheckLevel \/ CheckSpec \/ CheckUrl

Spec == Init /\ [][Next]_vars

-----------------------------------------------------------------------------
(* Properties *)

\* The digest as a big-endian number.
Number ==
  LET value[n \in 0..DigestLen] ==
        IF n = 0 THEN 0 ELSE value[n - 1] * Power[Width] + digest[n]
  IN value[DigestLen]

\* The level of a token is the number of zero bits its digest ends with,
\* all of them for zero: pow_trailing_zero_bits agrees with arithmetic.
LevelExact ==
  pc = "level" /\ next = 0 =>
    /\ bits \in 0..(Width * DigestLen)
    /\ Number % Power[bits] = 0
    /\ Number = 0 => bits = Width * DigestLen
    /\ Number # 0 => Number % Power[bits + 1] # 0

\* Nobody makes the server look up a name without having paid for it.
LookupIsPaid == resolved => token = "good" /\ Number % Power[Level] = 0

\* The picture of a spec that is let through has at least one pixel and at
\* most MaxDim in each direction.
ImageInRange ==
  pc = "url" =>
    \A side \in {spec.width, spec.height} :
      side * spec.scale >= 2 /\ side * spec.scale <= 2 * MaxDim
=============================================================================
