------------------------------- MODULE Varint -------------------------------
(***************************************************************************)
(* Variable-length integers: moqt-core/src/wire/varint.rs and              *)
(* web/src/wire/varint.ts.                                                 *)
(*                                                                         *)
(* An integer of 64 bits is the sequence of its 8 bytes, most significant  *)
(* first, because TLC's integers are shorter.  The form of len bytes has   *)
(* 9 - len prefix bits, a row of ones closed by a zero, and the rest of    *)
(* its first byte belongs to the value.  Seven bytes are not used: their   *)
(* prefix is what 0xFC and 0xFD would be.                                  *)
(***************************************************************************)
EXTENDS Integers, Sequences

Byte == 0..255

U64 == [1..8 -> Byte]

\* The 64 bits of a number below 2^31.
U(n) == <<0, 0, 0, 0, n \div 2^24, (n \div 2^16) % 256, (n \div 256) % 256, n % 256>>

\* The number, for lengths, counts and types; Huge when it is longer than any
\* buffer of the model.
Huge == 2^24

Num(u) == IF \A i \in 1..5 : u[i] = 0 THEN u[6] * 2^16 + u[7] * 256 + u[8] ELSE Huge

Lengths == 1..6 \cup {8, 9}

Prefix(len) == 256 - 2^(9 - len)

\* How many values the first byte can take.
Room(len) == IF len < 8 THEN 2^(8 - len) ELSE 1

Fits(u, len) ==
  LET w == <<0>> \o u
  IN /\ \A i \in 1..(9 - len) : w[i] = 0
     /\ w[10 - len] < Room(len)

\* u in len bytes.
InBytes(u, len) ==
  LET w == <<0>> \o u
  IN [i \in 1..len |-> w[9 - len + i] + IF i = 1 THEN Prefix(len) ELSE 0]

\* encode_varint, encodeVarint
EncodeVarint(u) == InBytes(u, CHOOSE len \in Lengths : Fits(u, len) /\ \A l \in Lengths : Fits(u, l) => len <= l)

\* The form a first byte belongs to; 0 if it belongs to none.
FormOf(first) ==
  IF first \in {252, 253} THEN 0
  ELSE CHOOSE len \in Lengths : first \in Prefix(len)..(Prefix(len) + Room(len) - 1)

\* varint_byte_length: 0 for 0xFC; 0xFD, reserved like it, falls through to 9.
VarintByteLength(first) == IF first = 253 THEN 9 ELSE FormOf(first)

\* varintByteLength of the browser
WebVarintByteLength(first) == FormOf(first)

-----------------------------------------------------------------------------
\* What a reading step leaves: the value and the rest of the buffer.

Parsed(value, rest) == [ok |-> TRUE, value |-> value, rest |-> rest]

Failed == [ok |-> FALSE, value |-> <<>>, rest |-> <<>>]

\* Go on with what r left, if it did not fail.
Then(r, Next(_, _)) == IF r.ok THEN Next(r.value, r.rest) ELSE Failed

From(s, n) == SubSeq(s, n, Len(s))

\* The first len bytes of buf without their prefix.
Unprefixed(buf, len) ==
  Tail([i \in 1..9 |-> IF i < 10 - len THEN 0
                       ELSE IF i = 10 - len THEN buf[1] % Room(len)
                       ELSE buf[i - 9 + len]])

\* An integer of len bytes.
IntOf(len, buf) ==
  IF len = 0 \/ len > Len(buf) THEN Failed ELSE Parsed(Unprefixed(buf, len), From(buf, len + 1))

\* decode_varint
DecodeVarint(buf) == IF buf = <<>> THEN Failed ELSE IntOf(VarintByteLength(buf[1]), buf)

\* A browser number is a double: of the forms of 8 and 9 bytes, whose prefix it
\* adds up with the value, it keeps 53 bits, prefix included.  Which value it
\* rounds to is not modelled.
Rounded == <<>>

\* decodeVarint of the browser
WebDecodeVarint(buf) ==
  IF buf = <<>> THEN Failed
  ELSE Then(IntOf(WebVarintByteLength(buf[1]), buf),
            LAMBDA u, rest : Parsed(IF buf[1] >= Prefix(8) THEN Rounded ELSE u, rest))
=============================================================================
