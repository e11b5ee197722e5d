----------------------------- MODULE WireProofs -----------------------------
(***************************************************************************)
(* What encode writes, decode reads: of the integers, byte strings,        *)
(* namespaces, parameters and pairs of moqt-core/src/wire, of every        *)
(* message and of the header of a data stream, for all values and whatever *)
(* follows in the buffer.                                                  *)
(*                                                                         *)
(* Every list is read by Repeat, whose steps depend on what was read so    *)
(* far.  Its lemmas say where the reader is after each element (Progress), *)
(* that this is what Repeat computes (Run), and hence what it ends with.   *)
(***************************************************************************)
EXTENDS WireStreamProperties, SequenceLemmas, SequenceTheorems

\* The first bytes of every form.
LEMMA Forms ==
    /\ Prefix(1) = 0 /\ Prefix(2) = 128 /\ Prefix(3) = 192 /\ Prefix(4) = 224
    /\ Prefix(5) = 240 /\ Prefix(6) = 248 /\ Prefix(8) = 254 /\ Prefix(9) = 255
    /\ Room(1) = 128 /\ Room(2) = 64 /\ Room(3) = 32 /\ Room(4) = 16
    /\ Room(5) = 8 /\ Room(6) = 4 /\ Room(8) = 1 /\ Room(9) = 1
<1>1. 2^0 = 1 /\ 2^1 = 2 /\ 2^2 = 4 /\ 2^3 = 8 /\ 2^4 = 16 /\ 2^5 = 32 /\ 2^6 = 64
      /\ 2^7 = 128 /\ 2^8 = 256
  BY SMT
<1> QED BY <1>1, SMT DEF Prefix, Room

\* A first byte belongs to one form only.
LEMMA OneForm ==
    ASSUME NEW len \in Lengths, NEW first \in Prefix(len)..(Prefix(len) + Room(len) - 1)
    PROVE  /\ FormOf(first) = len /\ first \notin {252, 253} /\ first \in Byte
           /\ VarintByteLength(first) = len
<1>1. len \in {1, 2, 3, 4, 5, 6, 8, 9}
  BY SMT DEF Lengths
<1>2. first \in Byte /\ first \notin {252, 253}
  BY <1>1, Forms, SMT DEF Byte
<1>3. ASSUME NEW l \in Lengths, first \in Prefix(l)..(Prefix(l) + Room(l) - 1) PROVE l = len
  <2>1. l \in {1, 2, 3, 4, 5, 6, 8, 9}
    BY SMT DEF Lengths
  <2> QED BY <1>1, <1>3, <2>1, Forms, SMT
<1>4. FormOf(first) = CHOOSE l \in Lengths : first \in Prefix(l)..(Prefix(l) + Room(l) - 1)
  BY <1>2, SMT DEF FormOf
<1>5. FormOf(first) = len
  BY <1>3, <1>4, Zenon
<1> QED BY <1>2, <1>5, SMT DEF VarintByteLength

\* And every other byte to one.
LEMMA SomeForm ==
    ASSUME NEW first \in Byte, first \notin {252, 253}
    PROVE  /\ FormOf(first) \in Lengths /\ VarintByteLength(first) = FormOf(first)
           /\ first \in Prefix(FormOf(first))..(Prefix(FormOf(first)) + Room(FormOf(first)) - 1)
<1>1. \E l \in Lengths : first \in Prefix(l)..(Prefix(l) + Room(l) - 1)
  <2>1. {1, 2, 3, 4, 5, 6, 8, 9} \subseteq Lengths
    BY SMT DEF Lengths
  <2>2. \E l \in {1, 2, 3, 4, 5, 6, 8, 9} : first \in Prefix(l)..(Prefix(l) + Room(l) - 1)
    BY Forms, SMT DEF Byte
  <2> QED BY <2>1, <2>2
<1>2. FormOf(first) = CHOOSE l \in Lengths : first \in Prefix(l)..(Prefix(l) + Room(l) - 1)
  BY SMT DEF FormOf
<1> QED BY <1>1, <1>2, SMT DEF VarintByteLength

\* Bytes are numbers.
LEMMA Bytes255 == \A x : x \in Byte <=> x \in Nat /\ x <= 255
  BY DEF Byte

\* Every form's prefix is a multiple of what its first byte has room for.
LEMMA FormRemainder ==
    ASSUME NEW len \in Lengths, NEW x \in Nat, x < Room(len)
    PROVE  (x + Prefix(len)) % Room(len) = x
<1>1. len \in {1, 2, 3, 4, 5, 6, 8, 9}
  BY SMT DEF Lengths
<1>2. CASE len = 1
  <2>1. x < 128 => (x + 0) % 128 = x
    BY SMT
  <2> QED BY <1>2, <2>1, Forms
<1>3. CASE len = 2
  <2>1. x < 64 => (x + 128) % 64 = x
    BY SMT
  <2> QED BY <1>3, <2>1, Forms
<1>4. CASE len = 3
  <2>1. x < 32 => (x + 192) % 32 = x
    BY SMT
  <2> QED BY <1>4, <2>1, Forms
<1>5. CASE len = 4
  <2>1. x < 16 => (x + 224) % 16 = x
    BY SMT
  <2> QED BY <1>5, <2>1, Forms
<1>6. CASE len = 5
  <2>1. x < 8 => (x + 240) % 8 = x
    BY SMT
  <2> QED BY <1>6, <2>1, Forms
<1>7. CASE len = 6
  <2>1. x < 4 => (x + 248) % 4 = x
    BY SMT
  <2> QED BY <1>7, <2>1, Forms
<1>8. CASE len = 8
  <2>1. x < 1 => (x + 254) % 1 = x
    BY SMT
  <2> QED BY <1>8, <2>1, Forms
<1>9. CASE len = 9
  <2>1. x < 1 => (x + 255) % 1 = x
    BY SMT
  <2> QED BY <1>9, <2>1, Forms
<1> QED BY <1>1, <1>2, <1>3, <1>4, <1>5, <1>6, <1>7, <1>8, <1>9

\* A function on the first n numbers is a sequence.
LEMMA FunctionIsSequence ==
    ASSUME NEW S, NEW n \in Nat, NEW f \in [1..n -> S]
    PROVE  f \in Seq(S) /\ Len(f) = n
<1>1. f \in Seq(S)
  BY SeqDef
<1>2. DOMAIN f = 1..n /\ DOMAIN f = 1..Len(f) /\ Len(f) \in Nat
  BY <1>1, LenProperties
<1> QED BY <1>1, <1>2

\* A 64-bit integer is a sequence of eight bytes; so is it behind a zero.
LEMMA Wide ==
    ASSUME NEW u \in U64
    PROVE  /\ u \in Seq(Byte) /\ Len(u) = 8
           /\ Len(<<0>> \o u) = 9 /\ (<<0>> \o u)[1] = 0
           /\ \A i \in 1..8 : u[i] \in Byte /\ (<<0>> \o u)[i + 1] = u[i]
           /\ \A i \in 1..9 : (<<0>> \o u)[i] \in Byte
<1>1. u \in Seq(Byte) /\ Len(u) = 8 /\ \A i \in 1..8 : u[i] \in Byte
  BY FunctionIsSequence DEF U64
<1>2. 0 \in Byte
  BY SMT DEF Byte
<1>3. <<0>> \in Seq(Byte) /\ Len(<<0>>) = 1
  BY <1>2
<1>4. Len(<<0>> \o u) = 9 /\ (<<0>> \o u)[1] = 0 /\ \A i \in 1..8 : (<<0>> \o u)[i + 1] = u[i]
  <2>1. /\ Len(<<0>> \o u) = 9
        /\ \A i \in 1..9 : (<<0>> \o u)[i] = IF i <= 1 THEN <<0>>[i] ELSE u[i - 1]
    <3> DEFINE z == <<0>>
    <3>1. z \in Seq(Byte) /\ Len(z) = 1
      BY <1>3
    <3> HIDE DEF z
    <3>2. /\ Len(z \o u) = 9
          /\ \A i \in 1..9 : (z \o u)[i] = IF i <= 1 THEN z[i] ELSE u[i - 1]
      <4>1. /\ Len(z \o u) = Len(z) + Len(u)
            /\ \A i \in 1..(Len(z) + Len(u)) :
                 (z \o u)[i] = IF i <= Len(z) THEN z[i] ELSE u[i - Len(z)]
        BY <1>1, <3>1, ConcatProperties
      <4> QED BY <1>1, <3>1, <4>1
    <3> QED BY <3>2 DEF z
  <2>2. (<<0>> \o u)[1] = 0
    BY <2>1
  <2>3. ASSUME NEW i \in 1..8 PROVE (<<0>> \o u)[i + 1] = u[i]
    <3>1. i + 1 \in 1..9 /\ ~(i + 1 <= 1) /\ (i + 1) - 1 = i
      OBVIOUS
    <3> QED BY <2>1, <3>1
  <2> QED BY <2>1, <2>2, <2>3
<1>5. ASSUME NEW i \in 1..9 PROVE (<<0>> \o u)[i] \in Byte
  <2>1. i # 1 => i - 1 \in 1..8 /\ i = (i - 1) + 1
    OBVIOUS
  <2> QED BY <1>1, <1>2, <1>4, <2>1
<1> QED BY <1>1, <1>4, <1>5

\* The form of len bytes has len bytes, and its first one says so.
LEMMA BytesOfForm ==
    ASSUME NEW u \in U64, NEW len \in Lengths, Fits(u, len)
    PROVE  /\ InBytes(u, len) \in Seq(Byte) /\ Len(InBytes(u, len)) = len
           /\ InBytes(u, len)[1] \in Prefix(len)..(Prefix(len) + Room(len) - 1)
           /\ InBytes(u, len)[1] = (<<0>> \o u)[10 - len] + Prefix(len)
           /\ \A i \in 2..len : InBytes(u, len)[i] = (<<0>> \o u)[9 - len + i]
<1> DEFINE w == <<0>> \o u
           b == InBytes(u, len)
<1>1. len \in {1, 2, 3, 4, 5, 6, 8, 9}
  BY SMT DEF Lengths
<1>2. \A i \in 1..9 : w[i] \in Byte
  BY Wide
<1>3. w[10 - len] < Room(len)
  BY DEF Fits
<1>4. b = [i \in 1..len |-> w[9 - len + i] + IF i = 1 THEN Prefix(len) ELSE 0]
  BY DEF InBytes
<1> HIDE DEF w, b
<1>5. b[1] = w[10 - len] + Prefix(len) /\ b[1] \in Prefix(len)..(Prefix(len) + Room(len) - 1)
  <2>1. 1 \in 1..len /\ 9 - len + 1 = 10 - len /\ 10 - len \in 1..9
    BY <1>1
  <2>2. b[1] = w[10 - len] + Prefix(len)
    BY <1>4, <2>1
  <2>3. Prefix(len) \in Nat /\ Room(len) \in Nat
    BY <1>1, Forms
  <2>4. w[10 - len] \in 0..255
    BY <1>2, <2>1 DEF Byte
  <2> QED BY <1>3, <2>2, <2>3, <2>4
<1>6. ASSUME NEW i \in 2..len PROVE b[i] = w[9 - len + i] /\ b[i] \in Byte
  <2>1. i \in 1..len /\ i # 1 /\ 9 - len + i \in 1..9
    BY <1>1
  <2>2. b[i] = w[9 - len + i] + 0
    BY <1>4, <2>1
  <2>3. w[9 - len + i] \in 0..255
    BY <1>2, <2>1 DEF Byte
  <2> QED BY <2>2, <2>3 DEF Byte
<1>7. \A i \in 1..len : b[i] \in Byte
  BY <1>1, <1>5, <1>6, OneForm
<1>8. b \in Seq(Byte) /\ Len(b) = len
  <2>1. b = [i \in 1..len |-> b[i]]
    BY <1>4
  <2>2. len \in Nat
    BY <1>1
  <2>3. b \in [1..len -> Byte]
    BY <1>7, <2>1
  <2> QED BY <2>2, <2>3, FunctionIsSequence
<1> QED BY <1>5, <1>6, <1>8 DEF b, w

\* What reads one form gives back the integer.
LEMMA Unprefix ==
    ASSUME NEW u \in U64, NEW len \in Lengths, Fits(u, len), NEW rest \in Seq(Byte)
    PROVE  Unprefixed(InBytes(u, len) \o rest, len) = u
<1> DEFINE w == <<0>> \o u
           b == InBytes(u, len)
           buf == b \o rest
           f == [i \in 1..9 |-> IF i < 10 - len THEN 0
                                ELSE IF i = 10 - len THEN buf[1] % Room(len) ELSE buf[i - 9 + len]]
<1>1. len \in {1, 2, 3, 4, 5, 6, 8, 9}
  BY SMT DEF Lengths
<1>2. /\ b \in Seq(Byte) /\ Len(b) = len /\ b[1] = w[10 - len] + Prefix(len)
      /\ \A i \in 2..len : b[i] = w[9 - len + i]
  BY BytesOfForm
<1>3. /\ \A i \in 1..9 : w[i] \in Byte
      /\ \A i \in 1..8 : w[i + 1] = u[i]
      /\ Len(w) = 9
  BY Wide
<1>4. w[10 - len] < Room(len) /\ \A i \in 1..(9 - len) : w[i] = 0
  BY DEF Fits
<1>5. u \in Seq(Byte) /\ Len(u) = 8
  BY Wide
<1> HIDE DEF w, b
<1>6. \A i \in 1..len : buf[i] = b[i]
  BY <1>1, <1>2, ConcatProperties
<1> HIDE DEF buf
<1>7. ASSUME NEW i \in 1..9 PROVE f[i] = w[i]
  <2>1. CASE i < 10 - len
    BY <1>1, <1>4, <2>1
  <2>2. CASE i = 10 - len
    <3>1. buf[1] % Room(len) = w[10 - len]
      <4>1. 1 \in 1..len /\ w[10 - len] \in Byte
        BY <1>1, <1>3
      <4>2. buf[1] = w[10 - len] + Prefix(len)
        BY <1>2, <1>6, <4>1
      <4>3. w[10 - len] \in Nat
        BY <4>1, Bytes255
      <4>4. (w[10 - len] + Prefix(len)) % Room(len) = w[10 - len]
        BY <1>4, <4>3, FormRemainder
      <4> QED BY <4>2, <4>4
    <3> QED BY <2>2, <3>1
  <2>3. CASE i > 10 - len
    <3>1. i - 9 + len \in 2..len /\ 9 - len + (i - 9 + len) = i
      BY <1>1, <2>3
    <3>2. f[i] = buf[i - 9 + len]
      BY <1>1, <2>3
    <3> QED BY <1>2, <1>6, <3>1, <3>2
  <2> QED BY <1>1, <2>1, <2>2, <2>3
<1>8. Unprefixed(buf, len) = Tail(f)
  BY DEF Unprefixed
<1>9. f \in Seq(Byte) /\ Len(f) = 9
  <2>1. f = [i \in 1..9 |-> f[i]]
    OBVIOUS
  <2> HIDE DEF f
  <2>2. f \in [1..9 -> Byte]
    BY <1>3, <1>7, <2>1
  <2> QED BY <2>2, FunctionIsSequence
<1> HIDE DEF f
<1> DEFINE t == Tail(f)
<1>10. t \in Seq(Byte) /\ Len(t) = Len(f) - 1 /\ \A i \in 1..Len(t) : t[i] = f[i + 1]
  <2>1. f # << >>
    BY <1>9, EmptySeq
  <2> QED BY <1>9, <2>1, HeadTailProperties
<1> HIDE DEF t
<1>11. Len(t) = 8
  BY <1>9, <1>10
<1>12. ASSUME NEW i \in 1..8 PROVE t[i] = u[i]
  <2>1. i + 1 \in 1..9
    OBVIOUS
  <2>2. t[i] = f[i + 1] /\ f[i + 1] = w[i + 1] /\ w[i + 1] = u[i]
    BY <1>3, <1>7, <1>10, <1>11, <2>1
  <2> QED BY <2>2
<1>13. t = u
  BY <1>5, <1>10, <1>11, <1>12, SeqEqual
<1> QED BY <1>8, <1>13 DEF b, buf, t

\* What is left behind the first of two sequences is the second.
LEMMA FromConcat ==
    ASSUME NEW S, NEW s \in Seq(S), NEW t \in Seq(S)
    PROVE  From(s \o t, Len(s) + 1) = t
<1> DEFINE m == Len(s)
           n == Len(t)
           st == s \o t
<1>1. m \in Nat /\ n \in Nat /\ st \in Seq(S) /\ Len(st) = m + n
  BY LenProperties, ConcatProperties
<1>2. CASE n = 0
  <2>1. SubSeq(st, m + 1, m + n) = << >>
    <3> HIDE DEF m, n, st
    <3> QED BY <1>1, <1>2, SubSeqEmpty
  <2>2. t = << >>
    BY <1>2, EmptySeq
  <2> QED BY <1>1, <2>1, <2>2 DEF From
<1>3. CASE n # 0
  <2>1. m + 1 \in (m + 1)..(m + n) /\ m + n \in (m + 1)..(m + n)
    <3> HIDE DEF m, n
    <3> QED BY <1>1, <1>3
  <2>2. SubSeq(st, m + 1, m + n) = SubSeq(t, (m + 1) - m, (m + n) - m)
    BY <2>1, SubSeqOfConcat2
  <2>3. (m + 1) - m = 1 /\ (m + n) - m = n
    <3> HIDE DEF m, n
    <3> QED BY <1>1
  <2>4. SubSeq(t, 1, n) = t
    BY SubSeqFull
  <2> QED BY <1>1, <2>2, <2>3, <2>4 DEF From
<1> QED BY <1>2, <1>3

\* An integer is read back from each form it fits in, and what follows is left.
LEMMA ReadForm ==
    ASSUME NEW u \in U64, NEW len \in Lengths, Fits(u, len), NEW rest \in Seq(Byte)
    PROVE  DecodeVarint(InBytes(u, len) \o rest) = Parsed(u, rest)
<1> DEFINE b == InBytes(u, len)
           buf == b \o rest
<1>1. len \in Nat \ {0}
  BY SMT DEF Lengths
<1>2. b \in Seq(Byte) /\ Len(b) = len /\ b[1] \in Prefix(len)..(Prefix(len) + Room(len) - 1)
  BY BytesOfForm
<1>3. Unprefixed(buf, len) = u
  BY Unprefix
<1> HIDE DEF b
<1>4. From(buf, len + 1) = rest
  BY <1>2, FromConcat
<1>5. /\ buf \in Seq(Byte) /\ Len(buf) = Len(b) + Len(rest) /\ Len(rest) \in Nat
      /\ \A i \in 1..(Len(b) + Len(rest)) : buf[i] = IF i <= Len(b) THEN b[i] ELSE rest[i - Len(b)]
  BY <1>2, ConcatProperties, LenProperties
<1> HIDE DEF buf
<1>6. Len(buf) >= len /\ buf[1] = b[1]
  BY <1>1, <1>2, <1>5
<1>7. buf # << >>
  <2>1. Len(buf) # 0
    BY <1>1, <1>2, <1>5
  <2> QED BY <2>1, EmptySeq
<1>8. VarintByteLength(buf[1]) = len
  BY <1>2, <1>6, OneForm
<1>9. IntOf(len, buf) = Parsed(u, rest)
  <2>1. ~(len = 0 \/ len > Len(buf))
    BY <1>1, <1>2, <1>5
  <2> QED BY <1>3, <1>4, <2>1, Zenon DEF IntOf
<1> QED BY <1>7, <1>8, <1>9, Zenon DEF DecodeVarint, buf, b

\* encode_varint takes the shortest form.
LEMMA ShortestFits ==
    ASSUME NEW u \in U64
    PROVE  \E len \in Lengths : /\ Fits(u, len) /\ EncodeVarint(u) = InBytes(u, len)
                                /\ \A l \in Lengths : Fits(u, l) => len <= l
<1> DEFINE S == {len \in Lengths : Fits(u, len)}
<1>1. Lengths \subseteq Nat /\ 9 \in Lengths
  BY SMT DEF Lengths
<1>2. Fits(u, 9)
  <2>1. (<<0>> \o u)[1] = 0
    BY Wide
  <2> QED BY <2>1, Forms DEF Fits
<1>3. \E len \in S : \A l \in S : len <= l
  <2>1. S \in SUBSET Nat /\ S # {}
    BY <1>1, <1>2
  <2> HIDE DEF S
  <2> QED BY <2>1, LeastNumber
<1> DEFINE P(len) == Fits(u, len) /\ \A l \in Lengths : Fits(u, l) => len <= l
<1>4. \E len \in Lengths : P(len)
  BY <1>3
<1>5. EncodeVarint(u) = InBytes(u, CHOOSE len \in Lengths : P(len))
  BY DEF EncodeVarint
<1> HIDE DEF P
<1>6. PICK len \in Lengths : len = CHOOSE l \in Lengths : P(l)
  BY <1>4
<1>7. P(len)
  BY <1>4, <1>6
<1> QED BY <1>5, <1>6, <1>7 DEF P

\* Whatever follows it: what encode_varint writes, decode_varint reads.
THEOREM VarintRoundTrip ==
    \A u \in U64 : \A rest \in Seq(Byte) : DecodeVarint(EncodeVarint(u) \o rest) = Parsed(u, rest)
<1> SUFFICES ASSUME NEW u \in U64, NEW rest \in Seq(Byte)
             PROVE  DecodeVarint(EncodeVarint(u) \o rest) = Parsed(u, rest)
  OBVIOUS
<1>1. PICK len \in Lengths : Fits(u, len) /\ EncodeVarint(u) = InBytes(u, len)
  BY ShortestFits
<1> QED BY <1>1, ReadForm

\* An integer that is read from a form of fewer than nine bytes fits in it.
LEMMA ReadFits ==
    ASSUME NEW u \in U64, NEW len \in Lengths, len # 9, NEW b \in Seq(Byte), len <= Len(b),
           Unprefixed(b, len) = u
    PROVE  Fits(u, len)
<1> DEFINE w == <<0>> \o u
<1>0. len \in {1, 2, 3, 4, 5, 6, 8}
  BY SMT DEF Lengths
<1>1. Len(b) \in Nat /\ \A i \in 1..Len(b) : b[i] \in Nat /\ b[i] \in Byte
  BY ElementOfSeq, Bytes255
<1> DEFINE f == [i \in 1..9 |-> IF i < 10 - len THEN 0
                                ELSE IF i = 10 - len THEN b[1] % Room(len) ELSE b[i - 9 + len]]
<1>2. Tail(f) = u
  BY DEF Unprefixed
<1>3. f[10 - len] \in Nat /\ f[10 - len] < Room(len)
  <2>1. Room(len) \in Nat \ {0} /\ 10 - len \in 1..9 /\ 1 \in 1..Len(b)
    BY <1>0, <1>1, Forms
  <2>2. f[10 - len] = b[1] % Room(len)
    BY <2>1
  <2>3. b[1] \in Nat
    BY <1>1, <2>1
  <2> HIDE DEF f, w
  <2> QED BY <2>1, <2>2, <2>3
<1>4. ASSUME NEW i \in 1..(9 - len) PROVE f[i] = 0
  BY <1>0
<1>5. ASSUME NEW i \in 1..9 PROVE f[i] \in Int
  <2>1. CASE i > 10 - len
    <3>1. i - 9 + len \in 1..len /\ i # 10 - len /\ ~(i < 10 - len)
      BY <1>0, <2>1
    <3>2. f[i] = b[i - 9 + len]
      BY <3>1
    <3>3. i - 9 + len \in 1..Len(b)
      BY <1>0, <1>1, <3>1
    <3> QED BY <1>1, <3>2, <3>3
  <2>2. CASE i < 10 - len
    BY <1>0, <1>4, <2>2
  <2>3. CASE i = 10 - len
    BY <1>3, <2>3
  <2> QED BY <1>0, <2>1, <2>2, <2>3
<1>6. f \in Seq(Int) /\ Len(f) = 9
  <2>1. f = [i \in 1..9 |-> f[i]]
    OBVIOUS
  <2> HIDE DEF f, w
  <2>2. f \in [1..9 -> Int]
    BY <1>5, <2>1
  <2>3. 9 \in Nat
    OBVIOUS
  <2> QED BY <2>2, <2>3, FunctionIsSequence, Zenon
<1> HIDE DEF f
<1>7. ASSUME NEW i \in 2..9 PROVE w[i] = f[i]
  <2> DEFINE t == Tail(f)
  <2>1. Len(t) = Len(f) - 1 /\ \A k \in 1..Len(t) : t[k] = f[k + 1]
    <3>1. f # << >>
      <4>1. Len(f) # 0
        BY <1>6
      <4> QED BY <4>1, EmptySeq
    <3> QED BY <1>6, <3>1, HeadTailProperties
  <2> HIDE DEF t
  <2>2. i - 1 \in 1..8 /\ (i - 1) + 1 = i /\ Len(t) = 8
    BY <1>6, <2>1
  <2>3. w[i] = u[i - 1]
    BY <2>2, Wide
  <2> QED BY <1>2, <2>1, <2>2, <2>3 DEF t
<1>8. ASSUME NEW i \in 1..(9 - len) PROVE w[i] = 0
  <2>1. i = 1 => w[i] = 0
    BY Wide
  <2>2. i # 1 => i \in 2..9
    BY <1>0
  <2> QED BY <1>4, <1>7, <2>1, <2>2
<1>9. w[10 - len] < Room(len)
  <2>1. 10 - len \in 2..9
    BY <1>0
  <2> QED BY <1>3, <1>7, <2>1
<1> QED BY <1>8, <1>9 DEF Fits

\* encode_varint promises the minimum number of bytes (varint.rs): whatever bytes
\* decode_varint reads as an integer, they are no fewer than those encode_varint
\* writes for it.
THEOREM Shortest ==
    ASSUME NEW u \in U64, NEW b \in Seq(Byte), NEW rest, DecodeVarint(b) = Parsed(u, rest)
    PROVE  Len(EncodeVarint(u)) <= Len(b)
<1>1. PICK l \in Lengths : /\ Fits(u, l) /\ EncodeVarint(u) = InBytes(u, l)
                           /\ \A k \in Lengths : Fits(u, k) => l <= k
  BY ShortestFits
<1>2. Len(EncodeVarint(u)) = l /\ l \in 1..9
  <2>1. l \in 1..9
    BY SMT DEF Lengths
  <2> QED BY <1>1, <2>1, BytesOfForm
<1> DEFINE n == VarintByteLength(b[1])
<1>3. b # << >> /\ IntOf(n, b) = Parsed(u, rest)
  BY DEF DecodeVarint, Parsed, Failed
<1>4. b[1] \in Byte /\ Len(b) \in Nat
  <2>1. Len(b) \in Nat \ {0}
    BY <1>3, LenProperties, EmptySeq
  <2> QED BY <2>1, ElementOfSeq
<1>5. n \in Lengths \cup {0}
  <2>1. CASE b[1] \in {252, 253}
    <3>1. n \in {0, 9}
      BY <2>1, SMT DEF VarintByteLength, FormOf
    <3> QED BY <3>1, SMT DEF Lengths
  <2>2. CASE b[1] \notin {252, 253}
    BY <2>2, <1>4, SomeForm
  <2> QED BY <2>1, <2>2
<1> HIDE DEF n
<1>6. n # 0 /\ ~(n > Len(b)) /\ Unprefixed(b, n) = u
  BY <1>3 DEF IntOf, Parsed, Failed
<1>7. n \in 1..9 /\ n <= Len(b)
  <2>1. n \in 1..9
    BY <1>5, <1>6, SMT DEF Lengths
  <2> QED BY <2>1, <1>4, <1>6
<1>8. n = 9 \/ Fits(u, n)
  BY <1>5, <1>6, <1>7, ReadFits
<1> QED BY <1>1, <1>2, <1>4, <1>5, <1>6, <1>7, <1>8

\* Two functions that start alike and agree from one argument to the next agree
\* at the end.
LEMMA AgreeAtTheEnd ==
    ASSUME NEW n \in Nat, NEW f, NEW g, f[0] = g[0],
           \A i \in 1..n : f[i - 1] = g[i - 1] => f[i] = g[i]
    PROVE  f[n] = g[n]
<1> DEFINE Bad == {k \in 0..n : f[k] # g[k]}
<1>1. ASSUME Bad # {} PROVE FALSE
  <2>1. PICK k \in Bad : \A m \in Bad : k <= m
    <3>1. Bad \in SUBSET Nat
      OBVIOUS
    <3> HIDE DEF Bad
    <3> QED BY <1>1, <3>1, LeastNumber
  <2>2. k \in 0..n /\ f[k] # g[k]
    OBVIOUS
  <2>3. k \in 1..n /\ k - 1 \in 0..n /\ ~(k <= k - 1)
    BY <2>2
  <2>4. k - 1 \notin Bad
    BY <2>1, <2>3
  <2>5. f[k - 1] = g[k - 1]
    BY <2>3, <2>4
  <2> QED BY <2>2, <2>3, <2>5
<1>2. n \notin Bad /\ n \in 0..n
  BY <1>1
<1> QED BY <1>2

\* Appending to the second of two sequences.
LEMMA ConcatAppend ==
    ASSUME NEW E, NEW s \in Seq(E), NEW p \in Seq(E), NEW x \in E
    PROVE  s \o Append(p, x) = Append(s \o p, x)
  OBVIOUS

\* The flattening of one sequence after another.
LEMMA FlattenConcat ==
    ASSUME NEW S, NEW T, T = Seq(S)
    PROVE  \A s, t \in Seq(T) : FlattenSeq(s \o t) = FlattenSeq(s) \o FlattenSeq(t)
<1> SUFFICES ASSUME NEW s \in Seq(T), NEW t \in Seq(T)
             PROVE  FlattenSeq(s \o t) = FlattenSeq(s) \o FlattenSeq(t)
  OBVIOUS
<1> DEFINE n == Len(t)
           f == [k \in 0..n |-> FlattenSeq(s \o SubSeq(t, 1, k))]
           g == [k \in 0..n |-> FlattenSeq(s) \o FlattenSeq(SubSeq(t, 1, k))]
<1>1. n \in Nat /\ \A k \in 1..n : t[k] \in T
  BY LenProperties, ElementOfSeq
<1>2. \A q \in Seq(T) : FlattenSeq(q) \in T
  BY FlatTyped
<1>3. ASSUME NEW p \in Seq(T), NEW x \in T,
             FlattenSeq(s \o p) = FlattenSeq(s) \o FlattenSeq(p)
      PROVE  FlattenSeq(s \o Append(p, x)) = FlattenSeq(s) \o FlattenSeq(Append(p, x))
<2> DEFINE a == FlattenSeq(s)
           b == FlattenSeq(p)
<2>0. \A q \in Seq(T) : FlattenSeq(Append(q, x)) = FlattenSeq(q) \o x
  BY FlattenAppend
<2>1. s \o Append(p, x) = Append(s \o p, x)
  BY ConcatAppend
<2>2. s \o p \in Seq(T)
  OBVIOUS
<2>3. FlattenSeq(Append(s \o p, x)) = FlattenSeq(s \o p) \o x
  <3> DEFINE sp == s \o p
  <3>1. sp \in Seq(T)
    OBVIOUS
  <3> HIDE DEF sp
  <3>2. FlattenSeq(Append(sp, x)) = FlattenSeq(sp) \o x
    BY <2>0, <3>1, Zenon
  <3> QED BY <3>2 DEF sp
<2>4. FlattenSeq(Append(p, x)) = b \o x
  BY FlattenAppend
<2>5. a \in T /\ b \in T
  BY FlatTyped
<2> HIDE DEF a, b
<2>6. (a \o b) \o x = a \o (b \o x)
  BY <2>5, ConcatAssociative
<2> QED BY <1>3, <2>1, <2>3, <2>4, <2>6 DEF a, b
<1>4. f[0] = g[0]
  <2>1. SubSeq(t, 1, 0) = << >>
    BY SubSeqEmpty
  <2>2. s \o << >> = s
    BY ConcatEmptySeq
  <2>3. FlattenSeq(<< >>) = << >>
    BY DEF FlattenSeq
  <2>4. FlattenSeq(s) \o << >> = FlattenSeq(s)
    BY <1>2, ConcatEmptySeq
  <2>5. 0 \in 0..n
    BY <1>1
  <2> QED BY <2>1, <2>2, <2>3, <2>4, <2>5
<1>5. ASSUME NEW i \in 1..n, f[i - 1] = g[i - 1] PROVE f[i] = g[i]
  <2> DEFINE p == SubSeq(t, 1, i - 1)
             x == t[i]
  <2>1. i \in 0..n /\ i - 1 \in 0..n
    BY <1>1
  <2>2. x \in T /\ p \in Seq(T) /\ SubSeq(t, 1, i) = Append(p, x)
    <3>1. \A k \in 1..(i - 1) : t[k] \in T
      BY <1>1, <2>1
    <3>2. p \in Seq(T)
      BY <2>1, <3>1, SubSeqProperties
    <3>3. 1 \in 1..Len(t) /\ i \in 1..Len(t)
      BY <1>1
    <3>4. SubSeq(t, 1, i) = p \o <<x>>
      BY <3>3, SubSeqRecursiveSecond
    <3>5. x \in T
      BY <1>1, <3>3
    <3> HIDE DEF p, x
    <3>6. Append(p, x) = p \o <<x>>
      BY <3>2, <3>5, AppendIsConcat
    <3> QED BY <3>2, <3>4, <3>5, <3>6
  <2>3. f[i] = FlattenSeq(s \o SubSeq(t, 1, i))
    BY <2>1
  <2>4. g[i] = FlattenSeq(s) \o FlattenSeq(SubSeq(t, 1, i))
    BY <2>1
  <2>5. FlattenSeq(s \o p) = FlattenSeq(s) \o FlattenSeq(p)
    BY <1>5, <2>1
  <2> HIDE DEF f, g, p, x
  <2>6. p \in Seq(T) /\ x \in T
    BY <2>2
  <2>7. FlattenSeq(s \o Append(p, x)) = FlattenSeq(s) \o FlattenSeq(Append(p, x))
    BY <1>3, <2>5, <2>6, Zenon
  <2> QED BY <2>2, <2>3, <2>4, <2>7
<1>6. f[n] = g[n]
  <2> HIDE DEF f, g
  <2> QED BY <1>1, <1>4, <1>5, AgreeAtTheEnd
<1>7. f[n] = FlattenSeq(s \o SubSeq(t, 1, n)) /\ g[n] = FlattenSeq(s) \o FlattenSeq(SubSeq(t, 1, n))
  BY <1>1
<1>8. SubSeq(t, 1, n) = t
  BY SubSeqFull
<1> QED BY <1>6, <1>7, <1>8

-----------------------------------------------------------------------------
\* What is left of a flattened sequence after its first i elements.
Left(seqs, i) == FlattenSeq(SubSeq(seqs, i + 1, Len(seqs)))

\* One element more leaves less.
LEMMA LeftStep ==
    ASSUME NEW S, NEW T, T = Seq(S), NEW seqs \in Seq(T)
    PROVE  /\ \A i \in 0..Len(seqs) : Left(seqs, i) \in T
           /\ Left(seqs, 0) = FlattenSeq(seqs)
           /\ Left(seqs, Len(seqs)) = << >>
           /\ \A i \in 1..Len(seqs) : Left(seqs, i - 1) = seqs[i] \o Left(seqs, i)
<1> DEFINE n == Len(seqs)
<1>1. n \in Nat /\ \A k \in 1..n : seqs[k] \in T
  BY LenProperties, ElementOfSeq
<1>0. \A s, t \in Seq(T) : FlattenSeq(s \o t) = FlattenSeq(s) \o FlattenSeq(t)
  BY FlattenConcat
<1>2. ASSUME NEW i \in 0..n PROVE SubSeq(seqs, i + 1, n) \in Seq(T)
  <2>1. \A k \in (i + 1)..n : seqs[k] \in T
    BY <1>1
  <2>2. i + 1 \in Int /\ n \in Int
    BY <1>1
  <2> HIDE DEF n
  <2> QED BY <2>1, <2>2, SubSeqProperties
<1>3. ASSUME NEW i \in 0..n PROVE Left(seqs, i) \in T
  <2> DEFINE q == SubSeq(seqs, i + 1, n)
  <2>1. q \in Seq(T)
    BY <1>2
  <2> HIDE DEF q
  <2>2. FlattenSeq(q) \in T
    BY <2>1, FlatTyped
  <2> QED BY <2>2 DEF q, Left
<1>4. Left(seqs, 0) = FlattenSeq(seqs)
  <2>1. SubSeq(seqs, 0 + 1, n) = seqs
    BY SubSeqFull
  <2> QED BY <2>1 DEF Left
<1>5. Left(seqs, n) = << >>
  <2>1. SubSeq(seqs, n + 1, n) = << >>
    BY <1>1, SubSeqEmpty
  <2> QED BY <2>1 DEF Left, FlattenSeq
<1>6. ASSUME NEW i \in 1..n PROVE Left(seqs, i - 1) = seqs[i] \o Left(seqs, i)
  <2> DEFINE q == SubSeq(seqs, i + 1, n)
             z == <<seqs[i]>>
  <2>1. (i - 1) + 1 = i /\ i \in 0..n /\ i \in 1..n /\ n \in i..n
    BY <1>1
  <2>2. SubSeq(seqs, i, n) = z \o q
    BY <2>1, SubSeqRecursiveFirst
  <2>3. q \in Seq(T)
    BY <1>2, <2>1
  <2>4. z \in Seq(T) /\ FlattenSeq(z) = seqs[i]
    <3> DEFINE x == seqs[i]
               e == << >>
    <3>1. x \in T
      BY <1>1
    <3>2. e \in Seq(T) /\ FlattenSeq(e) = << >>
      BY EmptySeq DEF FlattenSeq
    <3> HIDE DEF x, e
    <3>3. <<x>> \in Seq(T) /\ Append(e, x) = <<x>>
      BY <3>1 DEF e
    <3>4. FlattenSeq(Append(e, x)) = FlattenSeq(e) \o x
      BY <3>1, <3>2, FlattenAppend
    <3>5. << >> \o x = x
      BY <3>1, ConcatEmptySeq
    <3> QED BY <3>2, <3>3, <3>4, <3>5 DEF x
  <2> HIDE DEF q, z
  <2>5. FlattenSeq(z \o q) = FlattenSeq(z) \o FlattenSeq(q)
    BY <1>0, <2>3, <2>4, Zenon
  <2> QED BY <2>1, <2>2, <2>4, <2>5 DEF Left, q
<1> QED BY <1>3, <1>4, <1>5, <1>6

-----------------------------------------------------------------------------
\* Sequences of bytes.
Octets == Seq(Byte)

\* What the proofs use of them.
LEMMA OctetFacts ==
    /\ << >> \in Octets
    /\ \A a \in Octets : a \o << >> = a /\ << >> \o a = a /\ Len(a) \in Nat
    /\ \A a \in Octets : a # << >> => Len(a) \in Nat \ {0}
    /\ \A a, b \in Octets : a \o b \in Octets /\ Len(a \o b) = Len(a) + Len(b)
    /\ \A a, b, c \in Octets : (a \o b) \o c = a \o (b \o c)
<1>1. << >> \in Octets
  BY DEF Octets
<1>2. \A a \in Octets : a \o << >> = a /\ << >> \o a = a /\ Len(a) \in Nat
  BY ConcatEmptySeq, LenProperties DEF Octets
<1>3. \A a \in Octets : a # << >> => Len(a) \in Nat \ {0}
  BY EmptySeq DEF Octets
<1>4. \A a, b \in Octets : a \o b \in Octets /\ Len(a \o b) = Len(a) + Len(b)
  BY ConcatProperties DEF Octets
<1>5. \A a, b, c \in Octets : (a \o b) \o c = a \o (b \o c)
  BY ConcatAssociative DEF Octets
<1> QED BY <1>1, <1>2, <1>3, <1>4, <1>5

\* Concatenation is associative.
LEMMA Regroup == \A a, b, c \in Octets : (a \o b) \o c = a \o (b \o c)
  BY OctetFacts

\* Where a reader of one value after the other is after each of them.
Progress(vals, encs, rest) ==
    [i \in 0..Len(vals) |-> Parsed(SubSeq(vals, 1, i), Left(encs, i) \o rest)]

\* It starts with nothing read, ends with everything, and reads one encoding at
\* a time.
Progresses(vals, encs, rest) ==
    LET p == Progress(vals, encs, rest)
    IN /\ p[0] = Parsed(<< >>, FlattenSeq(encs) \o rest)
       /\ p[Len(vals)] = Parsed(vals, rest)
       /\ \A i \in 1..Len(vals) : \E tail \in Octets :
            /\ p[i - 1] = Parsed(SubSeq(vals, 1, i - 1), encs[i] \o tail)
            /\ p[i] = Parsed(SubSeq(vals, 1, i - 1) \o <<vals[i]>>, tail)

\* It does.
LEMMA ProgressSteps ==
    ASSUME NEW V, NEW vals \in Seq(V), NEW encs \in Seq(Octets), Len(encs) = Len(vals),
           NEW rest \in Octets
    PROVE  Progresses(vals, encs, rest)
<1> DEFINE n == Len(vals)
           p == Progress(vals, encs, rest)
<1>1. /\ n \in Nat /\ DOMAIN p = 0..n
      /\ \A i \in 0..n : p[i] = Parsed(SubSeq(vals, 1, i), Left(encs, i) \o rest)
  BY LenProperties DEF Progress
<1>2. /\ \A i \in 0..n : Left(encs, i) \in Octets
      /\ Left(encs, 0) = FlattenSeq(encs)
      /\ Left(encs, n) = << >>
      /\ \A i \in 1..n : Left(encs, i - 1) = encs[i] \o Left(encs, i)
      /\ \A i \in 1..n : encs[i] \in Octets
  <2> DEFINE m == Len(encs)
  <2>1. /\ \A i \in 0..m : Left(encs, i) \in Octets
        /\ Left(encs, 0) = FlattenSeq(encs)
        /\ Left(encs, m) = << >>
        /\ \A i \in 1..m : Left(encs, i - 1) = encs[i] \o Left(encs, i)
    <3>1. Octets = Seq(Byte)
      BY DEF Octets
    <3> QED BY <3>1, LeftStep
  <2>2. \A i \in 1..m : encs[i] \in Octets
    BY ElementOfSeq
  <2> QED BY <2>1, <2>2
<1>3. p[0] = Parsed(<< >>, FlattenSeq(encs) \o rest)
  <2>1. SubSeq(vals, 1, 0) = << >>
    BY SubSeqEmpty
  <2>2. 0 \in 0..n
    BY <1>1
  <2>3. p[0] = Parsed(SubSeq(vals, 1, 0), Left(encs, 0) \o rest)
    BY <1>1, <2>2
  <2> QED BY <1>2, <2>1, <2>3
<1>4. p[n] = Parsed(vals, rest)
  <2>1. SubSeq(vals, 1, n) = vals
    BY SubSeqFull
  <2>2. << >> \o rest = rest
    BY OctetFacts
  <2>3. n \in 0..n
    BY <1>1
  <2>4. p[n] = Parsed(SubSeq(vals, 1, n), Left(encs, n) \o rest)
    BY <1>1, <2>3
  <2> QED BY <1>2, <2>1, <2>2, <2>4
<1>5. ASSUME NEW i \in 1..n
      PROVE  \E tail \in Octets :
               /\ p[i - 1] = Parsed(SubSeq(vals, 1, i - 1), encs[i] \o tail)
               /\ p[i] = Parsed(SubSeq(vals, 1, i - 1) \o <<vals[i]>>, tail)
  <2> DEFINE tail == Left(encs, i) \o rest
  <2>1. i \in 0..n /\ i - 1 \in 0..n /\ 1 \in 1..Len(vals) /\ i \in 1..Len(vals)
    BY <1>1
  <2>2. tail \in Octets
    BY <1>2, <2>1, OctetFacts
  <2>3. p[i - 1] = Parsed(SubSeq(vals, 1, i - 1), encs[i] \o tail)
    <3>1. (encs[i] \o Left(encs, i)) \o rest = encs[i] \o tail
      <4> DEFINE a == encs[i]
                 b == Left(encs, i)
      <4>1. a \in Octets /\ b \in Octets
        BY <1>2, <2>1
      <4> HIDE DEF a, b
      <4>2. (a \o b) \o rest = a \o (b \o rest)
        BY <4>1, Regroup, Zenon
      <4> QED BY <4>2 DEF a, b
    <3> QED BY <1>1, <1>2, <2>1, <3>1
  <2>4. SubSeq(vals, 1, i) = SubSeq(vals, 1, i - 1) \o <<vals[i]>>
    BY <2>1, SubSeqRecursiveSecond
  <2>5. p[i] = Parsed(SubSeq(vals, 1, i - 1) \o <<vals[i]>>, tail)
    BY <1>1, <2>1, <2>4
  <2> HIDE DEF p, tail
  <2> QED BY <2>2, <2>3, <2>5
<1> QED BY <1>3, <1>4, <1>5 DEF Progresses

-----------------------------------------------------------------------------
\* Integers one after the other

\* An integer takes one to nine bytes.
LEMMA VarintBytes ==
    ASSUME NEW u \in U64
    PROVE  EncodeVarint(u) \in Octets /\ Len(EncodeVarint(u)) \in 1..9
<1>1. PICK len \in Lengths : Fits(u, len) /\ EncodeVarint(u) = InBytes(u, len)
  BY ShortestFits
<1>2. InBytes(u, len) \in Seq(Byte) /\ Len(InBytes(u, len)) = len
  BY <1>1, BytesOfForm
<1>3. len \in 1..9
  BY SMT DEF Lengths
<1> QED BY <1>1, <1>2, <1>3 DEF Octets

\* The same of these bytes.
LEMMA ReadVarint ==
    \A u \in U64 : \A rest \in Octets : DecodeVarint(EncodeVarint(u) \o rest) = Parsed(u, rest)
  BY VarintRoundTrip DEF Octets

\* What is parsed.
LEMMA ParsedFields ==
    \A v, r : Parsed(v, r).ok = TRUE /\ Parsed(v, r).value = v /\ Parsed(v, r).rest = r
  BY DEF Parsed

\* One step of DecodeInts.
IntStep(r) ==
    IF r.ok THEN IF One(DecodeVarint(r.rest)).ok
                 THEN Parsed(r.value \o One(DecodeVarint(r.rest)).value,
                             One(DecodeVarint(r.rest)).rest)
                 ELSE Failed
            ELSE Failed

\* The encodings of the elements.
LEMMA IntEncodings ==
    ASSUME NEW us \in Seq(U64)
    PROVE  /\ [i \in DOMAIN us |-> EncodeVarint(us[i])] \in Seq(Octets)
           /\ Len([i \in DOMAIN us |-> EncodeVarint(us[i])]) = Len(us)
<1> DEFINE n == Len(us)
           f == [i \in 1..n |-> EncodeVarint(us[i])]
<1>1. n \in Nat /\ DOMAIN us = 1..n /\ \A i \in 1..n : us[i] \in U64
  BY LenProperties, ElementOfSeq
<1>2. f \in [1..n -> Octets]
  BY <1>1, VarintBytes
<1> HIDE DEF n
<1>3. f \in Seq(Octets) /\ Len(f) = n
  BY <1>1, <1>2, FunctionIsSequence
<1> QED BY <1>1, <1>3 DEF n

\* Integers are read back one after the other.
LEMMA ReadInts ==
    ASSUME NEW us \in Seq(U64), NEW rest \in Octets
    PROVE  /\ EncodeInts(us) \in Octets
           /\ DecodeInts(Len(us), EncodeInts(us) \o rest) = Parsed(us, rest)
<1> DEFINE n == Len(us)
           encs == [i \in DOMAIN us |-> EncodeVarint(us[i])]
           buf == EncodeInts(us) \o rest
           g == Progress(us, encs, rest)
           Run(a) == a = [i \in 0..n |-> IF i = 0 THEN Parsed(<< >>, buf) ELSE IntStep(a[i - 1])]
           c == CHOOSE a : Run(a)
<1>1. n \in Nat /\ DOMAIN us = 1..n /\ \A i \in 1..n : us[i] \in U64
  BY LenProperties, ElementOfSeq
<1>2. encs \in Seq(Octets) /\ Len(encs) = n
  BY IntEncodings
<1>3. EncodeInts(us) = FlattenSeq(encs)
  BY DEF EncodeInts
<1>4. \A i \in 1..n : encs[i] = EncodeVarint(us[i])
  BY <1>1
<1>5. DecodeInts(n, buf) = c[n]
  BY DEF DecodeInts, Repeat, Then, IntStep
<1> HIDE DEF encs
<1>6. /\ g[0] = Parsed(<< >>, FlattenSeq(encs) \o rest)
      /\ g[n] = Parsed(us, rest)
      /\ \A i \in 1..n : \E tail \in Octets :
           /\ g[i - 1] = Parsed(SubSeq(us, 1, i - 1), encs[i] \o tail)
           /\ g[i] = Parsed(SubSeq(us, 1, i - 1) \o <<us[i]>>, tail)
  <2>1. Progresses(us, encs, rest)
    BY <1>2, ProgressSteps
  <2> QED BY <2>1 DEF Progresses
<1>7. g = [i \in 0..n |-> g[i]]
  BY DEF Progress
<1> HIDE DEF g, n
<1>8. ASSUME NEW i \in 1..n PROVE g[i] = IntStep(g[i - 1])
  <2>1. PICK tail \in Octets : /\ g[i - 1] = Parsed(SubSeq(us, 1, i - 1), encs[i] \o tail)
                               /\ g[i] = Parsed(SubSeq(us, 1, i - 1) \o <<us[i]>>, tail)
    BY <1>6
  <2>2. DecodeVarint(encs[i] \o tail) = Parsed(us[i], tail)
    BY <1>1, <1>4, ReadVarint
  <2>3. One(DecodeVarint(encs[i] \o tail)) = Parsed(<<us[i]>>, tail)
    BY <2>2, ParsedFields DEF One, Then
  <2> QED BY <2>1, <2>3, ParsedFields DEF IntStep
<1>9. Run(g)
  BY <1>1, <1>3, <1>6, <1>7, <1>8
<1>10. Run(c)
  BY <1>9
<1> HIDE DEF c, buf
<1>11. c[0] = g[0] /\ \A i \in 1..n : c[i - 1] = g[i - 1] => c[i] = g[i]
  BY <1>1, <1>3, <1>6, <1>8, <1>10 DEF buf
<1>12. c[n] = g[n]
  BY <1>1, <1>11, AgreeAtTheEnd
<1>13. EncodeInts(us) \in Octets
  <2>1. Octets = Seq(Byte)
    BY DEF Octets
  <2> QED BY <1>2, <1>3, <2>1, FlatTyped
<1> QED BY <1>5, <1>6, <1>12, <1>13 DEF buf, n

-----------------------------------------------------------------------------
\* Lengths, and that many bytes

\* Numbers of three bytes.
LEMMA ThreeBytes ==
    ASSUME NEW n \in Nat, n < Huge
    PROVE  U(n) \in U64 /\ Num(U(n)) = n
<1>1. 2^24 = 16777216 /\ 2^16 = 65536
  BY SMT
<1>2. n < 16777216
  BY <1>1, SMT DEF Huge
<1>3. n \div 16777216 = 0
  BY <1>2, SMT
<1> DEFINE q == n \div 65536
           p == n \div 256
<1>4. q \in 0..255 /\ q = p \div 256 /\ p \in Nat
  BY <1>2, SMT
<1>5. U(n) = <<0, 0, 0, 0, 0, q % 256, p % 256, n % 256>>
  BY <1>1, <1>3, SMT DEF U
<1> DEFINE x == p % 256
           y == n % 256
<1>6. q % 256 = q
  <2> HIDE DEF q
  <2> QED BY <1>4, SMT
<1>7. x \in 0..255 /\ y \in 0..255 /\ x = p - 256 * q /\ y = n - 256 * p
  BY <1>4, SMT
<1> HIDE DEF q, p, x, y
<1> DEFINE u == <<0, 0, 0, 0, 0, q, x, y>>
<1>8. U(n) = u
  BY <1>5, <1>6 DEF x, y
<1>9. u \in U64
  <2>1. ASSUME NEW a \in Byte, NEW b \in Byte, NEW c \in Byte, 0 \in Byte
        PROVE  <<0, 0, 0, 0, 0, a, b, c>> \in [1..8 -> Byte]
    BY <2>1
  <2>2. q \in Byte /\ x \in Byte /\ y \in Byte /\ 0 \in Byte
    BY <1>4, <1>7, SMT DEF Byte
  <2> QED BY <2>1, <2>2 DEF U64
<1>10. /\ u[1] = 0 /\ u[2] = 0 /\ u[3] = 0 /\ u[4] = 0 /\ u[5] = 0
       /\ u[6] = q /\ u[7] = x /\ u[8] = y
  OBVIOUS
<1> HIDE DEF u
<1>11. Num(u) = u[6] * 2^16 + u[7] * 256 + u[8]
  <2>1. \A i \in 1..5 : u[i] = 0
    BY <1>10
  <2> QED BY <2>1 DEF Num
<1>12. q * 65536 + x * 256 + y = n
  BY <1>4, <1>7, SMT
<1> QED BY <1>1, <1>8, <1>9, <1>10, <1>11, <1>12, SMT

\* Of two sequences, the first is taken and the second left.
LEMMA TakeFirst ==
    ASSUME NEW a \in Octets, NEW b \in Octets
    PROVE  Take(Len(a), a \o b) = Parsed(a, b)
<1> DEFINE m == Len(a)
           ab == a \o b
<1>1. m \in Nat /\ Len(b) \in Nat /\ Len(ab) = m + Len(b) /\ a \in Seq(Byte) /\ b \in Seq(Byte)
  BY OctetFacts DEF Octets
<1>2. ~(m > Len(ab))
  BY <1>1
<1>3. SubSeq(ab, 1, m) = a
  <2>1. CASE m = 0
    <3>1. SubSeq(ab, 1, 0) = << >>
      BY SubSeqEmpty
    <3>2. a = << >>
      BY <1>1, <2>1, EmptySeq
    <3> QED BY <2>1, <3>1, <3>2
  <2>2. CASE m # 0
    <3>1. 1 \in 1..m /\ m \in 1..m
      BY <1>1, <2>2
    <3>2. SubSeq(ab, 1, m) = SubSeq(a, 1, m)
      BY <1>1, <3>1, SubSeqOfConcat1
    <3> QED BY <1>1, <3>2, SubSeqFull
  <2> QED BY <2>1, <2>2
<1>4. From(ab, m + 1) = b
  BY <1>1, FromConcat
<1> QED BY <1>2, <1>3, <1>4 DEF Take

\* Bytes behind their length.
LEMMA ReadBytes ==
    ASSUME NEW b \in Octets, Len(b) < Huge, NEW max \in Nat, Len(b) <= max, NEW rest \in Octets
    PROVE  EncodeBytes(b) \in Octets /\ DecodeBytes(max, EncodeBytes(b) \o rest) = Parsed(b, rest)
<1> DEFINE n == Len(b)
           e == EncodeVarint(U(n))
<1>1. n \in Nat /\ b \o rest \in Octets
  BY OctetFacts
<1>2. U(n) \in U64 /\ Num(U(n)) = n
  BY <1>1, ThreeBytes
<1>3. e \in Octets
  BY <1>2, VarintBytes
<1>4. EncodeBytes(b) = e \o b
  BY DEF EncodeBytes
<1>5. DecodeVarint(e \o (b \o rest)) = Parsed(U(n), b \o rest)
  BY <1>1, <1>2, ReadVarint
<1> HIDE DEF e
<1>6. (e \o b) \o rest = e \o (b \o rest) /\ e \o b \in Octets
  BY <1>3, OctetFacts
<1>7. Take(n, b \o rest) = Parsed(b, rest)
  BY TakeFirst
<1> HIDE DEF n
<1>8. DecodeBytes(max, EncodeBytes(b) \o rest) =
        IF Num(U(n)) > max THEN Failed ELSE Take(Num(U(n)), b \o rest)
  BY <1>4, <1>5, <1>6, ParsedFields DEF DecodeBytes, Then
<1>9. ~(Num(U(n)) > max)
  BY <1>1, <1>2 DEF n
<1> QED BY <1>2, <1>4, <1>6, <1>7, <1>8, <1>9

\* The bound of the lengths.
LEMMA HugeIsNumber == Huge \in Nat /\ 0 < Huge
<1>1. 2^24 = 16777216
  BY SMT
<1> QED BY <1>1, SMT DEF Huge

-----------------------------------------------------------------------------
\* Track namespaces

\* A field of a namespace.
ReadField(buf) ==
    Then(DecodeBytes(Huge, buf), LAMBDA field, rest :
         IF field = << >> THEN Failed ELSE Parsed(<<field>>, rest))

\* One step of the reading of a namespace, and as many as there are fields.
FieldStep(r) ==
    IF r.ok THEN IF ReadField(r.rest).ok
                 THEN Parsed(r.value \o ReadField(r.rest).value, ReadField(r.rest).rest)
                 ELSE Failed
            ELSE Failed

FieldRun(n, buf) ==
    (CHOOSE a : a = [i \in 0..n |->
                      IF i = 0 THEN Parsed(<< >>, buf) ELSE FieldStep(a[i - 1])])[n]

\* What decode_track_namespace computes.
LEMMA NamespaceUnfolded ==
    ASSUME NEW u, NEW buf, NEW rest, DecodeVarint(buf) = Parsed(u, rest)
    PROVE  DecodeTrackNamespace(buf) = IF Num(u) > MaxFields THEN Failed ELSE FieldRun(Num(u), rest)
<1>1. DecodeTrackNamespace(buf) =
        IF DecodeVarint(buf).ok
        THEN IF Num(DecodeVarint(buf).value) > MaxFields THEN Failed
             ELSE FieldRun(Num(DecodeVarint(buf).value), DecodeVarint(buf).rest)
        ELSE Failed
  BY DEF DecodeTrackNamespace, Then, Repeat, FieldRun, FieldStep, ReadField
<1> QED BY <1>1, ParsedFields

\* Namespaces whose fields have a length that can be written.
Namespaces == {ns \in Seq(Octets) : \A i \in DOMAIN ns : Len(ns[i]) < Huge}

\* A namespace that is encoded is read back, whatever follows it.
LEMMA ReadNamespace ==
    ASSUME NEW ns \in Namespaces, NamespaceEncodable(ns), MaxFields < Huge, NEW rest \in Octets
    PROVE  /\ EncodeTrackNamespace(ns) \in Octets
           /\ DecodeTrackNamespace(EncodeTrackNamespace(ns) \o rest) = Parsed(ns, rest)
<1> DEFINE n == Len(ns)
           encs == [i \in DOMAIN ns |-> EncodeBytes(ns[i])]
           flat == FlattenSeq(encs)
           buf == flat \o rest
           g == Progress(ns, encs, rest)
           Run(a) == a = [i \in 0..n |->
                            IF i = 0 THEN Parsed(<< >>, buf) ELSE FieldStep(a[i - 1])]
           c == CHOOSE a : Run(a)
<1>1. /\ n \in Nat /\ DOMAIN ns = 1..n /\ ns \in Seq(Octets)
      /\ \A i \in 1..n : ns[i] \in Octets /\ Len(ns[i]) < Huge /\ ns[i] # << >>
      /\ n <= MaxFields
  BY LenProperties, ElementOfSeq DEF Namespaces, NamespaceEncodable
<1>2. \A i \in 1..n : encs[i] = EncodeBytes(ns[i])
  BY <1>1
<1>3. ASSUME NEW i \in 1..n, NEW tail \in Octets
      PROVE  /\ EncodeBytes(ns[i]) \in Octets
             /\ DecodeBytes(Huge, EncodeBytes(ns[i]) \o tail) = Parsed(ns[i], tail)
  <2>1. Len(ns[i]) < Huge /\ Len(ns[i]) <= Huge /\ Huge \in Nat /\ ns[i] \in Octets
    BY <1>1, HugeIsNumber, OctetFacts
  <2> QED BY <2>1, ReadBytes
<1>4. encs \in Seq(Octets) /\ Len(encs) = n
  <2>1. encs = [i \in 1..n |-> EncodeBytes(ns[i])]
    BY <1>1
  <2>2. << >> \in Octets
    BY OctetFacts
  <2>3. \A i \in 1..n : EncodeBytes(ns[i]) \in Octets
    BY <1>3, <2>2
  <2> HIDE DEF n, encs
  <2>4. encs \in [1..n -> Octets]
    BY <2>1, <2>3
  <2> QED BY <1>1, <2>4, FunctionIsSequence
<1>5. FieldRun(n, buf) = c[n]
  BY DEF FieldRun
<1> HIDE DEF encs
<1>6. /\ g[0] = Parsed(<< >>, buf)
      /\ g[n] = Parsed(ns, rest)
      /\ \A i \in 1..n : \E tail \in Octets :
           /\ g[i - 1] = Parsed(SubSeq(ns, 1, i - 1), encs[i] \o tail)
           /\ g[i] = Parsed(SubSeq(ns, 1, i - 1) \o <<ns[i]>>, tail)
  <2>1. Len(encs) = Len(ns)
    BY <1>4
  <2>2. encs \in Seq(Octets) /\ ns \in Seq(Octets)
    BY <1>1, <1>4
  <2>3. Progresses(ns, encs, rest)
    BY <2>1, <2>2, ProgressSteps
  <2> QED BY <2>3 DEF Progresses
<1>7. g = [i \in 0..n |-> g[i]]
  BY DEF Progress
<1> HIDE DEF g, n
<1>8. ASSUME NEW i \in 1..n PROVE g[i] = FieldStep(g[i - 1])
  <2>1. PICK tail \in Octets : /\ g[i - 1] = Parsed(SubSeq(ns, 1, i - 1), encs[i] \o tail)
                               /\ g[i] = Parsed(SubSeq(ns, 1, i - 1) \o <<ns[i]>>, tail)
    BY <1>6
  <2>2. DecodeBytes(Huge, encs[i] \o tail) = Parsed(ns[i], tail) /\ ns[i] # << >>
    BY <1>1, <1>2, <1>3
  <2>3. ReadField(encs[i] \o tail) = Parsed(<<ns[i]>>, tail)
    BY <2>2, ParsedFields DEF ReadField, Then
  <2> QED BY <2>1, <2>3, ParsedFields DEF FieldStep
<1> HIDE DEF buf
<1>9. Run(g)
  <2>1. n \in Nat
    BY <1>1
  <2> QED BY <1>6, <1>7, <1>8, <2>1
<1>10. Run(c)
  BY <1>9
<1> HIDE DEF c
<1>11. c[0] = g[0] /\ \A i \in 1..n : c[i - 1] = g[i - 1] => c[i] = g[i]
  BY <1>1, <1>6, <1>8, <1>10
<1>12. c[n] = g[n]
  BY <1>1, <1>11, AgreeAtTheEnd
<1>13. flat \in Octets
  <2>1. Octets = Seq(Byte)
    BY DEF Octets
  <2> QED BY <1>4, <2>1, FlatTyped
<1> DEFINE e == EncodeVarint(U(n))
<1>14. U(n) \in U64 /\ Num(U(n)) = n /\ e \in Octets
  <2>1. n < Huge
    BY <1>1, HugeIsNumber, LimitAssumption
  <2> QED BY <1>1, <2>1, ThreeBytes, VarintBytes
<1>15. EncodeTrackNamespace(ns) = e \o flat
  BY DEF EncodeTrackNamespace, encs, n
<1> HIDE DEF e, flat
<1>16. (e \o flat) \o rest = e \o buf /\ buf \in Octets /\ e \o flat \in Octets
  BY <1>13, <1>14, OctetFacts DEF buf
<1>17. DecodeVarint(e \o buf) = Parsed(U(n), buf)
  BY <1>14, <1>16, ReadVarint DEF e
<1>18. DecodeTrackNamespace(e \o buf) =
         IF Num(U(n)) > MaxFields THEN Failed
         ELSE FieldRun(Num(U(n)), buf)
  BY <1>17, NamespaceUnfolded
<1>19. ~(Num(U(n)) > MaxFields)
  BY <1>1, <1>14, LimitAssumption
<1> QED BY <1>5, <1>6, <1>12, <1>14, <1>15, <1>16, <1>18, <1>19

\* What is not empty is at least as long as it has parts.
LEMMA LongEnough ==
    ASSUME NEW encs \in Seq(Octets), \A i \in 1..Len(encs) : encs[i] # << >>
    PROVE  FlattenSeq(encs) \in Octets /\ Len(encs) <= Len(FlattenSeq(encs))
<1> DEFINE n == Len(encs)
           len(i) == Len(Left(encs, i))
           Bad == {i \in 0..n : ~(n - i <= len(i))}
<1>1. n \in Nat
  BY LenProperties
<1>2. /\ \A i \in 0..n : Left(encs, i) \in Octets
      /\ Left(encs, 0) = FlattenSeq(encs)
      /\ Left(encs, n) = << >>
      /\ \A i \in 1..n : Left(encs, i - 1) = encs[i] \o Left(encs, i)
  <2>1. Octets = Seq(Byte)
    BY DEF Octets
  <2> QED BY <2>1, LeftStep
<1>3. \A i \in 1..n : encs[i] \in Octets
  BY ElementOfSeq
<1>4. Len(<< >>) = 0
  BY EmptySeq
<1> HIDE DEF n
<1>5. ASSUME Bad # {} PROVE FALSE
  <2>1. PICK k \in Bad : \A j \in Bad : j <= k
    <3>1. Bad \in SUBSET (0..n)
      OBVIOUS
    <3> HIDE DEF Bad
    <3> QED BY <1>1, <1>5, <3>1, GreatestNumber
  <2>2. k \in 0..n /\ ~(n - k <= len(k))
    OBVIOUS
  <2>3. k # n
    BY <1>1, <1>2, <1>4, <2>2
  <2>4. k + 1 \in 1..n /\ k + 1 \in 0..n /\ (k + 1) - 1 = k /\ ~(k + 1 <= k)
    BY <1>1, <2>2, <2>3
  <2>5. n - (k + 1) <= len(k + 1)
    BY <2>1, <2>4
  <2> DEFINE a == encs[k + 1]
             b == Left(encs, k + 1)
  <2>6. a \in Octets /\ b \in Octets /\ a # << >> /\ Left(encs, k) = a \o b
    BY <1>2, <1>3, <2>4 DEF n
  <2>7. n - (k + 1) <= Len(b)
    BY <2>5
  <2> HIDE DEF a, b
  <2>8. Len(a \o b) = Len(a) + Len(b) /\ Len(a) \in Nat \ {0} /\ Len(b) \in Nat
    BY <2>6, OctetFacts
  <2>9. n - k <= Len(a \o b)
    BY <1>1, <2>2, <2>7, <2>8
  <2> QED BY <2>2, <2>6, <2>9
<1>6. 0 \in 0..n /\ 0 \notin Bad
  BY <1>1, <1>5
<1>7. n - 0 <= len(0)
  BY <1>6
<1> QED BY <1>1, <1>2, <1>6, <1>7 DEF n

-----------------------------------------------------------------------------
\* Parameters

\* The parameters this implementation writes.
KeptParameter ==
    {[type |-> PARAM_SUBSCRIPTION_FILTER, value |-> <<U(1)>>]}
    \cup {[type |-> PARAM_LARGEST_OBJECT, value |-> v] : v \in [1..2 -> U64]}
    \cup {[type |-> PARAM_FORWARD, value |-> v] : v \in {o \in Octets : Len(o) = 1}}

\* The number of the filter "next group start".
LEMMA OneIsSmall == U(1) \in U64 /\ Num(U(1)) = 1
<1>1. 2^24 = 16777216
  BY SMT
<1>2. 1 < Huge
  BY <1>1, SMT DEF Huge
<1> QED BY <1>2, ThreeBytes

\* What EncodeInts writes for one integer.
LEMMA EncodeOne ==
    ASSUME NEW u \in U64
    PROVE  <<u>> \in Seq(U64) /\ Len(<<u>>) = 1 /\ EncodeInts(<<u>>) = EncodeVarint(u)
<1> DEFINE us == <<u>>
           encs == [i \in DOMAIN us |-> EncodeVarint(us[i])]
           e == EncodeVarint(u)
           none == << >>
<1>1. us \in Seq(U64) /\ Len(us) = 1 /\ DOMAIN us = 1..1 /\ us[1] = u
  OBVIOUS
<1>2. encs \in Seq(Octets) /\ Len(encs) = 1 /\ encs[1] = e
  <2> HIDE DEF us
  <2>1. encs \in Seq(Octets) /\ Len(encs) = 1
    BY <1>1, IntEncodings
  <2>2. 1 \in DOMAIN us
    BY <1>1
  <2> QED BY <1>1, <2>1, <2>2
<1>3. e \in Octets
  BY VarintBytes
<1>4. none \in Seq(Octets) /\ FlattenSeq(none) = << >>
  BY EmptySeq DEF FlattenSeq
<1> HIDE DEF encs, e, none, us
<1>5. encs = Append(none, e)
  BY <1>2, <1>3 DEF none
<1>6. FlattenSeq(Append(none, e)) = FlattenSeq(none) \o e
  <2>1. Octets = Seq(Byte)
    BY DEF Octets
  <2> QED BY <1>3, <1>4, <2>1, FlattenAppend
<1>7. << >> \o e = e
  BY <1>3, OctetFacts
<1> QED BY <1>1, <1>4, <1>5, <1>6, <1>7 DEF EncodeInts, encs, us, e

\* The filter "from the next group on".
LEMMA ReadFilter ==
    ASSUME NEW rest \in Octets
    PROVE  /\ EncodeBytes(EncodeInts(<<U(1)>>)) \in Octets
           /\ DecodeFilter(EncodeBytes(EncodeInts(<<U(1)>>)) \o rest) = Parsed(<<U(1)>>, rest)
<1> DEFINE u == U(1)
           e == EncodeVarint(u)
           buf == EncodeBytes(e) \o rest
           none == << >>
<1>1. u \in U64 /\ Num(u) = 1
  BY OneIsSmall
<1> HIDE DEF u
<1>2. EncodeInts(<<u>>) = e /\ <<u>> \in Seq(U64) /\ Len(<<u>>) = 1
  BY <1>1, EncodeOne
<1>3. e \in Octets /\ Len(e) \in 1..9
  BY <1>1, VarintBytes
<1>4. DecodeBytes(Huge, buf) = Parsed(e, rest) /\ EncodeBytes(e) \in Octets
  <2>1. 2^24 = 16777216
    BY SMT
  <2>2. Huge \in Nat /\ 9 < Huge
    BY <2>1, SMT DEF Huge
  <2>3. Len(e) < Huge /\ Len(e) <= Huge
    <3>1. \A l \in 1..9 : l < Huge /\ l <= Huge
      BY <2>2
    <3> HIDE DEF e
    <3> QED BY <1>3, <3>1, Zenon
  <2> QED BY <1>3, <2>2, <2>3, ReadBytes
<1>5. none \in Octets /\ e \o none = e
  BY <1>3, OctetFacts
<1> HIDE DEF none
<1>6. DecodeVarint(e) = Parsed(u, none)
  BY <1>1, <1>5, ReadVarint
<1>7. DecodeInts(1, e) = Parsed(<<u>>, none)
  <2>1. DecodeInts(Len(<<u>>), EncodeInts(<<u>>) \o none) = Parsed(<<u>>, none)
    BY <1>2, <1>5, ReadInts
  <2> QED BY <1>2, <1>5, <2>1
<1> HIDE DEF e, buf
<1> DEFINE Ints(type, payload) ==
             IF type \in 1..4 THEN DecodeInts(FilterLength[type], payload) ELSE Failed
<1>8. DecodeFilter(buf) =
        LET d == DecodeBytes(Huge, buf)
            r == DecodeVarint(d.value)
            s == IF r.ok THEN Ints(Num(r.value), d.value) ELSE Failed
        IN IF d.ok THEN IF s.ok THEN Parsed(s.value, d.rest) ELSE Failed ELSE Failed
  BY DEF DecodeFilter, Then
<1>9. FilterLength[1] = 1
  BY DEF FilterLength
<1>10. Ints(1, e) = Parsed(<<u>>, none)
  BY <1>7, <1>9
<1> HIDE DEF Ints
<1>11. DecodeFilter(buf) = Parsed(<<u>>, rest)
  BY <1>1, <1>4, <1>6, <1>8, <1>10, ParsedFields
<1> QED BY <1>2, <1>4, <1>11 DEF u, e, buf

\* The value of each of them.
LEMMA ReadParameterValue ==
    ASSUME NEW p \in KeptParameter, NEW rest \in Octets
    PROVE  /\ EncodeParameterValue(p) \in Octets
           /\ DecodeParameterValue(p.type, EncodeParameterValue(p) \o rest) = Parsed(p.value, rest)
<1> USE DEF PARAM_SUBSCRIPTION_FILTER, PARAM_LARGEST_OBJECT, PARAM_FORWARD
<1>1. CASE p = [type |-> 33, value |-> <<U(1)>>]
  <2> DEFINE v == <<U(1)>>
             e == EncodeBytes(EncodeInts(v))
  <2>1. p.type = 33 /\ p.value = v
    BY <1>1
  <2>2. e \in Octets /\ DecodeFilter(e \o rest) = Parsed(v, rest)
    BY ReadFilter
  <2> HIDE DEF v
  <2>3. EncodeParameterValue(p) = e
    BY <2>1 DEF EncodeParameterValue
  <2>4. DecodeParameterValue(33, e \o rest) = DecodeFilter(e \o rest)
    BY DEF DecodeParameterValue
  <2> QED BY <2>1, <2>2, <2>3, <2>4
<1>2. ASSUME NEW v \in [1..2 -> U64], p = [type |-> 9, value |-> v]
      PROVE  /\ EncodeParameterValue(p) \in Octets
             /\ DecodeParameterValue(p.type, EncodeParameterValue(p) \o rest) =
                  Parsed(p.value, rest)
  <2> DEFINE e == EncodeInts(v)
  <2>1. p.type = 9 /\ p.value = v
    BY <1>2
  <2>2. v \in Seq(U64) /\ Len(v) = 2
    BY FunctionIsSequence
  <2>3. e \in Octets /\ DecodeInts(2, e \o rest) = Parsed(v, rest)
    BY <2>2, ReadInts
  <2>4. EncodeParameterValue(p) = e
    BY <2>1 DEF EncodeParameterValue
  <2> HIDE DEF e
  <2>5. DecodeParameterValue(9, e \o rest) = DecodeInts(2, e \o rest)
    BY DEF DecodeParameterValue
  <2> QED BY <2>1, <2>3, <2>4, <2>5
<1>3. ASSUME NEW v \in Octets, Len(v) = 1, p = [type |-> 16, value |-> v]
      PROVE  /\ EncodeParameterValue(p) \in Octets
             /\ DecodeParameterValue(p.type, EncodeParameterValue(p) \o rest) =
                  Parsed(p.value, rest)
  <2>1. p.type = 16 /\ p.value = v
    BY <1>3
  <2>2. Take(1, v \o rest) = Parsed(v, rest)
    BY <1>3, TakeFirst
  <2>3. EncodeParameterValue(p) = v
    BY <2>1 DEF EncodeParameterValue
  <2>4. DecodeParameterValue(16, v \o rest) = Take(1, v \o rest)
    BY DEF DecodeParameterValue
  <2> QED BY <2>1, <2>2, <2>3, <2>4
<1> QED BY <1>1, <1>2, <1>3 DEF KeptParameter

\* Types are numbers, and the difference to the type before can be written.
LEMMA DeltaIsSmall ==
    ASSUME NEW E, \A p \in E : p.type \in Nat /\ p.type < Huge,
           NEW list \in Seq(E), Ascending(list), NEW i \in 1..Len(list)
    PROVE  /\ Delta(list, i) \in Nat /\ Delta(list, i) < Huge
           /\ LastType(SubSeq(list, 1, i - 1)) + Delta(list, i) = list[i].type
<1>1. Len(list) \in Nat /\ DOMAIN list = 1..Len(list) /\ \A k \in 1..Len(list) : list[k] \in E
  BY LenProperties, ElementOfSeq
<1> DEFINE before == SubSeq(list, 1, i - 1)
           t == list[i].type
           l == LastType(before)
<1>2. l \in Nat
  <2>1. CASE before = << >>
    BY <2>1 DEF LastType
  <2>2. CASE before # << >>
    <3>1. \A k \in 1..(i - 1) : list[k] \in E
      BY <1>1
    <3>2. 1 \in Int /\ i - 1 \in Int
      BY <1>1
    <3>3. before \in Seq(E)
      BY <3>1, <3>2, SubSeqProperties
    <3> HIDE DEF before
    <3>4. Len(before) \in 1..Len(before)
      BY <2>2, <3>3, EmptySeq
    <3>5. before[Len(before)] \in E
      BY <3>3, <3>4, ElementOfSeq
    <3>6. Last(before) = before[Len(before)]
      BY DEF Last
    <3> QED BY <2>2, <3>5, <3>6 DEF LastType
  <2> QED BY <2>1, <2>2
<1>3. Delta(list, i) >= 0
  BY <1>1 DEF Ascending
<1>4. t \in Nat /\ t < Huge
  BY <1>1
<1>5. Delta(list, i) = t - l
  BY DEF Delta
<1> HIDE DEF t, l
<1>6. Delta(list, i) \in Nat /\ Delta(list, i) <= t /\ l + Delta(list, i) = t
  BY <1>2, <1>3, <1>4, <1>5
<1>7. Delta(list, i) < Huge
  BY <1>4, <1>6, HugeIsNumber
<1> QED BY <1>6, <1>7 DEF t, l

\* What a message is given.
ParameterLists == {ps \in Seq(KeptParameter) : Len(ps) < Huge}

\* The same of parameters.
LEMMA ParameterDelta ==
    ASSUME NEW ps \in ParameterLists, Ascending(ps), NEW i \in 1..Len(ps)
    PROVE  /\ Delta(ps, i) \in Nat /\ Delta(ps, i) < Huge
           /\ LastType(SubSeq(ps, 1, i - 1)) + Delta(ps, i) = ps[i].type
           /\ ps[i] \in KeptParameter
<1>1. 2^24 = 16777216
  BY SMT
<1>2. \A t \in {9, 16, 33} : t \in Nat /\ t < Huge
  BY <1>1, SMT DEF Huge
<1>3. ASSUME NEW p \in KeptParameter PROVE p.type \in {9, 16, 33}
  <2>1. p.type \in {PARAM_SUBSCRIPTION_FILTER, PARAM_LARGEST_OBJECT, PARAM_FORWARD}
    BY DEF KeptParameter
  <2> QED BY <2>1 DEF PARAM_SUBSCRIPTION_FILTER, PARAM_LARGEST_OBJECT, PARAM_FORWARD
<1>4. ps \in Seq(KeptParameter)
  BY DEF ParameterLists
<1>5. \A p \in KeptParameter : p.type \in Nat /\ p.type < Huge
  BY <1>2, <1>3
<1>6. ps[i] \in KeptParameter
  BY <1>4, ElementOfSeq
<1> QED BY <1>4, <1>5, <1>6, DeltaIsSmall

\* One parameter behind those before it.
LEMMA ReadParameter ==
    ASSUME NEW ps \in ParameterLists, Ascending(ps), NEW i \in 1..Len(ps), NEW rest \in Octets
    PROVE  LET e == EncodeVarint(U(Delta(ps, i))) \o EncodeParameterValue(ps[i])
           IN /\ e \in Octets /\ e # << >>
              /\ DecodeParameter(SubSeq(ps, 1, i - 1), e \o rest) = Parsed(<<ps[i]>>, rest)
<1> DEFINE p == ps[i]
           u == U(Delta(ps, i))
           d == EncodeVarint(u)
           v == EncodeParameterValue(p)
           params == SubSeq(ps, 1, i - 1)
           buf == (d \o v) \o rest
<1>1. p \in KeptParameter /\ LastType(params) + Delta(ps, i) = p.type
  BY ParameterDelta
<1>2. u \in U64 /\ Num(u) = Delta(ps, i)
  BY ParameterDelta, ThreeBytes
<1>3. v \in Octets /\ DecodeParameterValue(p.type, v \o rest) = Parsed(p.value, rest)
  BY <1>1, ReadParameterValue
<1>4. d \in Octets /\ Len(d) \in 1..9
  BY <1>2, VarintBytes
<1>5. DecodeVarint(d \o (v \o rest)) = Parsed(u, v \o rest)
  BY <1>2, <1>3, OctetFacts, ReadVarint
<1>6. p.type \in KnownParameters /\ p = [type |-> p.type, value |-> p.value]
  BY <1>1 DEF KeptParameter, KnownParameters
<1> HIDE DEF p, u, d, v, params
<1>7. buf = d \o (v \o rest) /\ d \o v \in Octets /\ Len(d \o v) = Len(d) + Len(v) /\ Len(v) \in Nat
  BY <1>3, <1>4, OctetFacts
<1>8. d \o v # << >>
  <2>1. Len(d \o v) # 0
    <3>1. \A a \in 1..9, b \in Nat : a + b # 0
      OBVIOUS
    <3> QED BY <1>4, <1>7, <3>1
  <2> QED BY <2>1, EmptySeq
<1> HIDE DEF buf
<1>9. DecodeParameter(params, buf) =
        LET r == DecodeVarint(buf)
            t == LastType(params) + Num(r.value)
            s == DecodeParameterValue(t, r.rest)
        IN IF r.ok THEN IF s.ok
                        THEN Parsed(IF t \in KnownParameters
                                    THEN <<[type |-> t, value |-> s.value]>> ELSE << >>,
                                    s.rest)
                        ELSE Failed
                   ELSE Failed
  BY DEF DecodeParameter, Then
<1>10. DecodeParameter(params, buf) = Parsed(<<p>>, rest)
  BY <1>1, <1>2, <1>3, <1>5, <1>6, <1>7, <1>9, ParsedFields
<1> QED BY <1>7, <1>8, <1>10 DEF p, u, d, v, params, buf

\* One step of the reading of parameters, and as many as there are.
ParameterStep(r) ==
    IF r.ok THEN IF DecodeParameter(r.value, r.rest).ok
                 THEN Parsed(r.value \o DecodeParameter(r.value, r.rest).value,
                             DecodeParameter(r.value, r.rest).rest)
                 ELSE Failed
            ELSE Failed

ParameterRun(n, buf) ==
    (CHOOSE a : a = [i \in 0..n |->
                      IF i = 0 THEN Parsed(<< >>, buf) ELSE ParameterStep(a[i - 1])])[n]

\* What decode_parameters computes.
LEMMA ParametersUnfolded ==
    ASSUME NEW u, NEW buf, NEW rest, DecodeVarint(buf) = Parsed(u, rest)
    PROVE  DecodeParameters(buf) = IF Num(u) > Len(rest) THEN Failed ELSE ParameterRun(Num(u), rest)
<1>1. DecodeParameters(buf) =
        IF DecodeVarint(buf).ok
        THEN IF Num(DecodeVarint(buf).value) > Len(DecodeVarint(buf).rest) THEN Failed
             ELSE ParameterRun(Num(DecodeVarint(buf).value), DecodeVarint(buf).rest)
        ELSE Failed
  BY DEF DecodeParameters, DecodeCounted, Then, Repeat, ParameterRun, ParameterStep
<1> QED BY <1>1, ParsedFields

\* What encode_parameters writes.
LEMMA EncodeParametersUnfolded ==
    ASSUME NEW ps
    PROVE  EncodeParameters(EncodeParameterValue, ps) =
             EncodeVarint(U(Len(ps)))
               \o FlattenSeq([i \in DOMAIN ps |->
                                EncodeVarint(U(Delta(ps, i))) \o EncodeParameterValue(ps[i])])
  BY DEF EncodeParameters

\* What EncodeParameters writes of parameters it accepts, decode_parameters reads.
LEMMA ReadParameters ==
    ASSUME NEW ps \in ParameterLists, Ascending(ps), NEW rest \in Octets
    PROVE  /\ EncodeParameters(EncodeParameterValue, ps) \in Octets
           /\ DecodeParameters(EncodeParameters(EncodeParameterValue, ps) \o rest) =
                Parsed(ps, rest)
<1> DEFINE n == Len(ps)
           encs == [i \in DOMAIN ps |->
                      EncodeVarint(U(Delta(ps, i))) \o EncodeParameterValue(ps[i])]
           flat == FlattenSeq(encs)
           buf == flat \o rest
           g == Progress(ps, encs, rest)
           Run(a) == a = [i \in 0..n |->
                            IF i = 0 THEN Parsed(<< >>, buf) ELSE ParameterStep(a[i - 1])]
           c == CHOOSE a : Run(a)
<1>1. /\ n \in Nat /\ DOMAIN ps = 1..n /\ ps \in Seq(KeptParameter) /\ n < Huge
  BY LenProperties DEF ParameterLists
<1>2. ASSUME NEW i \in 1..n
      PROVE  /\ encs[i] \in Octets /\ encs[i] # << >>
             /\ \A tail \in Octets :
                  DecodeParameter(SubSeq(ps, 1, i - 1), encs[i] \o tail) = Parsed(<<ps[i]>>, tail)
  <2>1. encs[i] = EncodeVarint(U(Delta(ps, i))) \o EncodeParameterValue(ps[i])
    BY <1>1
  <2>2. << >> \in Octets
    BY OctetFacts
  <2> HIDE DEF encs
  <2> QED BY <2>1, <2>2, ReadParameter
<1>3. encs \in Seq(Octets) /\ Len(encs) = n
  <2>1. encs = [i \in 1..n |-> encs[i]]
    BY <1>1
  <2> HIDE DEF n, encs
  <2>2. encs \in [1..n -> Octets]
    BY <1>2, <2>1
  <2> QED BY <1>1, <2>2, FunctionIsSequence
<1>4. ParameterRun(n, buf) = c[n]
  BY DEF ParameterRun
<1>5. EncodeParameters(EncodeParameterValue, ps) = EncodeVarint(U(n)) \o flat
  BY EncodeParametersUnfolded
<1> HIDE DEF encs
<1>6. /\ g[0] = Parsed(<< >>, buf)
      /\ g[n] = Parsed(ps, rest)
      /\ \A i \in 1..n : \E tail \in Octets :
           /\ g[i - 1] = Parsed(SubSeq(ps, 1, i - 1), encs[i] \o tail)
           /\ g[i] = Parsed(SubSeq(ps, 1, i - 1) \o <<ps[i]>>, tail)
  <2>1. Len(encs) = Len(ps)
    BY <1>3
  <2>2. encs \in Seq(Octets) /\ ps \in Seq(KeptParameter)
    BY <1>1, <1>3
  <2>3. Progresses(ps, encs, rest)
    BY <2>1, <2>2, ProgressSteps
  <2> QED BY <2>3 DEF Progresses
<1>7. g = [i \in 0..n |-> g[i]]
  BY DEF Progress
<1>8. flat \in Octets /\ n <= Len(flat)
  BY <1>2, <1>3, LongEnough
<1> HIDE DEF g, n, flat
<1>9. ASSUME NEW i \in 1..n PROVE g[i] = ParameterStep(g[i - 1])
  <2>1. PICK tail \in Octets : /\ g[i - 1] = Parsed(SubSeq(ps, 1, i - 1), encs[i] \o tail)
                               /\ g[i] = Parsed(SubSeq(ps, 1, i - 1) \o <<ps[i]>>, tail)
    BY <1>6
  <2>2. DecodeParameter(SubSeq(ps, 1, i - 1), encs[i] \o tail) = Parsed(<<ps[i]>>, tail)
    BY <1>2
  <2> QED BY <2>1, <2>2, ParsedFields DEF ParameterStep
<1> HIDE DEF buf
<1>10. Run(g)
  <2>1. n \in Nat
    BY <1>1
  <2> QED BY <1>6, <1>7, <1>9, <2>1
<1>11. Run(c)
  BY <1>10
<1> HIDE DEF c
<1>12. c[0] = g[0] /\ \A i \in 1..n : c[i - 1] = g[i - 1] => c[i] = g[i]
  BY <1>1, <1>6, <1>9, <1>11
<1>13. c[n] = g[n]
  BY <1>1, <1>12, AgreeAtTheEnd
<1> DEFINE e == EncodeVarint(U(n))
<1>14. U(n) \in U64 /\ Num(U(n)) = n /\ e \in Octets
  BY <1>1, ThreeBytes, VarintBytes
<1> HIDE DEF e
<1>15. (e \o flat) \o rest = e \o buf /\ buf \in Octets /\ e \o flat \in Octets
  BY <1>8, <1>14, OctetFacts DEF buf
<1>16. Len(buf) = Len(flat) + Len(rest) /\ Len(rest) \in Nat /\ Len(flat) \in Nat
  BY <1>8, OctetFacts DEF buf
<1>17. DecodeVarint(e \o buf) = Parsed(U(n), buf)
  BY <1>14, <1>15, ReadVarint DEF e
<1>18. DecodeParameters(e \o buf) =
         IF Num(U(n)) > Len(buf) THEN Failed ELSE ParameterRun(Num(U(n)), buf)
  BY <1>17, ParametersUnfolded
<1>19. ~(n > Len(buf))
  BY <1>1, <1>8, <1>16
<1> QED BY <1>4, <1>5, <1>6, <1>13, <1>14, <1>15, <1>18, <1>19 DEF e

-----------------------------------------------------------------------------
\* Key-value pairs

\* The pairs that are written: integers under even types, bytes under odd ones.
Pair ==
    {[type |-> t, int |-> TRUE, value |-> v] : t \in {k \in Nat : k < Huge /\ IsEven(k)}, v \in U64}
    \cup {[type |-> t, int |-> FALSE, value |-> v] :
            t \in {k \in Nat : k < Huge /\ ~IsEven(k)}, v \in {o \in Octets : Len(o) <= MaxValue}}

\* How the value of a pair is written, and read by its type.
EncodePairValue(p) == IF p.int THEN EncodeVarint(p.value) ELSE EncodeBytes(p.value)

PairValue(type, buf) == IF IsEven(type) THEN DecodeVarint(buf) ELSE DecodeBytes(MaxValue, buf)

\* The value of a pair.
LEMMA ReadPairValue ==
    ASSUME NEW p \in Pair, MaxValue < Huge, NEW rest \in Octets
    PROVE  /\ EncodePairValue(p) \in Octets
           /\ PairValue(p.type, EncodePairValue(p) \o rest) = Parsed(p.value, rest)
           /\ p.type \in Nat /\ p.type < Huge
           /\ p = [type |-> p.type, int |-> IsEven(p.type), value |-> p.value]
<1>1. MaxValue \in Nat
  BY LimitAssumption
<1>2. ASSUME NEW t \in Nat, t < Huge, IsEven(t), NEW v \in U64,
             p = [type |-> t, int |-> TRUE, value |-> v]
      PROVE  /\ EncodePairValue(p) \in Octets
             /\ PairValue(p.type, EncodePairValue(p) \o rest) = Parsed(p.value, rest)
             /\ p.type \in Nat /\ p.type < Huge
             /\ p = [type |-> p.type, int |-> IsEven(p.type), value |-> p.value]
  <2>1. p.type = t /\ p.int = TRUE /\ p.value = v
    BY <1>2
  <2>2. EncodePairValue(p) = EncodeVarint(v)
    BY <2>1 DEF EncodePairValue
  <2>3. EncodeVarint(v) \in Octets /\ DecodeVarint(EncodeVarint(v) \o rest) = Parsed(v, rest)
    BY VarintBytes, ReadVarint
  <2>4. IsEven(t) = TRUE
    BY <1>2 DEF IsEven
  <2> QED BY <1>2, <2>1, <2>2, <2>3, <2>4 DEF PairValue
<1>3. ASSUME NEW t \in Nat, t < Huge, ~IsEven(t), NEW v \in Octets, Len(v) <= MaxValue,
             p = [type |-> t, int |-> FALSE, value |-> v]
      PROVE  /\ EncodePairValue(p) \in Octets
             /\ PairValue(p.type, EncodePairValue(p) \o rest) = Parsed(p.value, rest)
             /\ p.type \in Nat /\ p.type < Huge
             /\ p = [type |-> p.type, int |-> IsEven(p.type), value |-> p.value]
  <2>1. p.type = t /\ p.int = FALSE /\ p.value = v
    BY <1>3
  <2>2. EncodePairValue(p) = EncodeBytes(v)
    BY <2>1 DEF EncodePairValue
  <2>3. Len(v) < Huge
    <3>1. Len(v) \in Nat
      BY OctetFacts
    <3> QED BY <1>1, <1>3, <3>1, HugeIsNumber
  <2>4. EncodeBytes(v) \in Octets /\ DecodeBytes(MaxValue, EncodeBytes(v) \o rest) = Parsed(v, rest)
    BY <1>1, <1>3, <2>3, ReadBytes
  <2>5. IsEven(t) = FALSE
    BY <1>3 DEF IsEven
  <2> QED BY <1>3, <2>1, <2>2, <2>4, <2>5 DEF PairValue
<1> QED BY <1>2, <1>3 DEF Pair

\* One pair behind those before it.
LEMMA ReadPair ==
    ASSUME NEW ps \in Seq(Pair), Ascending(ps), MaxValue < Huge, NEW i \in 1..Len(ps),
           NEW rest \in Octets
    PROVE  LET e == EncodeVarint(U(Delta(ps, i))) \o EncodePairValue(ps[i])
           IN /\ e \in Octets /\ e # << >>
              /\ DecodePair(SubSeq(ps, 1, i - 1), e \o rest) = Parsed(<<ps[i]>>, rest)
<1> DEFINE p == ps[i]
           u == U(Delta(ps, i))
           d == EncodeVarint(u)
           v == EncodePairValue(p)
           before == SubSeq(ps, 1, i - 1)
           buf == (d \o v) \o rest
<1>0. p \in Pair
  BY ElementOfSeq
<1>1. LastType(before) + Delta(ps, i) = p.type /\ Delta(ps, i) \in Nat /\ Delta(ps, i) < Huge
  <2>1. \A q \in Pair : q.type \in Nat /\ q.type < Huge
    <3>1. << >> \in Octets
      BY OctetFacts
    <3> QED BY <3>1, ReadPairValue
  <2> QED BY <2>1, DeltaIsSmall
<1>2. u \in U64 /\ Num(u) = Delta(ps, i)
  BY <1>1, ThreeBytes
<1>3. /\ v \in Octets /\ PairValue(p.type, v \o rest) = Parsed(p.value, rest)
      /\ p = [type |-> p.type, int |-> IsEven(p.type), value |-> p.value]
  BY <1>0, ReadPairValue
<1>4. d \in Octets /\ Len(d) \in 1..9
  BY <1>2, VarintBytes
<1>5. DecodeVarint(d \o (v \o rest)) = Parsed(u, v \o rest)
  BY <1>2, <1>3, OctetFacts, ReadVarint
<1> HIDE DEF p, u, d, v, before
<1>6. buf = d \o (v \o rest) /\ d \o v \in Octets /\ Len(d \o v) = Len(d) + Len(v) /\ Len(v) \in Nat
  BY <1>3, <1>4, OctetFacts
<1>7. d \o v # << >>
  <2>1. Len(d \o v) # 0
    <3>1. \A a \in 1..9, b \in Nat : a + b # 0
      OBVIOUS
    <3> QED BY <1>4, <1>6, <3>1
  <2> QED BY <2>1, EmptySeq
<1> HIDE DEF buf
<1>8. DecodePair(before, buf) =
        LET r == DecodeVarint(buf)
            t == LastType(before) + Num(r.value)
            s == PairValue(t, r.rest)
        IN IF r.ok THEN IF s.ok
                        THEN Parsed(<<[type |-> t, int |-> IsEven(t), value |-> s.value]>>, s.rest)
                        ELSE Failed
                   ELSE Failed
  BY DEF DecodePair, PairOf, PairValue, Then
<1>9. DecodePair(before, buf) = Parsed(<<p>>, rest)
  BY <1>1, <1>2, <1>3, <1>5, <1>6, <1>8, ParsedFields
<1> QED BY <1>6, <1>7, <1>9 DEF p, u, d, v, before, buf

\* One step of the reading of pairs, which stays at the end of the buffer.
PairStep(r) ==
    IF r.ok THEN IF r.rest = << >> THEN Parsed(r.value \o << >>, r.rest)
                 ELSE IF DecodePair(r.value, r.rest).ok
                 THEN Parsed(r.value \o DecodePair(r.value, r.rest).value,
                             DecodePair(r.value, r.rest).rest)
                 ELSE Failed
            ELSE Failed

PairRun(n, buf) ==
    (CHOOSE a : a = [i \in 0..n |->
                      IF i = 0 THEN Parsed(<< >>, buf) ELSE PairStep(a[i - 1])])[n]

\* What decode_key_value_pairs computes.
LEMMA PairsUnfolded == ASSUME NEW buf PROVE DecodeKeyValuePairs(buf) = PairRun(Len(buf), buf)
<1> DEFINE Again(values, rest) ==
             IF rest = << >> THEN Parsed(<< >>, rest) ELSE DecodePair(values, rest)
           Step(r) == IF r.ok THEN IF Again(r.value, r.rest).ok
                                   THEN Parsed(r.value \o Again(r.value, r.rest).value,
                                               Again(r.value, r.rest).rest)
                                   ELSE Failed
                              ELSE Failed
<1>1. ASSUME NEW r PROVE Step(r) = PairStep(r)
  <2>1. CASE r.rest = << >>
    BY <2>1, ParsedFields DEF PairStep
  <2>2. CASE r.rest # << >>
    BY <2>2 DEF PairStep
  <2> QED BY <2>1, <2>2
<1>2. DecodeKeyValuePairs(buf) =
        (CHOOSE a : a = [i \in 0..Len(buf) |->
                          IF i = 0 THEN Parsed(<< >>, buf) ELSE Step(a[i - 1])])[Len(buf)]
  BY DEF DecodeKeyValuePairs, UntilEmpty, Repeat, Then
<1> HIDE DEF Step
<1>3. \A a : [i \in 0..Len(buf) |-> IF i = 0 THEN Parsed(<< >>, buf) ELSE Step(a[i - 1])]
             = [i \in 0..Len(buf) |-> IF i = 0 THEN Parsed(<< >>, buf) ELSE PairStep(a[i - 1])]
  BY <1>1
<1> QED BY <1>2, <1>3 DEF PairRun

\* What is written of pairs in ascending order is read back; they end with the buffer.
LEMMA ReadPairs ==
    ASSUME NEW ps \in Seq(Pair), Ascending(ps), MaxValue < Huge
    PROVE  /\ EncodeKeyValuePairs(ps) \in Octets
           /\ DecodeKeyValuePairs(EncodeKeyValuePairs(ps)) = Parsed(ps, << >>)
<1> DEFINE n == Len(ps)
           encs == [i \in DOMAIN ps |-> EncodeVarint(U(Delta(ps, i))) \o EncodePairValue(ps[i])]
           buf == FlattenSeq(encs)
           l == Len(buf)
           h == Progress(ps, encs, << >>)
           g == [i \in 0..l |-> IF i <= n THEN h[i] ELSE Parsed(ps, << >>)]
           Run(a) == a = [i \in 0..l |->
                            IF i = 0 THEN Parsed(<< >>, buf) ELSE PairStep(a[i - 1])]
           c == CHOOSE a : Run(a)
<1>0. << >> \in Octets /\ \A a \in Octets : a \o << >> = a
  BY OctetFacts
<1>1. n \in Nat /\ DOMAIN ps = 1..n
  BY LenProperties
<1>2. ASSUME NEW i \in 1..n
      PROVE  /\ encs[i] \in Octets /\ encs[i] # << >>
             /\ \A tail \in Octets :
                  DecodePair(SubSeq(ps, 1, i - 1), encs[i] \o tail) = Parsed(<<ps[i]>>, tail)
  <2>1. encs[i] = EncodeVarint(U(Delta(ps, i))) \o EncodePairValue(ps[i])
    BY <1>1
  <2> HIDE DEF encs
  <2> QED BY <1>0, <2>1, ReadPair
<1>3. encs \in Seq(Octets) /\ Len(encs) = n
  <2>1. encs = [i \in 1..n |-> encs[i]]
    BY <1>1
  <2> HIDE DEF n, encs
  <2>2. encs \in [1..n -> Octets]
    BY <1>2, <2>1
  <2> QED BY <1>1, <2>2, FunctionIsSequence
<1>4. EncodeKeyValuePairs(ps) = buf
  BY DEF EncodeKeyValuePairs, EncodePairValue
<1>5. DecodeKeyValuePairs(buf) = c[l]
  <2> HIDE DEF buf
  <2> QED BY PairsUnfolded DEF PairRun
<1> HIDE DEF encs
<1>6. /\ h[0] = Parsed(<< >>, buf \o << >>)
      /\ h[n] = Parsed(ps, << >>)
      /\ \A i \in 1..n : \E tail \in Octets :
           /\ h[i - 1] = Parsed(SubSeq(ps, 1, i - 1), encs[i] \o tail)
           /\ h[i] = Parsed(SubSeq(ps, 1, i - 1) \o <<ps[i]>>, tail)
  <2>1. Len(encs) = Len(ps)
    BY <1>3
  <2>2. encs \in Seq(Octets) /\ ps \in Seq(Pair) /\ << >> \in Octets
    BY <1>0, <1>3
  <2>3. Progresses(ps, encs, << >>)
    BY <2>1, <2>2, ProgressSteps
  <2> QED BY <2>3 DEF Progresses
<1>7. buf \in Octets /\ n <= l /\ l \in Nat
  <2>1. buf \in Octets /\ n <= l
    BY <1>2, <1>3, LongEnough
  <2> QED BY <2>1, OctetFacts
<1> HIDE DEF h, n, buf, l
<1>8. g[0] = Parsed(<< >>, buf)
  BY <1>0, <1>1, <1>6, <1>7
<1>9. ASSUME NEW i \in 1..l PROVE g[i] = PairStep(g[i - 1])
  <2>1. CASE i <= n
    <3>1. i \in 1..n /\ g[i] = h[i] /\ g[i - 1] = h[i - 1]
      BY <1>1, <1>7, <2>1
    <3>2. PICK tail \in Octets : /\ h[i - 1] = Parsed(SubSeq(ps, 1, i - 1), encs[i] \o tail)
                                 /\ h[i] = Parsed(SubSeq(ps, 1, i - 1) \o <<ps[i]>>, tail)
      BY <1>6, <3>1
    <3>3. DecodePair(SubSeq(ps, 1, i - 1), encs[i] \o tail) = Parsed(<<ps[i]>>, tail)
      BY <1>2, <3>1
    <3>4. encs[i] \o tail # << >>
      <4>1. encs[i] \in Octets /\ encs[i] # << >>
        BY <1>2, <3>1
      <4>2. /\ Len(encs[i] \o tail) = Len(encs[i]) + Len(tail)
            /\ Len(encs[i]) \in Nat \ {0} /\ Len(tail) \in Nat
        BY <4>1, OctetFacts
      <4>3. Len(encs[i] \o tail) # 0
        BY <4>2
      <4> QED BY <4>3, EmptySeq
    <3> HIDE DEF g
    <3> DEFINE before == SubSeq(ps, 1, i - 1)
               left == encs[i] \o tail
    <3>5. PairStep(Parsed(before, left)) = Parsed(before \o <<ps[i]>>, tail)
      <4> HIDE DEF before, left
      <4>1. left # << >> /\ DecodePair(before, left) = Parsed(<<ps[i]>>, tail)
        BY <3>3, <3>4 DEF before, left
      <4> QED BY <4>1, ParsedFields DEF PairStep
    <3> QED BY <3>1, <3>2, <3>5
  <2>2. CASE i > n
    <3>1. g[i] = Parsed(ps, << >>) /\ g[i - 1] = Parsed(ps, << >>)
      <4>1. CASE i - 1 = n
        BY <1>1, <1>6, <1>7, <2>2, <4>1
      <4>2. CASE i - 1 # n
        BY <1>1, <1>7, <2>2, <4>2
      <4> QED BY <4>1, <4>2
    <3> HIDE DEF g
    <3>2. ps \o << >> = ps
      BY ConcatEmptySeq
    <3> QED BY <3>1, <3>2, ParsedFields DEF PairStep
  <2> QED BY <1>1, <1>7, <2>1, <2>2
<1>10. g = [i \in 0..l |-> g[i]]
  OBVIOUS
<1>11. g[l] = Parsed(ps, << >>)
  <2>1. CASE l = n
    BY <1>1, <1>6, <2>1
  <2>2. CASE l # n
    BY <1>1, <1>7, <2>2
  <2> QED BY <2>1, <2>2
<1> HIDE DEF g
<1>12. Run(g)
  BY <1>7, <1>8, <1>9, <1>10
<1>13. Run(c)
  BY <1>12
<1> HIDE DEF c
<1>14. c[0] = g[0] /\ \A i \in 1..l : c[i - 1] = g[i - 1] => c[i] = g[i]
  BY <1>7, <1>8, <1>9, <1>13
<1>15. c[l] = g[l]
  BY <1>7, <1>14, AgreeAtTheEnd
<1> QED BY <1>4, <1>5, <1>7, <1>11, <1>15

-----------------------------------------------------------------------------
\* Messages

\* The kinds of fields.
Kinds == {"int", "bytes", "reason", "namespace", "parameters", "unused", "pairs"}

\* The values a field of each kind is given.
FieldValue(kind) ==
  CASE kind = "int" -> U64
    [] kind = "bytes" -> {b \in Octets : Len(b) < Huge}
    [] kind = "reason" -> {b \in Octets : Len(b) <= MaxReason}
    [] kind = "namespace" -> Namespaces
    [] kind = "parameters" -> ParameterLists
    [] kind = "unused" -> {<< >>}
    [] kind = "pairs" -> Seq(Pair)

\* How a field is written.
EncodeKind(kind, v) == EncodeField(EncodeParameterValue, kind, v)

\* The list of no parameters.
LEMMA NoParameters ==
    << >> \in ParameterLists /\ Ascending(<< >>)
<1> DEFINE none == << >>
<1>1. none \in Seq(KeptParameter) /\ Len(none) = 0 /\ DOMAIN none = {}
  BY EmptySeq
<1> HIDE DEF none
<1>2. none \in ParameterLists
  BY <1>1, HugeIsNumber DEF ParameterLists
<1>3. Ascending(none)
  BY <1>1 DEF Ascending
<1> QED BY <1>2, <1>3 DEF none

\* One field of any kind; pairs take what is left of the buffer.
LEMMA ReadKind ==
    ASSUME NEW kind \in Kinds, NEW v \in FieldValue(kind), FieldEncodable(kind, v),
           NEW rest \in Octets, kind = "pairs" => rest = << >>
    PROVE  /\ EncodeKind(kind, v) \in Octets
           /\ DecodeField(kind, EncodeKind(kind, v) \o rest) = Parsed(v, rest)
<1> DEFINE e == EncodeKind(kind, v)
           Goal == e \in Octets /\ DecodeField(kind, e \o rest) = Parsed(v, rest)
<1>0. MaxValue < Huge /\ MaxFields < Huge /\ MaxReason < Huge /\ MaxReason \in Nat
  BY LimitAssumption
<1>1. ASSUME kind = "int" PROVE Goal
  <2>1. v \in U64
    BY <1>1 DEF FieldValue
  <2>2. e = EncodeVarint(v)
    BY <1>1 DEF EncodeKind, EncodeField
  <2>3. DecodeField(kind, e \o rest) = DecodeVarint(e \o rest)
    BY <1>1 DEF DecodeField
  <2> HIDE DEF e
  <2> QED BY <2>1, <2>2, <2>3, VarintBytes, ReadVarint
<1>2. ASSUME kind = "bytes" PROVE Goal
  <2>1. v \in Octets /\ Len(v) < Huge /\ Len(v) \in Nat
    BY <1>2, OctetFacts DEF FieldValue
  <2>2. e = EncodeBytes(v)
    BY <1>2 DEF EncodeKind, EncodeField
  <2>3. DecodeField(kind, e \o rest) = DecodeBytes(Huge, e \o rest)
    BY <1>2 DEF DecodeField
  <2> HIDE DEF e
  <2>4. Huge \in Nat /\ Len(v) <= Huge
    BY <2>1, HugeIsNumber
  <2> QED BY <2>1, <2>2, <2>3, <2>4, ReadBytes
<1>3. ASSUME kind = "reason" PROVE Goal
  <2>1. v \in Octets /\ Len(v) <= MaxReason /\ Len(v) \in Nat
    BY <1>3, OctetFacts DEF FieldValue
  <2>2. e = EncodeBytes(v)
    BY <1>3 DEF EncodeKind, EncodeField
  <2>3. DecodeField(kind, e \o rest) = DecodeBytes(MaxReason, e \o rest)
    BY <1>3 DEF DecodeField
  <2> HIDE DEF e
  <2>4. Len(v) < Huge
    BY <1>0, <2>1, HugeIsNumber
  <2> QED BY <1>0, <2>1, <2>2, <2>3, <2>4, ReadBytes
<1>4. ASSUME kind = "namespace" PROVE Goal
  <2>1. v \in Namespaces /\ NamespaceEncodable(v)
    BY <1>4 DEF FieldValue, FieldEncodable
  <2>2. e = EncodeTrackNamespace(v)
    BY <1>4 DEF EncodeKind, EncodeField
  <2>3. DecodeField(kind, e \o rest) = DecodeTrackNamespace(e \o rest)
    BY <1>4 DEF DecodeField
  <2> HIDE DEF e
  <2> QED BY <1>0, <2>1, <2>2, <2>3, ReadNamespace
<1>5. ASSUME kind = "parameters" PROVE Goal
  <2>1. v \in ParameterLists /\ Ascending(v)
    BY <1>5 DEF FieldValue, FieldEncodable, ParametersEncodable
  <2>2. e = EncodeParameters(EncodeParameterValue, v)
    BY <1>5 DEF EncodeKind, EncodeField
  <2>3. DecodeField(kind, e \o rest) = DecodeParameters(e \o rest)
    BY <1>5 DEF DecodeField
  <2> HIDE DEF e
  <2> QED BY <2>1, <2>2, <2>3, ReadParameters
<1>6. ASSUME kind = "unused" PROVE Goal
  <2>1. v = << >>
    BY <1>6 DEF FieldValue
  <2>2. e = EncodeParameters(EncodeParameterValue, << >>)
    BY <1>6 DEF EncodeKind, EncodeField
  <2>3. DecodeField(kind, e \o rest) =
          IF DecodeParameters(e \o rest).ok
          THEN Parsed(<< >>, DecodeParameters(e \o rest).rest) ELSE Failed
    BY <1>6 DEF DecodeField, Skip, Then
  <2> HIDE DEF e
  <2>4. e \in Octets /\ DecodeParameters(e \o rest) = Parsed(<< >>, rest)
    BY <2>2, NoParameters, ReadParameters
  <2> QED BY <2>1, <2>3, <2>4, ParsedFields
<1>7. ASSUME kind = "pairs" PROVE Goal
  <2>1. v \in Seq(Pair) /\ Ascending(v)
    BY <1>7 DEF FieldValue, FieldEncodable, PairsEncodable
  <2>2. e = EncodeKeyValuePairs(v)
    BY <1>7 DEF EncodeKind, EncodeField
  <2>3. DecodeField(kind, e \o rest) = DecodeKeyValuePairs(e \o rest)
    BY <1>7 DEF DecodeField
  <2> HIDE DEF e
  <2>4. e \in Octets /\ DecodeKeyValuePairs(e) = Parsed(v, << >>)
    BY <1>0, <2>1, <2>2, ReadPairs
  <2>5. e \o << >> = e /\ rest = << >>
    BY <1>7, <2>4, OctetFacts
  <2> QED BY <2>3, <2>4, <2>5
<1> HIDE DEF Goal
<1>8. Goal
  BY <1>1, <1>2, <1>3, <1>4, <1>5, <1>6, <1>7 DEF Kinds
<1> QED BY <1>8 DEF Goal

\* One step of the reading of the fields of a message.
KindStep(kinds, r) ==
    IF r.ok THEN IF One(DecodeField(kinds[Len(r.value) + 1], r.rest)).ok
                 THEN Parsed(r.value \o One(DecodeField(kinds[Len(r.value) + 1], r.rest)).value,
                             One(DecodeField(kinds[Len(r.value) + 1], r.rest)).rest)
                 ELSE Failed
            ELSE Failed

KindRun(kinds, n, buf) ==
    (CHOOSE a : a = [i \in 0..n |->
                      IF i = 0 THEN Parsed(<< >>, buf) ELSE KindStep(kinds, a[i - 1])])[n]

\* What a decode of the fields computes.
LEMMA FieldsUnfolded ==
    ASSUME NEW kinds, NEW buf
    PROVE  DecodeFields(DecodeField, kinds, buf) = KindRun(kinds, Len(kinds), buf)
  BY DEF DecodeFields, Repeat, Then, KindRun, KindStep

\* Values of these kinds.
FieldsOf(kinds) ==
  {vals \in Seq(UNION {FieldValue(kind) : kind \in Kinds}) :
     Len(vals) = Len(kinds) /\ \A i \in DOMAIN vals : vals[i] \in FieldValue(kinds[i])}

\* What is written of the fields of a message, one after the other, is read back.
LEMMA ReadFields ==
    ASSUME NEW kinds \in Seq(Kinds), \A i \in 1..Len(kinds) : kinds[i] = "pairs" => i = Len(kinds),
           NEW vals \in FieldsOf(kinds), \A i \in DOMAIN vals : FieldEncodable(kinds[i], vals[i])
    PROVE  LET payload == FlattenSeq([i \in DOMAIN vals |-> EncodeKind(kinds[i], vals[i])])
           IN payload \in Octets /\ DecodeFields(DecodeField, kinds, payload) = Parsed(vals, << >>)
<1> DEFINE n == Len(vals)
           none == << >>
           V == UNION {FieldValue(kind) : kind \in Kinds}
           encs == [i \in DOMAIN vals |-> EncodeKind(kinds[i], vals[i])]
           buf == FlattenSeq(encs)
           g == Progress(vals, encs, none)
           Run(a) == a = [i \in 0..n |->
                            IF i = 0 THEN Parsed(<< >>, buf) ELSE KindStep(kinds, a[i - 1])]
           c == CHOOSE a : Run(a)
<1>0. none \in Octets /\ \A a \in Octets : a \o none = a
  BY OctetFacts
<1>1. /\ n \in Nat /\ DOMAIN vals = 1..n /\ vals \in Seq(V) /\ Len(kinds) = n
      /\ \A i \in 1..n : vals[i] \in FieldValue(kinds[i]) /\ FieldEncodable(kinds[i], vals[i])
  BY LenProperties DEF FieldsOf
<1> HIDE DEF V
<1>2. ASSUME NEW i \in 1..n
      PROVE  /\ encs[i] \in Octets
             /\ \A tail \in Octets : (i = n => tail = none) =>
                  DecodeField(kinds[i], encs[i] \o tail) = Parsed(vals[i], tail)
  <2>1. encs[i] = EncodeKind(kinds[i], vals[i])
    BY <1>1
  <2>2. kinds[i] \in Kinds /\ (kinds[i] = "pairs" => i = n)
    BY <1>1, ElementOfSeq
  <2> HIDE DEF encs, n
  <2> QED BY <1>0, <1>1, <2>1, <2>2, ReadKind
<1>3. encs \in Seq(Octets) /\ Len(encs) = n
  <2>1. encs = [i \in 1..n |-> encs[i]]
    BY <1>1
  <2> HIDE DEF n, encs
  <2>2. encs \in [1..n -> Octets]
    BY <1>2, <2>1
  <2> QED BY <1>1, <2>2, FunctionIsSequence
<1>4. DecodeFields(DecodeField, kinds, buf) = c[n]
  <2> HIDE DEF buf, n
  <2> QED BY <1>1, FieldsUnfolded DEF KindRun
<1> HIDE DEF encs
<1>5. /\ g[0] = Parsed(<< >>, buf \o none)
      /\ g[n] = Parsed(vals, none)
      /\ \A i \in 1..n : \E tail \in Octets :
           /\ g[i - 1] = Parsed(SubSeq(vals, 1, i - 1), encs[i] \o tail)
           /\ g[i] = Parsed(SubSeq(vals, 1, i - 1) \o <<vals[i]>>, tail)
  <2>1. Len(encs) = Len(vals)
    BY <1>3
  <2>2. encs \in Seq(Octets) /\ vals \in Seq(V) /\ none \in Octets
    BY <1>0, <1>1, <1>3
  <2> HIDE DEF none
  <2>3. Progresses(vals, encs, none)
    BY <2>1, <2>2, ProgressSteps
  <2> QED BY <2>3 DEF Progresses
<1>6. buf \in Octets
  <2>1. Octets = Seq(Byte)
    BY DEF Octets
  <2> QED BY <1>3, <2>1, FlatTyped
<1>7. g = [i \in 0..n |-> g[i]]
  BY DEF Progress
<1>8. \A i \in 1..n : Len(SubSeq(vals, 1, i - 1)) = i - 1
  <2> HIDE DEF n
  <2>1. ASSUME NEW i \in 1..n PROVE Len(SubSeq(vals, 1, i - 1)) = i - 1
    <3>1. \A k \in 1..(i - 1) : vals[k] \in V
      BY <1>1, ElementOfSeq
    <3>2. 1 \in Int /\ i - 1 \in Int /\ 1 <= (i - 1) + 1 /\ (i - 1) - 1 + 1 = i - 1
      BY <1>1
    <3> DEFINE j == i - 1
    <3>4. 1 \in Int /\ j \in Int /\ j \in Nat /\ \A k \in 1..j : vals[k] \in V
      BY <1>1, <3>1
    <3>5. SubSeq(vals, 1, j) = [k \in 1..j |-> vals[k]]
      <4> HIDE DEF j
      <4>1. SubSeq(vals, 1, j) = [k \in 1..(1 + j - 1) |-> vals[k + 1 - 1]]
        BY <1>1, <3>4
      <4> QED BY <3>4, <4>1
    <3> HIDE DEF j
    <3>6. [k \in 1..j |-> vals[k]] \in [1..j -> V]
      BY <3>4
    <3>7. Len(SubSeq(vals, 1, j)) = j
      BY <3>4, <3>5, <3>6, FunctionIsSequence
    <3> QED BY <3>7 DEF j
  <2> QED BY <2>1
<1> HIDE DEF g, n, buf
<1>9. g[0] = Parsed(<< >>, buf)
  BY <1>0, <1>5, <1>6
<1>10. ASSUME NEW i \in 1..n PROVE g[i] = KindStep(kinds, g[i - 1])
  <2> DEFINE before == SubSeq(vals, 1, i - 1)
  <2>1. PICK tail \in Octets : /\ g[i - 1] = Parsed(before, encs[i] \o tail)
                               /\ g[i] = Parsed(before \o <<vals[i]>>, tail)
    BY <1>5
  <2>2. i = n => tail = none
    <3>1. i = n => Parsed(vals, none).rest = Parsed(before \o <<vals[i]>>, tail).rest
      BY <1>5, <2>1
    <3> HIDE DEF before, none
    <3> QED BY <3>1, ParsedFields
  <2> DEFINE left == encs[i] \o tail
  <2>3. DecodeField(kinds[i], left) = Parsed(vals[i], tail)
    BY <1>2, <2>2
  <2>4. Len(before) + 1 = i
    BY <1>1, <1>8
  <2>5. KindStep(kinds, Parsed(before, left)) = Parsed(before \o <<vals[i]>>, tail)
    <3> HIDE DEF before, left
    <3>1. One(DecodeField(kinds[i], left)) = Parsed(<<vals[i]>>, tail)
      BY <2>3, ParsedFields DEF One, Then
    <3> QED BY <2>4, <3>1, ParsedFields DEF KindStep
  <2> QED BY <2>1, <2>5
<1>11. Run(g)
  BY <1>1, <1>7, <1>9, <1>10
<1>12. Run(c)
  BY <1>11
<1> HIDE DEF c
<1>13. c[0] = g[0] /\ \A i \in 1..n : c[i - 1] = g[i - 1] => c[i] = g[i]
  BY <1>1, <1>9, <1>10, <1>12
<1>14. c[n] = g[n]
  BY <1>1, <1>13, AgreeAtTheEnd
<1> QED BY <1>4, <1>5, <1>6, <1>14 DEF buf, encs

\* The kinds of the fields of a message; pairs take what is left.
LEMMA FieldKinds ==
    ASSUME NEW type \in MessageTypes
    PROVE  /\ Fields(type) \in Seq(Kinds)
           /\ \A i \in 1..Len(Fields(type)) : Fields(type)[i] = "pairs" => i = Len(Fields(type))
<1> USE DEF MSG_SUBSCRIBE, MSG_SUBSCRIBE_OK, MSG_REQUEST_ERROR, MSG_PUBLISH_NAMESPACE,
            MSG_REQUEST_OK, MSG_PUBLISH_DONE, MSG_SETUP
<1> DEFINE Lists == {SubscribeFields, SubscribeOkFields, PublishDoneFields, RequestErrorFields,
                     PublishNamespaceFields, RequestOkFields, SetupFields}
           Good(l) == l \in Seq(Kinds) /\ \A i \in 1..Len(l) : l[i] = "pairs" => i = Len(l)
<1>1. Fields(type) \in Lists
  BY DEF MessageTypes, Fields
<1>2. Good(SubscribeFields)
  <2>1. SubscribeFields \in Seq(Kinds)
    BY DEF SubscribeFields, Kinds
  <2>2. Len(SubscribeFields) = 5
    BY DEF SubscribeFields
  <2>3. /\ SubscribeFields[1] = "int"
        /\ SubscribeFields[2] = "int"
        /\ SubscribeFields[3] = "namespace"
        /\ SubscribeFields[4] = "bytes"
        /\ SubscribeFields[5] = "parameters"
    BY DEF SubscribeFields
  <2> QED BY <2>1, <2>2, <2>3
<1>3. Good(SubscribeOkFields)
  <2>1. SubscribeOkFields \in Seq(Kinds)
    BY DEF SubscribeOkFields, Kinds
  <2>2. Len(SubscribeOkFields) = 3
    BY DEF SubscribeOkFields
  <2>3. /\ SubscribeOkFields[1] = "int"
        /\ SubscribeOkFields[2] = "parameters"
        /\ SubscribeOkFields[3] = "bytes"
    BY DEF SubscribeOkFields
  <2> QED BY <2>1, <2>2, <2>3
<1>4. Good(PublishDoneFields)
  <2>1. PublishDoneFields \in Seq(Kinds)
    BY DEF PublishDoneFields, Kinds
  <2>2. Len(PublishDoneFields) = 3
    BY DEF PublishDoneFields
  <2>3. /\ PublishDoneFields[1] = "int"
        /\ PublishDoneFields[2] = "int"
        /\ PublishDoneFields[3] = "reason"
    BY DEF PublishDoneFields
  <2> QED BY <2>1, <2>2, <2>3
<1>5. Good(RequestErrorFields)
  <2>1. RequestErrorFields \in Seq(Kinds)
    BY DEF RequestErrorFields, Kinds
  <2>2. Len(RequestErrorFields) = 3
    BY DEF RequestErrorFields
  <2>3. /\ RequestErrorFields[1] = "int"
        /\ RequestErrorFields[2] = "int"
        /\ RequestErrorFields[3] = "reason"
    BY DEF RequestErrorFields
  <2> QED BY <2>1, <2>2, <2>3
<1>6. Good(PublishNamespaceFields)
  <2>1. PublishNamespaceFields \in Seq(Kinds)
    BY DEF PublishNamespaceFields, Kinds
  <2>2. Len(PublishNamespaceFields) = 4
    BY DEF PublishNamespaceFields
  <2>3. /\ PublishNamespaceFields[1] = "int"
        /\ PublishNamespaceFields[2] = "int"
        /\ PublishNamespaceFields[3] = "namespace"
        /\ PublishNamespaceFields[4] = "unused"
    BY DEF PublishNamespaceFields
  <2> QED BY <2>1, <2>2, <2>3
<1>7. Good(RequestOkFields)
  <2>1. RequestOkFields \in Seq(Kinds)
    BY DEF RequestOkFields, Kinds
  <2>2. Len(RequestOkFields) = 1
    BY DEF RequestOkFields
  <2>3. RequestOkFields[1] = "unused"
    BY DEF RequestOkFields
  <2> QED BY <2>1, <2>2, <2>3
<1>8. Good(SetupFields)
  <2>1. SetupFields \in Seq(Kinds)
    BY DEF SetupFields, Kinds
  <2>2. Len(SetupFields) = 1
    BY DEF SetupFields
  <2>3. SetupFields[1] = "pairs"
    BY DEF SetupFields
  <2> QED BY <2>1, <2>2, <2>3
<1> HIDE DEF Good
<1>9. Good(Fields(type))
  BY <1>1, <1>2, <1>3, <1>4, <1>5, <1>6, <1>7, <1>8
<1> QED BY <1>9 DEF Good

\* The types are numbers that can be written.
LEMMA TypeIsSmall == \A type \in MessageTypes : type \in Nat /\ type < Huge
<1>1. 2^24 = 16777216
  BY SMT
<1> QED BY <1>1, SMT DEF MessageTypes, MSG_SUBSCRIBE, MSG_SUBSCRIBE_OK, MSG_REQUEST_ERROR,
            MSG_PUBLISH_NAMESPACE, MSG_REQUEST_OK, MSG_PUBLISH_DONE, MSG_SETUP, Huge

\* What two bytes can hold.
FitsLength(n) == n < 65536

\* A length in two bytes.
LEMMA TwoBytes ==
    ASSUME NEW n \in Nat, FitsLength(n)
    PROVE  /\ (n \div 256) % 256 \in Byte /\ n % 256 \in Byte
           /\ ((n \div 256) % 256) * 256 + (n % 256) = n
<1> DEFINE q == n \div 256
           r == n % 256
<1>1. n = 256 * q + r /\ q \in Nat /\ r \in 0..255 /\ q < 256
  BY SMT DEF FitsLength
<1> HIDE DEF q, r
<1>2. q % 256 = q /\ q \in 0..255
  BY <1>1, SMT
<1>3. q * 256 + r = n
  BY <1>1, <1>2, SMT
<1>4. q % 256 \in Byte /\ r \in Byte
  BY <1>1, <1>2 DEF Byte
<1>5. (q % 256) * 256 + r = n
  BY <1>2, <1>3
<1> QED BY <1>4, <1>5 DEF q, r

\* What comes first.
LEMMA ConcatFirst ==
    ASSUME NEW S, NEW s \in Seq(S), NEW t \in Seq(S), NEW i \in 1..Len(s)
    PROVE  (s \o t)[i] = s[i]
  OBVIOUS

\* What the two bytes of the length leave.
LEMMA BehindLength ==
    ASSUME NEW h \in Byte, NEW l \in Byte, NEW b \in Octets
    PROVE  /\ <<h, l>> \o b \in Octets /\ Len(<<h, l>> \o b) >= 2
           /\ (<<h, l>> \o b)[1] = h /\ (<<h, l>> \o b)[2] = l
           /\ From(<<h, l>> \o b, 3) = b
<1> DEFINE two == <<h, l>>
<1>1. b \in Seq(Byte)
  BY DEF Octets
<1>2. two \in Seq(Byte) /\ Len(two) = 2 /\ two[1] = h /\ two[2] = l
  OBVIOUS
<1> HIDE DEF two
<1>3. two \in Octets
  BY <1>2 DEF Octets
<1>4. two \o b \in Octets /\ Len(two \o b) = 2 + Len(b) /\ Len(b) \in Nat
  BY <1>2, <1>3, OctetFacts
<1>5. (two \o b)[1] = two[1] /\ (two \o b)[2] = two[2]
  <2>1. 1 \in 1..Len(two) /\ 2 \in 1..Len(two)
    BY <1>2
  <2>2. \A i \in 1..Len(two) : (two \o b)[i] = two[i]
    BY <1>1, <1>2, ConcatFirst, Zenon
  <2> QED BY <2>1, <2>2, Zenon
<1>6. From(two \o b, 3) = b
  <2>1. From(two \o b, Len(two) + 1) = b
    BY <1>1, <1>2, FromConcat
  <2>2. Len(two) + 1 = 3
    BY <1>2
  <2> QED BY <2>1, <2>2
<1>7. Len(two \o b) >= 2
  BY <1>4
<1> QED BY <1>2, <1>4, <1>5, <1>6, <1>7 DEF two

\* The frame of a payload that is not too long for its length.
LEMMA ReadFrame ==
    ASSUME NEW type \in Nat, type < Huge, NEW payload \in Octets, FitsLength(Len(payload)),
           NEW rest \in Octets
    PROVE  /\ EncodeMessage(type, payload) \in Octets
           /\ DecodeMessage(EncodeMessage(type, payload) \o rest)
                = Parsed([type |-> type, payload |-> payload], rest)
<1> DEFINE n == Len(payload)
           h == (n \div 256) % 256
           l == n % 256
           u == U(type)
           e == EncodeVarint(u)
           two == <<h, l>>
           b == payload \o rest
           left == two \o b
           buf == e \o left
<1>1. n \in Nat /\ b \in Octets
  BY OctetFacts
<1>2. h \in Byte /\ l \in Byte /\ h * 256 + l = n
  <2> HIDE DEF n
  <2> QED BY <1>1, TwoBytes DEF n
<1>3. u \in U64 /\ Num(u) = type
  BY ThreeBytes
<1> HIDE DEF u
<1>4. e \in Octets
  BY <1>3, VarintBytes
<1>5. EncodeMessage(type, payload) = (e \o two) \o payload
  BY DEF EncodeMessage, u
<1> HIDE DEF n, h, l, e, b
<1>6. two \in Octets
  <2>1. two \in Seq(Byte)
    BY <1>2
  <2> QED BY <2>1 DEF Octets
<1>7. left \in Octets /\ Len(left) >= 2 /\ left[1] = h /\ left[2] = l /\ From(left, 3) = b
  BY <1>1, <1>2, BehindLength
<1> HIDE DEF two
<1>8. (e \o two) \o payload \in Octets /\ ((e \o two) \o payload) \o rest = buf
  <2>1. e \o two \in Octets
    BY <1>4, <1>6, OctetFacts
  <2>2. ((e \o two) \o payload) \o rest = (e \o two) \o b
    <3> DEFINE front == e \o two
    <3>1. front \in Octets
      BY <2>1
    <3> HIDE DEF front
    <3>2. (front \o payload) \o rest = front \o (payload \o rest)
      BY <3>1, Regroup, Zenon
    <3> QED BY <3>2 DEF front, b
  <2>3. (e \o two) \o b = e \o (two \o b)
    <3> HIDE DEF two
    <3>1. e \in Octets /\ two \in Octets /\ b \in Octets
      BY <1>1, <1>4, <1>6
    <3> QED BY <3>1, Regroup, Zenon
  <2> QED BY <2>1, <2>2, <2>3, OctetFacts
<1>9. DecodeVarint(buf) = Parsed(u, left)
  BY <1>3, <1>7, ReadVarint DEF e
<1>10. Take(n, b) = Parsed(payload, rest)
  BY TakeFirst DEF n, b
<1> HIDE DEF left, buf
<1>11. DecodeMessage(buf) =
         LET r == DecodeVarint(buf)
             t == Take(r.rest[1] * 256 + r.rest[2], From(r.rest, 3))
         IN IF r.ok THEN IF Len(r.rest) < 2 THEN Failed
                         ELSE IF t.ok
                         THEN Parsed([type |-> Num(r.value), payload |-> t.value], t.rest)
                         ELSE Failed
                    ELSE Failed
  BY DEF DecodeMessage, DecodeFrame, Then
<1>12. ~(Len(left) < 2)
  <2>1. Len(left) \in Nat
    BY <1>7, OctetFacts
  <2> QED BY <1>7, <2>1
<1>13. DecodeMessage(buf) = Parsed([type |-> type, payload |-> payload], rest)
  <2>1. Take(left[1] * 256 + left[2], From(left, 3)) = Parsed(payload, rest)
    BY <1>2, <1>7, <1>10
  <2> QED BY <1>3, <1>9, <1>11, <1>12, <2>1, ParsedFields
<1> QED BY <1>5, <1>8, <1>13

\* The messages that are built, and the bytes of their fields.
Messages ==
    UNION {{Message(type, fields) : fields \in FieldsOf(Fields(type))} : type \in MessageTypes}

Payload(m) == FlattenSeq([i \in DOMAIN m.fields |-> EncodeKind(Fields(m.type)[i], m.fields[i])])

\* What encode writes of a message it accepts, decode reads: the same message, and
\* the bytes behind it are left as they were.
THEOREM MessageRoundTrip ==
    ASSUME NEW m \in Messages, Encodable(m), FitsLength(Len(Payload(m))), NEW rest \in Octets
    PROVE  Encode(m) \in Octets /\ Decode(Encode(m) \o rest) = Parsed(m, rest)
<1>0. PICK type \in MessageTypes : \E fields \in FieldsOf(Fields(type)) : m = Message(type, fields)
  BY DEF Messages
<1>1. PICK fields \in FieldsOf(Fields(type)) : m = Message(type, fields)
  BY <1>0
<1>2. m.type = type /\ m.fields = fields
  BY <1>1 DEF Message
<1> DEFINE kinds == Fields(type)
           payload == Payload(m)
           e == Encode(m)
           buf == e \o rest
           frame == [type |-> type, payload |-> payload]
<1>3. /\ kinds \in Seq(Kinds)
      /\ \A i \in 1..Len(kinds) : kinds[i] = "pairs" => i = Len(kinds)
  BY FieldKinds
<1>4. \A i \in DOMAIN fields : FieldEncodable(kinds[i], fields[i])
  BY <1>2 DEF Encodable
<1>5. payload = FlattenSeq([i \in DOMAIN fields |-> EncodeKind(kinds[i], fields[i])])
  BY <1>2 DEF Payload
<1>6. e = EncodeMessage(type, payload)
  BY <1>2, <1>5 DEF Encode, EncodeWith, EncodeKind
<1> HIDE DEF kinds, payload, e
<1>7. payload \in Octets /\ DecodeFields(DecodeField, kinds, payload) = Parsed(fields, << >>)
  <2>1. fields \in FieldsOf(kinds)
    BY DEF kinds
  <2> QED BY <1>3, <1>4, <1>5, <2>1, ReadFields
<1>8. e \in Octets /\ DecodeMessage(buf) = Parsed(frame, rest)
  <2>1. type \in Nat /\ type < Huge
    BY TypeIsSmall
  <2>2. FitsLength(Len(payload))
    BY DEF payload
  <2> QED BY <1>6, <1>7, <2>1, <2>2, ReadFrame
<1> HIDE DEF buf
<1>9. Decode(buf) =
        LET r == DecodeMessage(buf)
            s == IF r.value.type \in MessageTypes
                 THEN DecodeFields(DecodeField, Fields(r.value.type), r.value.payload) ELSE Failed
        IN IF r.ok THEN IF s.ok THEN Parsed(Message(r.value.type, s.value), r.rest) ELSE Failed
           ELSE Failed
  BY DEF Decode, Then
<1>10. frame.type = type /\ frame.payload = payload
  OBVIOUS
<1> HIDE DEF frame
<1>11. Decode(buf) = Parsed(m, rest)
  BY <1>1, <1>7, <1>8, <1>9, <1>10, ParsedFields DEF kinds
<1> QED BY <1>8, <1>11 DEF e, buf

\* The headers of data streams.
Headers ==
    [properties : BOOLEAN, firstObject : BOOLEAN, endOfGroup : BOOLEAN, alias : U64, group : U64,
     subgroup : {s \in Seq(U64) : Len(s) <= 1}, priority : {p \in Octets : Len(p) <= 1}]

\* What a type says of its header.
TypeSays(type, h) ==
    /\ type \in Nat /\ type < Huge /\ type \in ValidHeaderTypes
    /\ IsEven(type) = (~h.properties) /\ IsEven(type \div 8) = (~h.endOfGroup)
    /\ HasSubgroup(type) = (h.subgroup # << >>)
    /\ HasPriority(type) = (h.priority # << >>)

\* The bits of the type of a header, with the one for its first object or without.
LEMMA TypeBits ==
    ASSUME NEW h \in Headers, NEW f \in {0, 2}, f = 2 => h.subgroup = << >>
    PROVE  TypeSays(HeaderType(h) + f, h)
<1> DEFINE x == IF h.properties THEN 1 ELSE 0
           y == IF h.subgroup # << >> THEN 4 ELSE 0
           z == IF h.endOfGroup THEN 8 ELSE 0
           w == IF h.priority = << >> THEN 32 ELSE 0
           t == 16 + x + y + z + w + f
<1>1. HeaderType(h) + f = t
  BY DEF HeaderType
<1>2. /\ x \in {0, 1} /\ y \in {0, 4} /\ z \in {0, 8} /\ w \in {0, 32}
      /\ h.properties = (x = 1) /\ h.endOfGroup = (z = 8)
      /\ (h.subgroup # << >>) = (y = 4) /\ (h.priority # << >>) = (w = 0)
      /\ f \in {0, 2} /\ (f = 2 => y = 0)
  BY DEF Headers
<1> HIDE DEF x, y, z, w
<1>3. t \in Nat /\ t \in ValidHeaderTypes /\ t < 100
  <2> DEFINE low == x + y + f
  <2>1. low \in 0..5
    BY <1>2, SMT
  <2>2. t = 16 + low + z + w
    BY <1>2, SMT
  <2> HIDE DEF low, t
  <2>3. (z = 0 \/ z = 8) /\ (w = 0 \/ w = 32)
    <3>1. z \in {0, 8} /\ w \in {0, 32}
      BY <1>2
    <3> QED BY <3>1
  <2>4. t \in Nat /\ (t \in 16..21 \/ t \in 24..29 \/ t \in 48..53 \/ t \in 56..61)
    <3>1. CASE z = 0 /\ w = 0
      <4>1. t = 16 + low
        BY <2>1, <2>2, <3>1
      <4> QED BY <2>1, <4>1
    <3>2. CASE z = 8 /\ w = 0
      <4>1. t = 24 + low
        BY <2>1, <2>2, <3>2
      <4> QED BY <2>1, <4>1
    <3>3. CASE z = 0 /\ w = 32
      <4>1. t = 48 + low
        BY <2>1, <2>2, <3>3
      <4> QED BY <2>1, <4>1
    <3>4. CASE z = 8 /\ w = 32
      <4>1. t = 56 + low
        BY <2>1, <2>2, <3>4
      <4> QED BY <2>1, <4>1
    <3> QED BY <2>3, <3>1, <3>2, <3>3, <3>4
  <2> QED BY <2>4 DEF ValidHeaderTypes
<1>4. IsEven(t) = (x # 1) /\ IsEven(t \div 8) = (z # 8)
  BY <1>2, SMT DEF IsEven
<1>5. HasSubgroup(t) = (y = 4) /\ HasPriority(t) = (w = 0)
  <2>1. t \in Nat /\ (t \div 2) % 4 = IF y = 4 THEN 2 ELSE IF f = 2 THEN 1 ELSE 0
    <3> DEFINE half == 8 + (IF y = 4 THEN 2 ELSE 0) + (IF f = 2 THEN 1 ELSE 0)
                     + (IF z = 8 THEN 4 ELSE 0) + (IF w = 32 THEN 16 ELSE 0)
    <3>1. t = 2 * half + x /\ half \in Nat
      BY <1>2, SMT
    <3>2. t \div 2 = half
      <4> HIDE DEF half, t
      <4> QED BY <1>2, <3>1, SMT
    <3>3. half % 4 = IF y = 4 THEN 2 ELSE IF f = 2 THEN 1 ELSE 0
      BY <1>2, SMT
    <3> QED BY <1>3, <3>2, <3>3
  <2>2. (t \div 32) % 2 = (IF w = 0 THEN 0 ELSE 1)
    <3> DEFINE low == 16 + x + y + z + f
    <3>1. low \in 0..31 /\ t = low + w
      BY <1>2, SMT
    <3>2. t \div 32 = (IF w = 0 THEN 0 ELSE 1)
      <4> HIDE DEF low, t
      <4> QED BY <1>2, <3>1, SMT
    <3> QED BY <1>2, <3>2, SMT
  <2> HIDE DEF t
  <2>3. HasSubgroup(t) = (y = 4)
    BY <1>2, <2>1 DEF HasSubgroup
  <2>4. HasPriority(t) = (w = 0)
    BY <1>2, <2>2 DEF HasPriority
  <2> QED BY <2>3, <2>4
<1>6. 100 < Huge /\ Huge \in Nat
  <2>1. 2^24 = 16777216
    BY SMT
  <2> QED BY <2>1, SMT DEF Huge
<1> HIDE DEF t
<1>7. t < Huge
  BY <1>3, <1>6
<1>8. IsEven(t) = (~h.properties) /\ IsEven(t \div 8) = (~h.endOfGroup)
  BY <1>2, <1>4 DEF Headers
<1> QED BY <1>1, <1>2, <1>3, <1>5, <1>7, <1>8 DEF TypeSays

\* At most one integer.
LEMMA ReadOptional ==
    ASSUME NEW us \in Seq(U64), Len(us) <= 1, NEW rest \in Octets
    PROVE  DecodeInts(IF us # << >> THEN 1 ELSE 0, EncodeInts(us) \o rest) = Parsed(us, rest)
<1>1. DecodeInts(Len(us), EncodeInts(us) \o rest) = Parsed(us, rest)
  BY ReadInts
<1>2. Len(us) \in Nat /\ (us = << >> <=> Len(us) = 0)
  BY LenProperties, EmptySeq
<1>3. Len(us) = IF us # << >> THEN 1 ELSE 0
  <2> DEFINE n == Len(us)
  <2> HIDE DEF n
  <2>1. n \in Nat /\ n <= 1 /\ (us = << >> <=> n = 0)
    BY <1>2 DEF n
  <2>2. CASE us = << >>
    BY <2>1, <2>2 DEF n
  <2>3. CASE us # << >>
    <3>1. n = 1
      BY <2>1, <2>3
    <3> QED BY <2>3, <3>1 DEF n
  <2> QED BY <2>2, <2>3
<1> QED BY <1>1, <1>3

\* At most one byte.
LEMMA TakeOptional ==
    ASSUME NEW p \in Octets, Len(p) <= 1, NEW rest \in Octets
    PROVE  Take(IF p # << >> THEN 1 ELSE 0, p \o rest) = Parsed(p, rest)
<1>1. Take(Len(p), p \o rest) = Parsed(p, rest)
  BY TakeFirst
<1>2. Len(p) \in Nat /\ (p = << >> => Len(p) = 0) /\ (p # << >> => Len(p) \in Nat \ {0})
  BY OctetFacts, EmptySeq
<1>3. Len(p) = IF p # << >> THEN 1 ELSE 0
  <2> DEFINE n == Len(p)
  <2> HIDE DEF n
  <2>1. n \in Nat /\ n <= 1 /\ (p = << >> => n = 0) /\ (p # << >> => n \in Nat \ {0})
    BY <1>2 DEF n
  <2>2. CASE p = << >>
    BY <2>1, <2>2 DEF n
  <2>3. CASE p # << >>
    <3>1. n = 1
      BY <2>1, <2>3
    <3> QED BY <2>3, <3>1 DEF n
  <2> QED BY <2>2, <2>3
<1> QED BY <1>1, <1>3

\* Three integers.
LEMMA EncodeThree ==
    ASSUME NEW a \in U64, NEW b \in U64, NEW c \in U64
    PROVE  /\ <<a, b, c>> \in Seq(U64) /\ Len(<<a, b, c>>) = 3
           /\ EncodeInts(<<a, b, c>>) = (EncodeVarint(a) \o EncodeVarint(b)) \o EncodeVarint(c)
<1> DEFINE us == <<a, b, c>>
           encs == [i \in DOMAIN us |-> EncodeVarint(us[i])]
           d == EncodeVarint(a)
           e == EncodeVarint(b)
           f == EncodeVarint(c)
           none == << >>
           one == Append(none, d)
           two == Append(one, e)
           three == Append(two, f)
<1>1. us \in Seq(U64) /\ Len(us) = 3 /\ DOMAIN us = 1..3 /\ us[1] = a /\ us[2] = b /\ us[3] = c
  OBVIOUS
<1>2. encs \in Seq(Octets) /\ Len(encs) = 3 /\ encs[1] = d /\ encs[2] = e /\ encs[3] = f
  <2> HIDE DEF us
  <2>1. encs \in Seq(Octets) /\ Len(encs) = 3
    BY <1>1, IntEncodings
  <2>2. 1 \in DOMAIN us /\ 2 \in DOMAIN us /\ 3 \in DOMAIN us
    BY <1>1
  <2> QED BY <1>1, <2>1, <2>2
<1>3. d \in Octets /\ e \in Octets /\ f \in Octets
  BY VarintBytes
<1>4. none \in Seq(Octets) /\ FlattenSeq(none) = << >>
  BY EmptySeq DEF FlattenSeq
<1> HIDE DEF encs, d, e, f, us, none
<1>5. /\ one \in Seq(Octets) /\ two \in Seq(Octets) /\ three \in Seq(Octets)
      /\ Len(none) = 0 /\ Len(one) = 1 /\ Len(two) = 2 /\ Len(three) = 3
      /\ three[1] = d /\ three[2] = e /\ three[3] = f
  BY <1>3, <1>4 DEF none
<1>6. encs = three
  <2> HIDE DEF three
  <2> QED BY <1>2, <1>5
<1>7. /\ FlattenSeq(one) = FlattenSeq(none) \o d /\ FlattenSeq(two) = FlattenSeq(one) \o e
      /\ FlattenSeq(three) = FlattenSeq(two) \o f
  <2>1. Octets = Seq(Byte)
    BY DEF Octets
  <2> QED BY <1>3, <1>4, <1>5, <2>1, FlattenAppend
<1>8. << >> \o d = d
  BY <1>3, OctetFacts
<1>9. FlattenSeq(encs) = (d \o e) \o f
  BY <1>4, <1>6, <1>7, <1>8
<1> QED BY <1>1, <1>9 DEF EncodeInts, encs, us, d, e, f

\* A header without what its type has no bit for.
Unsaid(h) ==
    [properties |-> h.properties, firstObject |-> FALSE, endOfGroup |-> h.endOfGroup,
     alias |-> h.alias, group |-> h.group, subgroup |-> h.subgroup, priority |-> h.priority]

\* What is written of a header under a type that fits it, decode reads.
LEMMA ReadHeader ==
    ASSUME NEW h \in Headers, NEW type, TypeSays(type, h), NEW rest \in Octets
    PROVE  DecodeSubgroupHeader(EncodeSubgroupHeader(type, h) \o rest) = Parsed(Unsaid(h), rest)
<1> DEFINE u == U(type)
           ints == <<u, h.alias, h.group>>
           three == EncodeInts(ints)
           s == EncodeInts(h.subgroup)
           p == h.priority
           tail == p \o rest
           left == s \o tail
           e == EncodeSubgroupHeader(type, h)
           buf == three \o left
<1>1. /\ type \in Nat /\ type < Huge /\ type \in ValidHeaderTypes
      /\ IsEven(type) = (~h.properties) /\ IsEven(type \div 8) = (~h.endOfGroup)
      /\ HasSubgroup(type) = (h.subgroup # << >>)
      /\ HasPriority(type) = (h.priority # << >>)
  BY DEF TypeSays
<1>2. /\ h.alias \in U64 /\ h.group \in U64 /\ h.subgroup \in Seq(U64) /\ Len(h.subgroup) <= 1
      /\ p \in Octets /\ Len(p) <= 1 /\ h.properties \in BOOLEAN /\ h.endOfGroup \in BOOLEAN
  BY DEF Headers
<1>16. Unsaid(h) = [properties |-> h.properties, firstObject |-> FALSE, endOfGroup |-> h.endOfGroup,
                    alias |-> h.alias, group |-> h.group, subgroup |-> h.subgroup, priority |-> p]
  BY DEF Unsaid
<1>3. u \in U64 /\ Num(u) = type
  BY <1>1, ThreeBytes
<1> HIDE DEF u
<1>4. ints \in Seq(U64) /\ Len(ints) = 3 /\ ints[1] = u /\ ints[2] = h.alias /\ ints[3] = h.group
  BY <1>2, <1>3
<1>5. three = (EncodeVarint(u) \o EncodeVarint(h.alias)) \o EncodeVarint(h.group)
  BY <1>2, <1>3, EncodeThree
<1>6. e = (three \o s) \o p
  BY <1>5 DEF EncodeSubgroupHeader, u
<1>7. /\ three \in Octets /\ s \in Octets
      /\ DecodeInts(3, three \o left) = Parsed(ints, left)
  <2>1. ints \in Seq(U64)
    BY <1>2, <1>3
  <2>2. s \in Octets
    BY <1>2, OctetFacts, ReadInts
  <2>3. left \in Octets
    BY <1>2, <2>2, OctetFacts
  <2> HIDE DEF ints, left, s
  <2>4. three \in Octets /\ DecodeInts(Len(ints), three \o left) = Parsed(ints, left)
    BY <2>1, <2>3, ReadInts
  <2> QED BY <1>4, <2>2, <2>4
<1>8. e \o rest = buf
  <2> DEFINE v == h.subgroup
  <2> HIDE DEF three, s, p, v
  <2>1. three \o s \in Octets /\ s \o p \in Octets
    BY <1>2, <1>7, OctetFacts DEF p
  <2>2. ((three \o s) \o p) \o rest = (three \o s) \o (p \o rest)
    <3> DEFINE front == three \o s
    <3>1. front \in Octets
      BY <2>1
    <3> HIDE DEF front
    <3>2. (front \o p) \o rest = front \o (p \o rest)
      BY <1>2, <3>1, Regroup DEF p
    <3> QED BY <3>2 DEF front
  <2>3. p \o rest \in Octets
    BY <1>2, OctetFacts DEF p
  <2>4. (three \o s) \o tail = three \o (s \o tail)
    BY <1>7, <2>3, Regroup
  <2> HIDE DEF e
  <2> QED BY <1>6, <2>2, <2>4 DEF p
<1> DEFINE one == IF HasSubgroup(type) THEN 1 ELSE 0
           priorities == IF HasPriority(type) THEN 1 ELSE 0
<1>9. DecodeInts(one, left) = Parsed(h.subgroup, tail)
  <2>1. tail \in Octets
    BY <1>2, OctetFacts
  <2>2. DecodeInts(IF h.subgroup # << >> THEN 1 ELSE 0, left) = Parsed(h.subgroup, tail)
    BY <1>2, <2>1, ReadOptional
  <2> QED BY <1>1, <2>2
<1>10. Take(priorities, tail) = Parsed(p, rest)
  BY <1>1, <1>2, TakeOptional
<1> HIDE DEF tail, left, buf, ints, one, priorities, e
<1> DEFINE Optional(t, bytes) ==
             LET q == DecodeInts(IF HasSubgroup(t) THEN 1 ELSE 0, bytes)
                 o == Take(IF HasPriority(t) THEN 1 ELSE 0, q.rest)
             IN IF q.ok THEN IF o.ok
                             THEN Parsed([subgroup |-> q.value, priority |-> o.value], o.rest)
                             ELSE Failed
                        ELSE Failed
           Joined(t, us, x) ==
             IF x.ok THEN Parsed([properties |-> ~IsEven(t), firstObject |-> FALSE,
                                  endOfGroup |-> ~IsEven(t \div 8), alias |-> us[2],
                                  group |-> us[3], subgroup |-> x.value.subgroup,
                                  priority |-> x.value.priority], x.rest)
                     ELSE Failed
<1>11. DecodeSubgroupHeader(buf) =
         LET r == DecodeInts(3, buf)
             t == Num(r.value[1])
         IN IF r.ok
            THEN IF t \notin ValidHeaderTypes THEN Failed
                 ELSE Joined(t, r.value, Optional(t, r.rest))
            ELSE Failed
  BY DEF DecodeSubgroupHeader, DecodeHeader, DecodeInts, Then
<1> DEFINE optional == [subgroup |-> h.subgroup, priority |-> p]
<1>12. optional.subgroup = h.subgroup /\ optional.priority = p
  OBVIOUS
<1>17. Optional(type, left) = Parsed(optional, rest)
  <2> DEFINE v == h.subgroup
             q == DecodeInts(IF HasSubgroup(type) THEN 1 ELSE 0, left)
             o == Take(IF HasPriority(type) THEN 1 ELSE 0, q.rest)
  <2>1. q = Parsed(v, tail) /\ q.rest = tail /\ q.value = v /\ q.ok
    BY <1>9, ParsedFields DEF one
  <2>2. o = Parsed(p, rest) /\ o.rest = rest /\ o.value = p /\ o.ok
    BY <1>10, <2>1, ParsedFields DEF priorities
  <2>3. Optional(type, left) =
          IF q.ok THEN IF o.ok THEN Parsed([subgroup |-> q.value, priority |-> o.value], o.rest)
                               ELSE Failed
                  ELSE Failed
    OBVIOUS
  <2> HIDE DEF q, o, Optional
  <2> QED BY <2>1, <2>2, <2>3
<1> HIDE DEF optional, Optional
<1>13. DecodeSubgroupHeader(buf) =
         Parsed([properties |-> ~IsEven(type), firstObject |-> FALSE,
                 endOfGroup |-> ~IsEven(type \div 8), alias |-> ints[2],
                 group |-> ints[3], subgroup |-> optional.subgroup,
                 priority |-> optional.priority], rest)
  <2> DEFINE w == Parsed(optional, rest)
             r == DecodeInts(3, buf)
  <2>1. r = Parsed(ints, left) /\ r.ok /\ r.value = ints /\ r.rest = left
    BY <1>7, ParsedFields DEF buf
  <2>2. Num(ints[1]) = type
    BY <1>3, <1>4
  <2>3. w.ok /\ w.value = optional /\ w.rest = rest
    BY ParsedFields
  <2> HIDE DEF r, Joined
  <2>4. DecodeSubgroupHeader(buf) = Joined(type, ints, w)
    BY <1>1, <1>11, <1>17, <2>1, <2>2 DEF r
  <2> HIDE DEF w
  <2> QED BY <2>3, <2>4 DEF Joined
<1>14. (~IsEven(type)) = h.properties /\ (~IsEven(type \div 8)) = h.endOfGroup
  BY <1>1, <1>2
<1>15. DecodeSubgroupHeader(buf) = Parsed(Unsaid(h), rest)
  BY <1>4, <1>12, <1>13, <1>14, <1>16
<1> QED BY <1>8, <1>15 DEF e

\* What is written of a header, decode reads, except for "the subgroup's id is that
\* of its first object", for which HeaderType has no bit.
THEOREM HeaderRoundTrip ==
    ASSUME NEW h \in Headers, NEW rest \in Octets
    PROVE  DecodeSubgroupHeader(EncodeSubgroupHeader(HeaderType(h), h) \o rest) =
             Parsed(Unsaid(h), rest)
<1>1. TypeSays(HeaderType(h) + 0, h)
  BY TypeBits
<1>2. HeaderType(h) \in Int
  BY DEF HeaderType
<1>3. TypeSays(HeaderType(h), h)
  BY <1>1, <1>2
<1> QED BY <1>3, ReadHeader
=============================================================================
