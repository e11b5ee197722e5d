-------------------------- MODULE WireStreamProofs --------------------------
(***************************************************************************)
(* What is written to a stream is read from it, in whatever pieces it      *)
(* arrives, and again after the relay has passed it on: for the streams of *)
(* this implementation, of any length, with any values, and native         *)
(* readers.                                                                *)
(*                                                                         *)
(* The bytes of an item are the flattening of its parts, what the reader   *)
(* reads at a time.  Where the reader is follows from how many items and   *)
(* parts it has: the bytes it has not used are those of the other parts    *)
(* and of the items behind (Within, Between).                              *)
(***************************************************************************)
EXTENDS WireProofs

----------------------------------------------------------------------------
(* Bytes that are left of a stream *)

\* What is left of bytes, byte by byte.
LEMMA FromBytes ==
    ASSUME NEW w \in Octets, NEW u \in 0..Len(w)
    PROVE  /\ From(w, u + 1) \in Octets /\ Len(From(w, u + 1)) = Len(w) - u
           /\ \A i \in 1..(Len(w) - u) : From(w, u + 1)[i] = w[u + i]
<1>1. w \in Seq(Byte) /\ Len(w) \in Nat /\ \A k \in 1..Len(w) : w[k] \in Byte
  BY DEF Octets
<1> DEFINE l == Len(w)
<1>2. \A i \in (u + 1)..l : w[i] \in Byte
  BY <1>1
<1>3. u + 1 \in Int /\ l \in Int
  BY <1>1
<1>4. /\ SubSeq(w, u + 1, l) \in Seq(Byte)
      /\ Len(SubSeq(w, u + 1, l)) = IF u + 1 <= l THEN l - (u + 1) + 1 ELSE 0
  BY <1>2, <1>3, SubSeqProperties
<1>5. Len(SubSeq(w, u + 1, l)) = l - u
  BY <1>1, <1>4
<1>6. \A i \in 1..(l - u) : SubSeq(w, u + 1, l)[i] = w[u + i]
  BY <1>1
<1> QED BY <1>4, <1>5, <1>6 DEF From, Octets

\* Of the bytes b, y the next n after u are a, and then comes z.
Follows(b, y, u, n, a, z) ==
    /\ SubSeq(b, u + 1, u + n) = a /\ From(b \o y, u + n + 1) = z
    /\ \A i \in 1..n : b[u + i] = a[i]

\* The next n bytes are the first n of what is left.
LEMMA NextBytes ==
    \A b \in Octets, y \in Octets, u \in Nat, n \in Nat, a \in Octets, z \in Octets :
      (u + n <= Len(b) /\ Len(a) = n /\ From(b \o y, u + 1) = a \o z) =>
        Follows(b, y, u, n, a, z)
<1> TAKE b \in Octets, y \in Octets, u \in Nat, n \in Nat, a \in Octets, z \in Octets
<1> HAVE u + n <= Len(b) /\ Len(a) = n /\ From(b \o y, u + 1) = a \o z
<1> DEFINE w == b \o y
           l == Len(b)
<1>1. /\ w \in Octets /\ Len(w) = l + Len(y) /\ l \in Nat /\ Len(y) \in Nat /\ Len(z) \in Nat
      /\ a \o z \in Octets /\ Len(a \o z) = n + Len(z)
  BY OctetFacts
<1>2. \A i \in 1..l : w[i] = b[i]
  <2>1. b \in Seq(Byte) /\ y \in Seq(Byte)
    BY DEF Octets
  <2> QED BY <2>1, ConcatFirst
<1>3. \A i \in 1..n : (a \o z)[i] = a[i]
  <2>1. a \in Seq(Byte) /\ z \in Seq(Byte)
    BY DEF Octets
  <2> QED BY <2>1, ConcatFirst
<1>4. \A i \in 1..Len(z) : (a \o z)[n + i] = z[i]
  BY DEF Octets
<1> HIDE DEF w
<1>5. u \in 0..Len(w) /\ u + n \in 0..Len(w)
  BY <1>1
<1>6. /\ Len(From(w, u + 1)) = Len(w) - u
      /\ \A i \in 1..(Len(w) - u) : From(w, u + 1)[i] = w[u + i]
  BY <1>1, <1>5, FromBytes
<1>7. /\ From(w, u + n + 1) \in Octets /\ Len(From(w, u + n + 1)) = Len(w) - (u + n)
      /\ \A i \in 1..(Len(w) - (u + n)) : From(w, u + n + 1)[i] = w[(u + n) + i]
  BY <1>1, <1>5, FromBytes
<1>8. From(w, u + 1) = a \o z
  BY DEF w
<1>9. Len(w) - u = n + Len(z)
  BY <1>1, <1>6, <1>8
<1>10. \A i \in 1..(n + Len(z)) : (a \o z)[i] = w[u + i]
  BY <1>6, <1>8, <1>9
<1>11. SubSeq(b, u + 1, u + n) = a
  <2> DEFINE s == SubSeq(b, u + 1, u + n)
  <2>1. b \in Seq(Byte) /\ \A k \in 1..l : b[k] \in Byte
    BY DEF Octets
  <2>2. \A k \in (u + 1)..(u + n) : b[k] \in Byte
    BY <1>1, <2>1
  <2>3. u + 1 \in Int /\ u + n \in Int
    OBVIOUS
  <2>4. s \in Seq(Byte) /\ Len(s) = IF u + 1 <= u + n THEN (u + n) - (u + 1) + 1 ELSE 0
    BY <2>2, <2>3, SubSeqProperties
  <2>5. Len(s) = n
    BY <2>4
  <2>6. ASSUME NEW i \in 1..n PROVE s[i] = a[i]
    <3>1. s[i] = b[u + i]
      BY <2>1
    <3>2. u + i \in 1..l /\ i \in 1..(n + Len(z))
      BY <1>1
    <3>3. b[u + i] = w[u + i] /\ (a \o z)[i] = w[u + i] /\ (a \o z)[i] = a[i]
      BY <1>2, <1>3, <1>10, <3>2
    <3> QED BY <3>1, <3>3
  <2> HIDE DEF s
  <2>7. a \in Seq(Byte)
    BY DEF Octets
  <2>8. s = a
    BY <2>4, <2>5, <2>6, <2>7, SeqEqual
  <2> QED BY <2>8 DEF s
<1>13. \A i \in 1..n : b[u + i] = a[i]
  <2>1. b \in Seq(Byte)
    BY DEF Octets
  <2>2. \A i \in 1..n : SubSeq(b, u + 1, u + n)[i] = b[u + i]
    BY <2>1
  <2> QED BY <1>11, <2>2
<1>12. From(w, u + n + 1) = z
  <2> DEFINE s == From(w, u + n + 1)
  <2>1. s \in Seq(Byte) /\ z \in Seq(Byte) /\ Len(s) = Len(z)
    BY <1>1, <1>7, <1>9 DEF Octets
  <2>2. ASSUME NEW i \in 1..Len(z) PROVE s[i] = z[i]
    <3>1. n + i \in 1..(n + Len(z)) /\ i \in 1..(Len(w) - (u + n)) /\ u + (n + i) = (u + n) + i
      BY <1>1, <1>9
    <3>2. s[i] = w[(u + n) + i] /\ (a \o z)[n + i] = w[u + (n + i)] /\ (a \o z)[n + i] = z[i]
      BY <1>4, <1>7, <1>10, <3>1
    <3> QED BY <3>1, <3>2
  <2> HIDE DEF s
  <2>3. s = z
    BY <2>1, <2>2, SeqEqual
  <2> QED BY <2>3 DEF s
<1> QED BY <1>11, <1>12, <1>13 DEF w, Follows

\* The first k elements and what is left.
LEMMA FirstAndLeft ==
    ASSUME NEW seqs \in Seq(Octets), NEW k \in 0..Len(seqs)
    PROVE  /\ FlattenSeq(SubSeq(seqs, 1, k)) \in Octets /\ Left(seqs, k) \in Octets
           /\ FlattenSeq(seqs) = FlattenSeq(SubSeq(seqs, 1, k)) \o Left(seqs, k)
<1> DEFINE n == Len(seqs)
           s == SubSeq(seqs, 1, k)
           t == SubSeq(seqs, k + 1, n)
<1>1. n \in Nat /\ \A i \in 1..n : seqs[i] \in Octets
  BY LenProperties, ElementOfSeq
<1>2. s \in Seq(Octets)
  <2>1. \A i \in 1..k : seqs[i] \in Octets
    BY <1>1
  <2>2. k \in Int
    OBVIOUS
  <2> QED BY <2>1, <2>2, SubSeqProperties
<1>3. t \in Seq(Octets)
  <2>1. \A i \in (k + 1)..n : seqs[i] \in Octets
    BY <1>1
  <2>2. k + 1 \in Int /\ n \in Int
    BY <1>1
  <2> HIDE DEF n
  <2> QED BY <2>1, <2>2, SubSeqProperties
<1>4. s \o t = seqs
  <2>1. 1 \in 1..(n + 1) /\ k \in (1 - 1)..n /\ n \in k..n
    BY <1>1
  <2>2. s \o t = SubSeq(seqs, 1, n)
    BY <2>1, ConcatAdjacentSubSeq
  <2> QED BY <2>2, SubSeqFull
<1>5. Octets = Seq(Byte)
  BY DEF Octets
<1> HIDE DEF s, t
<1>6. FlattenSeq(s \o t) = FlattenSeq(s) \o FlattenSeq(t)
  BY <1>2, <1>3, <1>5, FlattenConcat
<1>7. FlattenSeq(s) \in Octets /\ FlattenSeq(t) \in Octets
  BY <1>2, <1>3, <1>5, FlatTyped
<1> QED BY <1>4, <1>6, <1>7 DEF s, t, Left

\* What is left gets shorter with every element that is not empty.
LEMMA LeftShrinks ==
    ASSUME NEW seqs \in Seq(Octets), \A i \in 1..Len(seqs) : seqs[i] # << >>,
           NEW i \in 0..Len(seqs), NEW j \in 0..Len(seqs), i < j
    PROVE  Len(Left(seqs, j)) \in Nat /\ Len(Left(seqs, j)) < Len(Left(seqs, i))
<1> DEFINE n == Len(seqs)
           Bad == {k \in 0..(n - i) : i < k + i /\ ~(Len(Left(seqs, k + i)) < Len(Left(seqs, i)))}
<1>1. n \in Nat /\ \A k \in 1..n : seqs[k] \in Octets
  BY LenProperties, ElementOfSeq
<1>2. /\ \A k \in 0..n : Left(seqs, k) \in Octets
      /\ \A k \in 1..n : Left(seqs, k - 1) = seqs[k] \o Left(seqs, k)
  <2>1. Octets = Seq(Byte)
    BY DEF Octets
  <2> QED BY <2>1, LeftStep
<1>3. \A k \in 0..n : Len(Left(seqs, k)) \in Nat
  BY <1>2, OctetFacts
<1>4. ASSUME NEW k \in 1..n PROVE Len(Left(seqs, k)) < Len(Left(seqs, k - 1))
  <2> DEFINE a == seqs[k]
             b == Left(seqs, k)
  <2>1. a \in Octets /\ a # << >> /\ b \in Octets /\ Left(seqs, k - 1) = a \o b
    BY <1>1, <1>2
  <2> HIDE DEF a, b
  <2>2. Len(a) \in Nat \ {0} /\ Len(b) \in Nat /\ Len(a \o b) = Len(a) + Len(b)
    BY <2>1, OctetFacts
  <2>3. Len(b) < Len(Left(seqs, k - 1))
    BY <2>1, <2>2
  <2> QED BY <2>3 DEF b
<1> HIDE DEF n
<1>5. ASSUME Bad # {} PROVE FALSE
  <2>1. PICK k \in Bad : \A m \in Bad : k <= m
    <3>1. Bad \in SUBSET Nat
      BY <1>1 DEF n
    <3> HIDE DEF Bad
    <3> QED BY <1>5, <3>1, LeastNumber
  <2>2. k \in 0..(n - i) /\ i < k + i /\ ~(Len(Left(seqs, k + i)) < Len(Left(seqs, i)))
    OBVIOUS
  <2>3. k + i \in 1..n /\ (k + i) - 1 \in 0..n /\ k - 1 \in 0..(n - i) /\ i \in 0..n
        /\ (k - 1) + i = (k + i) - 1 /\ k + i \in 0..n
    BY <1>1, <2>2 DEF n
  <2>4. Len(Left(seqs, k + i)) < Len(Left(seqs, (k + i) - 1))
    BY <1>4, <2>3
  <2>5. CASE k = 1
    BY <2>2, <2>3, <2>4, <2>5
  <2>6. CASE k # 1
    <3>1. k - 1 \notin Bad
      <4>1. k \in Int /\ ~(k <= k - 1)
        BY <1>1, <2>2
      <4> HIDE DEF Bad
      <4> QED BY <2>1, <4>1
    <3>2. i < (k - 1) + i
      BY <1>1, <2>2, <2>6
    <3>3. Len(Left(seqs, (k + i) - 1)) < Len(Left(seqs, i))
      BY <2>3, <3>1, <3>2
    <3>4. /\ Len(Left(seqs, (k + i) - 1)) \in Nat /\ Len(Left(seqs, i)) \in Nat
          /\ Len(Left(seqs, k + i)) \in Nat
      BY <1>3, <2>3
    <3> QED BY <2>2, <2>4, <3>3, <3>4
  <2> QED BY <2>5, <2>6
<1>6. j - i \in 0..(n - i) /\ (j - i) + i = j /\ i < (j - i) + i
  BY <1>1 DEF n
<1>7. j - i \notin Bad
  BY <1>5
<1> QED BY <1>3, <1>6, <1>7 DEF n

----------------------------------------------------------------------------
(* The parts of a message *)

-----------------------------------------------------------------------------
\* The parts in which an item is read

\* A part that is read as an integer: its first byte tells its length.
IsIntPart(b) ==
    b \in Octets /\ b # << >> /\ FormOf(b[1]) = Len(b) /\ VarintByteLength(b[1]) = Len(b)

\* Every form is such a part.
LEMMA FormPart ==
    ASSUME NEW u \in U64, NEW len \in Lengths, Fits(u, len)
    PROVE  IsIntPart(InBytes(u, len)) /\ DecodeVarint(InBytes(u, len)) = Parsed(u, << >>)
<1> DEFINE b == InBytes(u, len)
           none == << >>
<1>1. /\ b \in Seq(Byte) /\ Len(b) = len
      /\ b[1] \in Prefix(len)..(Prefix(len) + Room(len) - 1)
  BY BytesOfForm
<1>2. FormOf(b[1]) = len /\ VarintByteLength(b[1]) = len
  <2> HIDE DEF b
  <2> QED BY <1>1, OneForm
<1>3. b # << >>
  <2>1. len # 0
    BY SMT DEF Lengths
  <2> HIDE DEF b
  <2> QED BY <1>1, <2>1, EmptySeq
<1>4. DecodeVarint(b) = Parsed(u, none)
  <2>1. none \in Seq(Byte)
    BY EmptySeq
  <2> HIDE DEF none
  <2>2. DecodeVarint(b \o none) = Parsed(u, none)
    BY <2>1, ReadForm
  <2> HIDE DEF b
  <2>3. b \o none = b
    BY <1>1, ConcatEmptySeq DEF none
  <2> QED BY <2>2, <2>3
<1> QED BY <1>1, <1>2, <1>3, <1>4 DEF IsIntPart, Octets

\* So is what EncodeVarint writes.
LEMMA VarintPart ==
    ASSUME NEW u \in U64
    PROVE  IsIntPart(EncodeVarint(u)) /\ DecodeVarint(EncodeVarint(u)) = Parsed(u, << >>)
<1>1. PICK len \in Lengths : Fits(u, len) /\ EncodeVarint(u) = InBytes(u, len)
  BY ShortestFits
<1> QED BY <1>1, FormPart

\* A number written as an integer.
LEMMA NumberPart ==
    ASSUME NEW n \in Nat, n < Huge
    PROVE  IsIntPart(EncodeVarint(U(n))) /\ Num(DecodeVarint(EncodeVarint(U(n))).value) = n
<1>1. U(n) \in U64 /\ Num(U(n)) = n
  BY ThreeBytes
<1> DEFINE u == U(n)
<1> HIDE DEF u
<1>2. IsIntPart(EncodeVarint(u)) /\ DecodeVarint(EncodeVarint(u)) = Parsed(u, << >>)
  BY <1>1, VarintPart DEF u
<1>3. DecodeVarint(EncodeVarint(u)).value = u
  BY <1>2, ParsedFields
<1> QED BY <1>1, <1>2, <1>3 DEF u

\* What is read after j parts fits the next one.
PlanFits(plan, parts, j) ==
    IF j = Len(parts) THEN plan = Nothing
    ELSE (plan = AnInt /\ IsIntPart(parts[j + 1])) \/ plan = Bytes(Len(parts[j + 1]))

\* The first parts.
LEMMA FirstParts ==
    ASSUME NEW c \in Seq(Octets), NEW j \in 0..Len(c)
    PROVE  LET q == SubSeq(c, 1, j)
           IN /\ q \in Seq(Octets) /\ Len(q) = j /\ DOMAIN q = 1..j
              /\ \A i \in 1..j : q[i] = c[i]
<1> DEFINE q == SubSeq(c, 1, j)
<1>1. \A i \in 1..Len(c) : c[i] \in Octets
  BY ElementOfSeq
<1>2. q \in Seq(Octets)
  <2>1. \A i \in 1..j : c[i] \in Octets
    BY <1>1
  <2> QED BY <2>1, SubSeqProperties
<1>3. Len(q) = j
  BY LenProperties
<1>4. \A i \in 1..j : q[i] = c[i]
  BY LenProperties
<1>5. DOMAIN q = 1..j
  <2> HIDE DEF q
  <2> QED BY <1>2, <1>3, LenProperties
<1> QED BY <1>2, <1>3, <1>4, <1>5

\* One part more.
LEMMA OnePartMore ==
    ASSUME NEW s \in Seq(Octets), NEW x \in Octets
    PROVE  /\ Append(s, x) \in Seq(Octets) /\ Len(Append(s, x)) = Len(s) + 1
           /\ \A i \in 1..Len(s) : Append(s, x)[i] = s[i]
           /\ Append(s, x)[Len(s) + 1] = x
  BY AppendProperties

\* One, two and three of them.
LEMMA FlattenThree ==
    ASSUME NEW a \in Octets, NEW b \in Octets, NEW c \in Octets
    PROVE  /\ <<a>> \in Seq(Octets) /\ FlattenSeq(<<a>>) = a
           /\ <<a, b>> \in Seq(Octets) /\ FlattenSeq(<<a, b>>) = a \o b
           /\ <<a, b, c>> \in Seq(Octets) /\ FlattenSeq(<<a, b, c>>) = (a \o b) \o c
<1> DEFINE none == << >>
<1>1. none \in Seq(Octets) /\ FlattenSeq(none) = << >>
  BY EmptySeq DEF FlattenSeq
<1>2. << >> \o a = a
  BY OctetFacts
<1>3. Octets = Seq(Byte)
  BY DEF Octets
<1>4. Append(none, a) = <<a>> /\ Append(<<a>>, b) = <<a, b>> /\ Append(<<a, b>>, c) = <<a, b, c>>
  <2>1. Append(none, a) = <<a>>
    BY <1>1
  <2>2. Append(<<a>>, b) = <<a, b>>
    <3> DEFINE s == <<a>>
               t == <<a, b>>
    <3>1. s \in Seq(Octets) /\ Len(s) = 1 /\ s[1] = a
      OBVIOUS
    <3>2. t \in Seq(Octets) /\ Len(t) = 2 /\ t[1] = a /\ t[2] = b
      OBVIOUS
    <3> HIDE DEF s, t
    <3>3. /\ Append(s, b) \in Seq(Octets) /\ Len(Append(s, b)) = 2
          /\ Append(s, b)[1] = a /\ Append(s, b)[2] = b
      <4>1. /\ Append(s, b) \in Seq(Octets) /\ Len(Append(s, b)) = Len(s) + 1
            /\ \A i \in 1..Len(s) : Append(s, b)[i] = s[i]
            /\ Append(s, b)[Len(s) + 1] = b
        BY <3>1, OnePartMore
      <4> QED BY <3>1, <4>1
    <3>4. Append(s, b) = t
      <4> DEFINE x == Append(s, b)
      <4> HIDE DEF x
      <4>1. Len(x) = Len(t) /\ x[1] = t[1] /\ x[2] = t[2] /\ x \in Seq(Octets) /\ 1..Len(x) = {1, 2}
        BY <3>2, <3>3 DEF x
      <4>2. \A i \in 1..Len(x) : x[i] = t[i]
        BY <4>1
      <4>3. x = t
        BY <3>2, <4>1, <4>2, SeqEqual
      <4> QED BY <4>3 DEF x
    <3> QED BY <3>4 DEF s, t
  <2>3. Append(<<a, b>>, c) = <<a, b, c>>
    <3> DEFINE s == <<a, b>>
               t == <<a, b, c>>
    <3>1. s \in Seq(Octets) /\ Len(s) = 2 /\ s[1] = a /\ s[2] = b
      OBVIOUS
    <3>2. t \in Seq(Octets) /\ Len(t) = 3 /\ t[1] = a /\ t[2] = b /\ t[3] = c
      OBVIOUS
    <3> HIDE DEF s, t
    <3>3. /\ Append(s, c) \in Seq(Octets) /\ Len(Append(s, c)) = 3
          /\ Append(s, c)[1] = a /\ Append(s, c)[2] = b /\ Append(s, c)[3] = c
      <4>1. /\ Append(s, c) \in Seq(Octets) /\ Len(Append(s, c)) = Len(s) + 1
            /\ \A i \in 1..Len(s) : Append(s, c)[i] = s[i]
            /\ Append(s, c)[Len(s) + 1] = c
        BY <3>1, OnePartMore
      <4> QED BY <3>1, <4>1
    <3>4. Append(s, c) = t
      <4> DEFINE x == Append(s, c)
      <4> HIDE DEF x
      <4>1. /\ Len(x) = Len(t) /\ x[1] = t[1] /\ x[2] = t[2] /\ x[3] = t[3]
            /\ x \in Seq(Octets) /\ 1..Len(x) = {1, 2, 3}
        BY <3>2, <3>3 DEF x
      <4>2. \A i \in 1..Len(x) : x[i] = t[i]
        BY <4>1
      <4>3. x = t
        BY <3>2, <4>1, <4>2, SeqEqual
      <4> QED BY <4>3 DEF x
    <3> QED BY <3>4 DEF s, t
  <2> QED BY <2>1, <2>2, <2>3
<1>5. <<a>> \in Seq(Octets) /\ <<a, b>> \in Seq(Octets) /\ <<a, b, c>> \in Seq(Octets)
  OBVIOUS
<1> HIDE DEF none
<1>6. \A s \in Seq(Octets) : \A x \in Octets : FlattenSeq(Append(s, x)) = FlattenSeq(s) \o x
  BY <1>3, FlattenAppend
<1>7. FlattenSeq(<<a>>) = a
  BY <1>1, <1>2, <1>4, <1>6
<1>8. FlattenSeq(<<a, b>>) = a \o b
  BY <1>4, <1>5, <1>6, <1>7
<1>9. FlattenSeq(<<a, b, c>>) = (a \o b) \o c
  BY <1>4, <1>5, <1>6, <1>8
<1> QED BY <1>5, <1>7, <1>8, <1>9

\* Requests: type, length, payload.
FrameParts(m) ==
    LET n == Len(Payload(m))
    IN <<EncodeVarint(U(m.type)), <<(n \div 256) % 256, n % 256>>, Payload(m)>>

\* The message of a frame.
LEMMA MessageFrame ==
    ASSUME NEW m \in Messages, Encodable(m)
    PROVE  /\ m.type \in MessageTypes /\ m.type \in Nat /\ m.type < Huge
           /\ Payload(m) \in Octets
           /\ Encode(m) = EncodeMessage(m.type, Payload(m))
<1>0. PICK type \in MessageTypes : \E fields \in FieldsOf(Fields(type)) : m = Message(type, fields)
  BY DEF Messages
<1>1. PICK fields \in FieldsOf(Fields(type)) : m = Message(type, fields)
  BY <1>0
<1>2. m.type = type /\ m.fields = fields
  BY <1>1 DEF Message
<1> DEFINE kinds == Fields(type)
           payload == Payload(m)
           e == Encode(m)
<1>3. /\ kinds \in Seq(Kinds)
      /\ \A i \in 1..Len(kinds) : kinds[i] = "pairs" => i = Len(kinds)
  BY FieldKinds
<1>4. \A i \in DOMAIN fields : FieldEncodable(kinds[i], fields[i])
  BY <1>2 DEF Encodable
<1>5. payload = FlattenSeq([i \in DOMAIN fields |-> EncodeKind(kinds[i], fields[i])])
  BY <1>2 DEF Payload
<1>6. e = EncodeMessage(type, payload)
  BY <1>2, <1>5 DEF Encode, EncodeWith, EncodeKind
<1> HIDE DEF kinds, payload, e
<1>7. payload \in Octets
  <2>1. fields \in FieldsOf(kinds)
    BY DEF kinds
  <2> QED BY <1>3, <1>4, <1>5, <2>1, ReadFields
<1>8. type \in Nat /\ type < Huge
  BY TypeIsSmall
<1> QED BY <1>2, <1>6, <1>7, <1>8 DEF payload, e

\* What is read of a frame.
LEMMA FrameIsRead ==
    ASSUME NEW m \in Messages, Encodable(m), FitsLength(Len(Payload(m)))
    PROVE  LET c == FrameParts(m)
           IN /\ c \in Seq(Octets) /\ Len(c) = 3 /\ IsIntPart(c[1])
              /\ FlattenSeq(c) = Encode(m)
              /\ \A j \in 0..3 : PlanFits(FramePlan(SubSeq(c, 1, j)), c, j)
              /\ Decode(FlattenSeq(c)) = Parsed(m, << >>)
<1> DEFINE p == Payload(m)
           n == Len(p)
           h == (n \div 256) % 256
           l == n % 256
           e == EncodeVarint(U(m.type))
           two == <<h, l>>
           c == <<e, two, p>>
           none == << >>
<1>1. /\ m.type \in Nat /\ m.type < Huge /\ p \in Octets
      /\ Encode(m) = EncodeMessage(m.type, p)
  BY MessageFrame
<1>2. c = FrameParts(m)
  BY DEF FrameParts
<1>3. Encode(m) = (e \o two) \o p
  BY <1>1 DEF EncodeMessage
<1>4. n \in Nat
  BY <1>1, OctetFacts
<1>5. FitsLength(n)
  OBVIOUS
<1> HIDE DEF p, n
<1>6. h \in Byte /\ l \in Byte /\ h * 256 + l = n
  BY <1>4, <1>5, TwoBytes
<1>7. IsIntPart(e) /\ e \in Octets
  <2>1. IsIntPart(e)
    BY <1>1, NumberPart
  <2> QED BY <2>1 DEF IsIntPart
<1> HIDE DEF h, l, e
<1>8. two \in Octets /\ Len(two) = 2 /\ two[1] = h /\ two[2] = l
  BY <1>6 DEF Octets
<1> HIDE DEF two
<1>9. c \in Seq(Octets) /\ FlattenSeq(c) = (e \o two) \o p
  BY <1>1, <1>7, <1>8, FlattenThree
<1>10. Len(c) = 3 /\ c[1] = e /\ c[2] = two /\ c[3] = p
  OBVIOUS
<1> HIDE DEF c
<1>11. ASSUME NEW j \in 0..3 PROVE PlanFits(FramePlan(SubSeq(c, 1, j)), c, j)
  <2> DEFINE q == SubSeq(c, 1, j)
             third == IF Len(q) < 2 THEN Nothing ELSE Bytes(q[2][1] * 256 + q[2][2])
             plan == <<AnInt, Bytes(2), third, Nothing>>
  <2>1. q \in Seq(Octets) /\ Len(q) = j /\ \A i \in 1..j : q[i] = c[i]
    <3>1. j \in 0..Len(c)
      BY <1>10
    <3> QED BY <1>9, <3>1, FirstParts
  <2>2. FramePlan(q) = plan[j + 1]
    BY <2>1 DEF FramePlan
  <2>3. j >= 2 => third = Bytes(n)
    <3>1. j >= 2 => q[2] = two /\ ~(Len(q) < 2)
      BY <1>10, <2>1
    <3> QED BY <1>6, <1>8, <3>1
  <2> HIDE DEF q, third
  <2>4. plan[1] = AnInt /\ plan[2] = Bytes(2) /\ plan[3] = third /\ plan[4] = Nothing
    OBVIOUS
  <2> HIDE DEF plan
  <2>5. PlanFits(plan[j + 1], c, j)
    <3>1. CASE j = 0
      BY <1>7, <1>10, <2>4, <3>1 DEF PlanFits
    <3>2. CASE j = 1
      <4>1. plan[j + 1] = Bytes(2) /\ Len(c[j + 1]) = 2 /\ j # Len(c)
        BY <1>8, <1>10, <2>4, <3>2
      <4> QED BY <4>1 DEF PlanFits
    <3>3. CASE j = 2
      BY <1>10, <2>3, <2>4, <3>3 DEF PlanFits, n
    <3>4. CASE j = 3
      BY <1>10, <2>4, <3>4 DEF PlanFits
    <3> QED BY <3>1, <3>2, <3>3, <3>4
  <2> QED BY <2>2, <2>5 DEF q
<1>12. Decode(Encode(m)) = Parsed(m, none)
  <2>1. none \in Octets /\ \A x \in Octets : x \o none = x
    BY OctetFacts
  <2> HIDE DEF none
  <2>2. Encode(m) \in Octets /\ Decode(Encode(m) \o none) = Parsed(m, none)
    <3>1. FitsLength(Len(Payload(m)))
      OBVIOUS
    <3> QED BY <2>1, <3>1, MessageRoundTrip
  <2> QED BY <2>1, <2>2
<1> QED BY <1>2, <1>3, <1>7, <1>9, <1>10, <1>11, <1>12

----------------------------------------------------------------------------
(* The parts of an object *)

\* Objects, as the writer has them.
Objects ==
    [delta : U64, properties : {b \in Octets : Len(b) < Huge},
     payload : {b \in Octets : Len(b) < Huge}]

\* The integer, the length, [the length of the properties, these,] the payload.
ObjectParts(delta, properties, o) ==
    <<delta, EncodeVarint(U(Len(o.payload)))>>
      \o (IF properties THEN <<EncodeVarint(U(Len(o.properties))), o.properties>> ELSE << >>)
      \o <<o.payload>>

\* Parts behind parts.
LEMMA FlattenParts ==
    \A s, t \in Seq(Octets) :
      s \o t \in Seq(Octets) /\ FlattenSeq(s \o t) = FlattenSeq(s) \o FlattenSeq(t)
<1>1. Octets = Seq(Byte)
  BY DEF Octets
<1>2. \A s, t \in Seq(Octets) : s \o t \in Seq(Octets)
  BY ConcatProperties
<1>3. \A s, t \in Seq(Octets) : FlattenSeq(s \o t) = FlattenSeq(s) \o FlattenSeq(t)
  BY <1>1, FlattenConcat
<1> QED BY <1>2, <1>3

\* A length as a part.
LEMMA LengthPart ==
    ASSUME NEW b \in Octets, Len(b) < Huge
    PROVE  LET l == EncodeVarint(U(Len(b)))
           IN IsIntPart(l) /\ l \in Octets /\ Num(DecodeVarint(l).value) = Len(b)
<1> DEFINE n == Len(b)
<1>1. n \in Nat /\ n < Huge
  BY OctetFacts
<1> HIDE DEF n
<1>2. IsIntPart(EncodeVarint(U(n))) /\ Num(DecodeVarint(EncodeVarint(U(n))).value) = n
  BY <1>1, NumberPart
<1> QED BY <1>2 DEF n, IsIntPart

\* What is read of an object without properties.
LEMMA PlainObjectIsRead ==
    ASSUME NEW o \in Objects, NEW d, IsIntPart(d)
    PROVE  LET c == ObjectParts(d, FALSE, o)
           IN /\ c \in Seq(Octets) /\ Len(c) = 3 /\ c[1] = d /\ Last(c) = o.payload
              /\ FlattenSeq(c) = (d \o EncodeVarint(U(Len(o.payload)))) \o o.payload
              /\ \A j \in 0..3 : PlanFits(ObjectPlan(SubSeq(c, 1, j), FALSE), c, j)
<1> DEFINE p == o.payload
           l == EncodeVarint(U(Len(p)))
           c == <<d, l>> \o << >> \o <<p>>
<1>1. ObjectParts(d, FALSE, o) = c
  BY DEF ObjectParts
<1>2. p \in Octets /\ Len(p) < Huge /\ d \in Octets
  BY DEF Objects, IsIntPart
<1> HIDE DEF p
<1>3. IsIntPart(l) /\ l \in Octets /\ Num(DecodeVarint(l).value) = Len(p)
  BY <1>2, LengthPart
<1> HIDE DEF l
<1>4. c \in Seq(Octets) /\ Len(c) = 3 /\ c[1] = d /\ c[2] = l /\ c[3] = p
  BY <1>2, <1>3
<1>5. FlattenSeq(c) = (d \o l) \o p
  <2> DEFINE s == <<d, l>>
             t == << >>
             u == <<p>>
  <2>1. /\ s \in Seq(Octets) /\ FlattenSeq(s) = d \o l
        /\ u \in Seq(Octets) /\ FlattenSeq(u) = p
    BY <1>2, <1>3, FlattenThree
  <2>2. s \o t = s
    BY <2>1, ConcatEmptySeq
  <2> HIDE DEF s, u
  <2>4. FlattenSeq(s \o u) = FlattenSeq(s) \o FlattenSeq(u)
    BY <2>1, FlattenParts
  <2> QED BY <2>1, <2>2, <2>4 DEF s, u
<1> HIDE DEF c
<1>6. ASSUME NEW j \in 0..3 PROVE PlanFits(ObjectPlan(SubSeq(c, 1, j), FALSE), c, j)
  <2> DEFINE q == SubSeq(c, 1, j)
             n == Bytes(Number(q, 2))
             plan == <<AnInt, AnInt>> \o << >> \o <<n, Nothing>>
  <2>1. q \in Seq(Octets) /\ Len(q) = j /\ DOMAIN q = 1..j /\ \A i \in 1..j : q[i] = c[i]
    <3>1. j \in 0..Len(c)
      BY <1>4
    <3> QED BY <1>4, <3>1, FirstParts
  <2>2. ObjectPlan(q, FALSE) = plan[j + 1]
    BY <2>1 DEF ObjectPlan
  <2>3. j >= 2 => n = Bytes(Len(p))
    <3>1. j >= 2 => 2 \in DOMAIN q /\ q[2] = l
      BY <1>4, <2>1
    <3> QED BY <1>3, <3>1 DEF Number
  <2> HIDE DEF q, n
  <2>4. plan[1] = AnInt /\ plan[2] = AnInt /\ plan[3] = n /\ plan[4] = Nothing
    OBVIOUS
  <2> HIDE DEF plan
  <2>5. PlanFits(plan[j + 1], c, j)
    <3>1. CASE j = 0
      BY <1>4, <2>4, <3>1 DEF PlanFits
    <3>2. CASE j = 1
      <4>1. plan[j + 1] = AnInt /\ c[j + 1] = l /\ j # Len(c)
        BY <1>4, <2>4, <3>2
      <4> QED BY <1>3, <4>1 DEF PlanFits
    <3>3. CASE j = 2
      <4>1. plan[j + 1] = Bytes(Len(p)) /\ c[j + 1] = p /\ j # Len(c)
        BY <1>4, <2>3, <2>4, <3>3
      <4> QED BY <4>1 DEF PlanFits
    <3>4. CASE j = 3
      BY <1>4, <2>4, <3>4 DEF PlanFits
    <3> QED BY <3>1, <3>2, <3>3, <3>4
  <2> QED BY <2>2, <2>5 DEF q
<1>7. Last(c) = p
  BY <1>4 DEF Last
<1> QED BY <1>1, <1>4, <1>5, <1>6, <1>7 DEF p, l

\* What is read of an object with properties.
LEMMA ObjectIsRead ==
    ASSUME NEW o \in Objects, NEW d, IsIntPart(d)
    PROVE  LET c == ObjectParts(d, TRUE, o)
           IN /\ c \in Seq(Octets) /\ Len(c) = 5 /\ c[1] = d /\ c[4] = o.properties
              /\ Last(c) = o.payload
              /\ FlattenSeq(c) = ((d \o EncodeVarint(U(Len(o.payload))))
                                    \o EncodeBytes(o.properties)) \o o.payload
              /\ \A j \in 0..5 : PlanFits(ObjectPlan(SubSeq(c, 1, j), TRUE), c, j)
<1> DEFINE p == o.payload
           r == o.properties
           l == EncodeVarint(U(Len(p)))
           m == EncodeVarint(U(Len(r)))
           c == <<d, l>> \o <<m, r>> \o <<p>>
<1>1. ObjectParts(d, TRUE, o) = c
  BY DEF ObjectParts
<1>2. p \in Octets /\ Len(p) < Huge /\ r \in Octets /\ Len(r) < Huge /\ d \in Octets
  BY DEF Objects, IsIntPart
<1>8. EncodeBytes(r) = m \o r
  BY DEF EncodeBytes
<1> HIDE DEF p, r
<1>3. /\ IsIntPart(l) /\ l \in Octets /\ Num(DecodeVarint(l).value) = Len(p)
      /\ IsIntPart(m) /\ m \in Octets /\ Num(DecodeVarint(m).value) = Len(r)
  BY <1>2, LengthPart
<1> HIDE DEF l, m
<1>4. /\ c \in Seq(Octets) /\ Len(c) = 5
      /\ c[1] = d /\ c[2] = l /\ c[3] = m /\ c[4] = r /\ c[5] = p
  BY <1>2, <1>3
<1>5. FlattenSeq(c) = ((d \o l) \o (m \o r)) \o p
  <2> DEFINE s == <<d, l>>
             t == <<m, r>>
             u == <<p>>
  <2>1. /\ s \in Seq(Octets) /\ FlattenSeq(s) = d \o l
        /\ t \in Seq(Octets) /\ FlattenSeq(t) = m \o r
        /\ u \in Seq(Octets) /\ FlattenSeq(u) = p
    BY <1>2, <1>3, FlattenThree
  <2> HIDE DEF s, t, u
  <2>4. FlattenSeq(s \o t) = FlattenSeq(s) \o FlattenSeq(t) /\ s \o t \in Seq(Octets)
    BY <2>1, FlattenParts
  <2> DEFINE st == s \o t
  <2> HIDE DEF st
  <2>5. FlattenSeq(st \o u) = FlattenSeq(st) \o FlattenSeq(u)
    BY <2>1, <2>4, FlattenParts DEF st
  <2> QED BY <2>1, <2>4, <2>5 DEF s, t, u, st
<1> HIDE DEF c
<1>6. ASSUME NEW j \in 0..5 PROVE PlanFits(ObjectPlan(SubSeq(c, 1, j), TRUE), c, j)
  <2> DEFINE q == SubSeq(c, 1, j)
             n == Bytes(Number(q, 2))
             k == Bytes(Number(q, 3))
             plan == <<AnInt, AnInt>> \o <<AnInt, k>> \o <<n, Nothing>>
  <2>1. q \in Seq(Octets) /\ Len(q) = j /\ DOMAIN q = 1..j /\ \A i \in 1..j : q[i] = c[i]
    <3>1. j \in 0..Len(c)
      BY <1>4
    <3> QED BY <1>4, <3>1, FirstParts
  <2>2. ObjectPlan(q, TRUE) = plan[j + 1]
    BY <2>1 DEF ObjectPlan
  <2>3. j >= 2 => n = Bytes(Len(p))
    <3>1. j >= 2 => 2 \in DOMAIN q /\ q[2] = l
      BY <1>4, <2>1
    <3> QED BY <1>3, <3>1 DEF Number
  <2>6. j >= 3 => k = Bytes(Len(r))
    <3>1. j >= 3 => 3 \in DOMAIN q /\ q[3] = m
      BY <1>4, <2>1
    <3> QED BY <1>3, <3>1 DEF Number
  <2> HIDE DEF q, n, k
  <2>4. /\ plan[1] = AnInt /\ plan[2] = AnInt /\ plan[3] = AnInt /\ plan[4] = k
        /\ plan[5] = n /\ plan[6] = Nothing
    OBVIOUS
  <2> HIDE DEF plan
  <2>5. PlanFits(plan[j + 1], c, j)
    <3>1. CASE j = 0
      BY <1>4, <2>4, <3>1 DEF PlanFits
    <3>2. CASE j = 1
      <4>1. plan[j + 1] = AnInt /\ c[j + 1] = l /\ j # Len(c)
        BY <1>4, <2>4, <3>2
      <4> QED BY <1>3, <4>1 DEF PlanFits
    <3>3. CASE j = 2
      <4>1. plan[j + 1] = AnInt /\ c[j + 1] = m /\ j # Len(c)
        BY <1>4, <2>4, <3>3
      <4> QED BY <1>3, <4>1 DEF PlanFits
    <3>4. CASE j = 3
      <4>1. plan[j + 1] = Bytes(Len(r)) /\ c[j + 1] = r /\ j # Len(c)
        BY <1>4, <2>4, <2>6, <3>4
      <4> QED BY <4>1 DEF PlanFits
    <3>5. CASE j = 4
      <4>1. plan[j + 1] = Bytes(Len(p)) /\ c[j + 1] = p /\ j # Len(c)
        BY <1>4, <2>3, <2>4, <3>5
      <4> QED BY <4>1 DEF PlanFits
    <3>6. CASE j = 5
      BY <1>4, <2>4, <3>6 DEF PlanFits
    <3> QED BY <3>1, <3>2, <3>3, <3>4, <3>5, <3>6
  <2> QED BY <2>2, <2>5 DEF q
<1>7. Last(c) = p
  BY <1>4 DEF Last
<1> QED BY <1>1, <1>4, <1>5, <1>6, <1>7, <1>8 DEF p, r, l

----------------------------------------------------------------------------
(* The parts of a header *)

\* The type, alias, group, subgroup if there is one, priority if there is one.
HeaderParts(type, x) ==
    <<EncodeVarint(U(type)), EncodeVarint(x.alias), EncodeVarint(x.group)>>
      \o (IF x.subgroup # << >> THEN <<EncodeVarint(x.subgroup[1])>> ELSE << >>)
      \o (IF x.priority # << >> THEN <<x.priority>> ELSE << >>)

\* The part of an optional subgroup.
LEMMA SubgroupPart ==
    ASSUME NEW us \in Seq(U64), Len(us) <= 1
    PROVE  LET s == IF us # << >> THEN <<EncodeVarint(us[1])>> ELSE << >>
           IN /\ s \in Seq(Octets) /\ FlattenSeq(s) = EncodeInts(us)
              /\ us # << >> => IsIntPart(EncodeVarint(us[1])) /\ us[1] \in U64
<1>1. CASE us = << >>
  <2> DEFINE encs == [i \in DOMAIN us |-> EncodeVarint(us[i])]
             none == << >>
  <2>1. encs \in Seq(Octets) /\ Len(encs) = Len(us)
    BY IntEncodings
  <2>2. Len(us) = 0
    BY <1>1, EmptySeq
  <2>3. none \in Seq(Octets)
    BY EmptySeq
  <2> HIDE DEF encs
  <2>4. encs = none
    BY <2>1, <2>2, EmptySeq
  <2>5. EncodeInts(us) = FlattenSeq(none)
    BY <2>4 DEF EncodeInts, encs
  <2> QED BY <1>1, <2>3, <2>5
<1>2. CASE us # << >>
  <2> DEFINE u == us[1]
             e == EncodeVarint(u)
  <2>1. Len(us) = 1
    <3> DEFINE n == Len(us)
    <3>1. n \in Nat \ {0} /\ n <= 1
      BY <1>2, EmptySeq
    <3> HIDE DEF n
    <3>2. n = 1
      BY <3>1
    <3> QED BY <3>2 DEF n
  <2>2. u \in U64 /\ us = <<u>>
    BY <2>1
  <2> HIDE DEF u
  <2>3. EncodeInts(<<u>>) = e
    BY <2>2, EncodeOne
  <2>4. IsIntPart(e) /\ e \in Octets
    <3>1. IsIntPart(e)
      BY <2>2, VarintPart
    <3> QED BY <3>1 DEF IsIntPart
  <2> HIDE DEF e
  <2>5. <<e>> \in Seq(Octets) /\ FlattenSeq(<<e>>) = e
    BY <2>4, FlattenThree
  <2> QED BY <1>2, <2>2, <2>3, <2>4, <2>5 DEF u, e
<1> QED BY <1>1, <1>2

\* The part of an optional priority.
LEMMA PriorityPart ==
    ASSUME NEW p \in Octets, Len(p) <= 1
    PROVE  LET s == IF p # << >> THEN <<p>> ELSE << >>
           IN s \in Seq(Octets) /\ FlattenSeq(s) = p /\ (p # << >> => Len(p) = 1)
<1>1. CASE p = << >>
  <2> DEFINE none == << >>
  <2>1. none \in Seq(Octets) /\ FlattenSeq(none) = none
    BY EmptySeq DEF FlattenSeq
  <2> QED BY <1>1, <2>1
<1>2. CASE p # << >>
  <2>1. Len(p) \in Nat \ {0}
    BY <1>2, OctetFacts
  <2>2. <<p>> \in Seq(Octets) /\ FlattenSeq(<<p>>) = p
    BY FlattenThree
  <2> QED BY <1>2, <2>1, <2>2
<1> QED BY <1>1, <1>2

\* What is read of a header.
LEMMA HeaderIsRead ==
    ASSUME NEW x \in Headers, NEW type, TypeSays(type, x)
    PROVE  LET c == HeaderParts(type, x)
           IN /\ c \in Seq(Octets) /\ Len(c) \in Nat \ {0} /\ IsIntPart(c[1])
              /\ FlattenSeq(c) = EncodeSubgroupHeader(type, x)
              /\ \A j \in 0..Len(c) : PlanFits(HeaderPlan(SubSeq(c, 1, j)), c, j)
              /\ DecodeSubgroupHeader(FlattenSeq(c)) = Parsed(Unsaid(x), << >>)
<1> DEFINE a == EncodeVarint(U(type))
           b == EncodeVarint(x.alias)
           d == EncodeVarint(x.group)
           v == EncodeVarint(x.subgroup[1])
           p == x.priority
           three == <<a, b, d>>
           hasS == x.subgroup # << >>
           hasP == x.priority # << >>
           s == IF hasS THEN <<v>> ELSE << >>
           t == IF hasP THEN <<p>> ELSE << >>
           c == three \o s \o t
           none == << >>
<1>1. HeaderParts(type, x) = c
  BY DEF HeaderParts
<1>2. /\ x.alias \in U64 /\ x.group \in U64 /\ x.subgroup \in Seq(U64) /\ Len(x.subgroup) <= 1
      /\ p \in Octets /\ Len(p) <= 1
  BY DEF Headers
<1>3. /\ type \in Nat /\ type < Huge /\ HasSubgroup(type) = hasS /\ HasPriority(type) = hasP
      /\ hasS \in BOOLEAN /\ hasP \in BOOLEAN
  BY DEF TypeSays
<1>4. /\ s \in Seq(Octets) /\ FlattenSeq(s) = EncodeInts(x.subgroup)
      /\ hasS => IsIntPart(v)
  BY <1>2, SubgroupPart
<1>5. t \in Seq(Octets) /\ FlattenSeq(t) = p /\ (hasP => Len(p) = 1)
  BY <1>2, PriorityPart
<1>6. IsIntPart(a) /\ Num(DecodeVarint(a).value) = type /\ IsIntPart(b) /\ IsIntPart(d)
  BY <1>2, <1>3, NumberPart, VarintPart
<1>7. EncodeSubgroupHeader(type, x) = (((a \o b) \o d) \o EncodeInts(x.subgroup)) \o p
  BY DEF EncodeSubgroupHeader
<1>14. DecodeSubgroupHeader(EncodeSubgroupHeader(type, x) \o none) = Parsed(Unsaid(x), none)
  <2>1. none \in Octets
    BY OctetFacts
  <2> HIDE DEF none
  <2> QED BY <2>1, ReadHeader
<1>15. hasS => v \in Octets
  BY <1>4 DEF IsIntPart
<1> HIDE DEF a, b, d, v, p, hasS, hasP
<1>8. a \in Octets /\ b \in Octets /\ d \in Octets
  BY <1>6 DEF IsIntPart
<1>9. three \in Seq(Octets) /\ FlattenSeq(three) = (a \o b) \o d
  <2> HIDE DEF three, c, s, t, none
  <2>1. <<a, b, d>> \in Seq(Octets) /\ FlattenSeq(<<a, b, d>>) = (a \o b) \o d
    BY <1>8, FlattenThree, ZenonT(60)
  <2> QED BY <2>1 DEF three
<1>10. /\ c \in Seq(Octets)
       /\ FlattenSeq(c) = (((a \o b) \o d) \o EncodeInts(x.subgroup)) \o p
  <2> HIDE DEF three, s, t
  <2>1. three \o s \in Seq(Octets) /\ FlattenSeq(three \o s) = FlattenSeq(three) \o FlattenSeq(s)
    BY <1>4, <1>9, FlattenParts
  <2> DEFINE ts == three \o s
  <2> HIDE DEF ts
  <2>2. ts \o t \in Seq(Octets) /\ FlattenSeq(ts \o t) = FlattenSeq(ts) \o FlattenSeq(t)
    BY <1>5, <2>1, FlattenParts DEF ts
  <2> QED BY <1>4, <1>5, <1>9, <2>1, <2>2 DEF ts
<1>11. /\ c[1] = a /\ c[2] = b /\ c[3] = d
       /\ hasS /\ hasP => Len(c) = 5 /\ c[4] = v /\ c[5] = p
       /\ hasS /\ ~hasP => Len(c) = 4 /\ c[4] = v
       /\ ~hasS /\ hasP => Len(c) = 4 /\ c[4] = p
       /\ ~hasS /\ ~hasP => Len(c) = 3
  <2>1. CASE hasS /\ hasP
    BY <2>1
  <2>2. CASE hasS /\ ~hasP
    BY <2>2
  <2>3. CASE ~hasS /\ hasP
    BY <2>3
  <2>4. CASE ~hasS /\ ~hasP
    BY <2>4
  <2> QED BY <1>3, <2>1, <2>2, <2>3, <2>4
<1>12. Len(c) \in Nat \ {0}
  <2> HIDE DEF c
  <2> QED BY <1>3, <1>11
<1> HIDE DEF c
<1>18. hasS /\ hasP => Len(c) = 5
  BY <1>11
<1>19. (hasS /\ ~hasP) \/ (~hasS /\ hasP) => Len(c) = 4
  BY <1>11
<1>20. ~hasS /\ ~hasP => Len(c) = 3
  BY <1>11
<1>13. ASSUME NEW j \in 0..Len(c) PROVE PlanFits(HeaderPlan(SubSeq(c, 1, j)), c, j)
  <2> DEFINE q == SubSeq(c, 1, j)
             n == Number(q, 1)
             g == IF HasSubgroup(n) THEN <<AnInt>> ELSE << >>
             o == IF HasPriority(n) THEN <<Bytes(1)>> ELSE << >>
             plan == <<AnInt, AnInt, AnInt>> \o g \o o \o <<Nothing>>
  <2>1. q \in Seq(Octets) /\ Len(q) = j /\ DOMAIN q = 1..j /\ \A i \in 1..j : q[i] = c[i]
    BY <1>10, FirstParts
  <2>2. HeaderPlan(q) = plan[j + 1]
    BY <2>1 DEF HeaderPlan
  <2>3. j >= 1 => n = type
    <3>1. j >= 1 => 1 \in DOMAIN q /\ q[1] = a
      BY <1>11, <2>1
    <3> QED BY <1>6, <3>1 DEF Number
  <2> HIDE DEF q, n
  <2>4. CASE j = 0
    <3>1. plan[1] = AnInt
      OBVIOUS
    <3> HIDE DEF plan
    <3>2. plan[j + 1] = AnInt /\ c[j + 1] = a /\ j # Len(c)
      BY <1>11, <1>12, <2>4, <3>1
    <3> QED BY <1>6, <2>2, <3>2 DEF PlanFits, q
  <2>5. CASE j # 0
    <3>1. HasSubgroup(n) = hasS /\ HasPriority(n) = hasP
      BY <1>3, <1>12, <2>3, <2>5
    <3>2. /\ plan[1] = AnInt /\ plan[2] = AnInt /\ plan[3] = AnInt
          /\ hasS /\ hasP => plan[4] = AnInt /\ plan[5] = Bytes(1) /\ plan[6] = Nothing
          /\ hasS /\ ~hasP => plan[4] = AnInt /\ plan[5] = Nothing
          /\ ~hasS /\ hasP => plan[4] = Bytes(1) /\ plan[5] = Nothing
          /\ ~hasS /\ ~hasP => plan[4] = Nothing
      <4>1. CASE hasS /\ hasP
        BY <3>1, <4>1
      <4>2. CASE hasS /\ ~hasP
        BY <3>1, <4>2
      <4>3. CASE ~hasS /\ hasP
        BY <3>1, <4>3
      <4>4. CASE ~hasS /\ ~hasP
        BY <3>1, <4>4
      <4> QED BY <1>3, <4>1, <4>2, <4>3, <4>4
    <3> HIDE DEF plan
    <3>3. CASE j = 1
      <4>1. plan[j + 1] = AnInt /\ c[j + 1] = b /\ j # Len(c)
        BY <1>3, <1>11, <3>2, <3>3
      <4> QED BY <1>6, <4>1, <2>2 DEF PlanFits, q
    <3>4. CASE j = 2
      <4>1. plan[j + 1] = AnInt /\ c[j + 1] = d /\ j # Len(c)
        BY <1>3, <1>11, <3>2, <3>4
      <4> QED BY <1>6, <4>1, <2>2 DEF PlanFits, q
    <3>5. CASE j = 3
      <4>1. CASE hasS
        <5>1. plan[j + 1] = AnInt /\ c[j + 1] = v /\ j # Len(c)
          BY <1>3, <1>11, <3>2, <3>5, <4>1
        <5> QED BY <1>4, <2>2, <4>1, <5>1 DEF PlanFits, q
      <4>2. CASE ~hasS /\ hasP
        <5>1. plan[j + 1] = Bytes(1) /\ c[j + 1] = p /\ j # Len(c)
          BY <1>3, <1>11, <3>2, <3>5, <4>2
        <5> QED BY <1>5, <2>2, <4>2, <5>1 DEF PlanFits, q
      <4>3. CASE ~hasS /\ ~hasP
        <5>1. plan[j + 1] = Nothing /\ j = Len(c)
          BY <1>3, <1>11, <3>2, <3>5, <4>3
        <5> QED BY <2>2, <5>1 DEF PlanFits, q
      <4> QED BY <1>3, <4>1, <4>2, <4>3
    <3>6. CASE j = 4
      <4>1. CASE hasS /\ hasP
        <5>1. plan[j + 1] = Bytes(1) /\ c[j + 1] = p /\ j # Len(c)
          BY <1>3, <1>11, <3>2, <3>6, <4>1
        <5> QED BY <1>5, <2>2, <4>1, <5>1 DEF PlanFits, q
      <4>2. CASE ~(hasS /\ hasP)
        <5>1. Len(c) >= 4
          BY <1>12, <3>6
        <5>7. Len(c) # 3
          <6> DEFINE l == Len(c)
          <6>1. l >= 4
            BY <5>1
          <6> HIDE DEF l
          <6>2. l # 3
            BY <6>1
          <6> QED BY <6>2 DEF l
        <5>2. hasS \/ hasP
          BY <1>20, <5>7, Zenon
        <5>3. (hasS /\ ~hasP) \/ (~hasS /\ hasP)
          BY <4>2, <5>2
        <5>4. Len(c) = 4
          BY <1>19, <5>3
        <5>6. plan[5] = Nothing
          BY <3>2, <5>3
        <5>5. plan[j + 1] = Nothing /\ j = Len(c)
          BY <3>6, <5>4, <5>6
        <5> QED BY <2>2, <5>5 DEF PlanFits, q
      <4> QED BY <4>1, <4>2
    <3>7. CASE j = 5
      <4>1. Len(c) >= 5
        BY <1>12, <3>7
      <4>2. hasS /\ hasP
        <5> DEFINE l == Len(c)
        <5>2. l >= 5
          BY <4>1
        <5> HIDE DEF l
        <5>3. l # 3 /\ l # 4
          BY <5>2
        <5>1. Len(c) # 3 /\ Len(c) # 4
          BY <5>3 DEF l
        <5> QED BY <1>18, <1>19, <1>20, <5>1, Zenon
      <4>3. plan[j + 1] = Nothing /\ j = Len(c)
        BY <1>11, <3>2, <3>7, <4>2
      <4> QED BY <2>2, <4>3 DEF PlanFits, q
    <3>8. j \in 1..5
      <4>1. Len(c) = 3 \/ Len(c) = 4 \/ Len(c) = 5
        BY <1>18, <1>19, <1>20, Zenon
      <4> DEFINE l == Len(c)
      <4>2. j \in 0..l
        OBVIOUS
      <4> HIDE DEF l
      <4>3. l \in {3, 4, 5}
        BY <4>1 DEF l
      <4>4. l <= 5 /\ l \in Nat
        BY <4>3
      <4> QED BY <2>5, <4>2, <4>4
    <3> QED BY <3>3, <3>4, <3>5, <3>6, <3>7, <3>8
  <2> QED BY <2>4, <2>5
<1>16. DecodeSubgroupHeader(FlattenSeq(c)) = Parsed(Unsaid(x), none)
  <2> DEFINE e == EncodeSubgroupHeader(type, x)
  <2>1. FlattenSeq(c) = e
    BY <1>7, <1>10
  <2>2. FlattenSeq(c) \in Octets
    BY <1>10, FlatTyped DEF Octets
  <2> HIDE DEF e
  <2>3. e \o none = e
    BY <2>1, <2>2, OctetFacts
  <2> QED BY <1>14, <2>1, <2>3 DEF e
<1>17. FlattenSeq(c) = EncodeSubgroupHeader(type, x)
  BY <1>7, <1>10
<1> QED BY <1>1, <1>6, <1>10, <1>11, <1>12, <1>13, <1>16, <1>17

----------------------------------------------------------------------------
(* The streams of the theorems *)

\* A stream of messages of this implementation.  One that encode takes fits its
\* frame, and so does the relay's own SUBSCRIBE.
RequestStream(s) ==
    /\ s.kind = "request" /\ s.writer = "native"
    /\ \A i \in 1..Len(s.items) :
         /\ s.items[i] \in Messages
         /\ Encodable(s.items[i]) => FitsLength(Len(Payload(s.items[i])))
         /\ (Encodable(s.items[i]) /\ s.items[i].type = MSG_SUBSCRIBE /\ Len(s.readers) = 2) =>
              /\ s.items[i].fields[2] = U(0)
              /\ FitsLength(Len(Payload(RelaySubscribe(s.items[i]))))

\* A header and objects, of this implementation, of the browser or of a peer that
\* writes properties, the bit of the first object, and integers of eight bytes.
DataStream(s) ==
    /\ s.kind = "data"
    /\ s.items[1] \in Headers
    /\ \A i \in 2..Len(s.items) :
         /\ s.items[i] \in Objects
         /\ ~s.items[1].properties => s.items[i].properties = << >>
         /\ s.writer = "foreign" => Fits(s.items[i].delta, 8)
    /\ IF s.writer = "foreign" THEN s.items[1].firstObject => s.items[1].subgroup = << >>
       ELSE ~s.items[1].properties /\ ~s.items[1].firstObject

\* The streams of the theorems, with one native reader or two.
Proper(s) ==
    /\ s.items # << >>
    /\ s.readers \in {<<"native">>, <<"native", "native">>}
    /\ RequestStream(s) \/ DataStream(s)

\* What the reader of stream h makes of item i.
Got(s, h, i) ==
    IF s.kind = "request"
    THEN IF h = 2 /\ s.items[i].type = MSG_SUBSCRIBE THEN RelaySubscribe(s.items[i])
                                                     ELSE s.items[i]
    ELSE IF i = 1 THEN Unsaid(s.items[i]) ELSE s.items[i]

\* The type the header is written with.
TypeAt(s, h) ==
    IF s.writer = "foreign" /\ h = 1 THEN ForeignHeaderType(s.items[1]) ELSE HeaderType(s.items[1])

\* The first part of an object.
DeltaPart(s, i) ==
    IF s.writer = "foreign" THEN ForeignInt(s.items[i].delta) ELSE EncodeVarint(s.items[i].delta)

\* The parts of item i on stream h.
Parts(s, h, i) ==
    IF s.kind = "request" THEN FrameParts(Got(s, h, i))
    ELSE IF i = 1 THEN HeaderParts(TypeAt(s, h), s.items[1])
    ELSE ObjectParts(DeltaPart(s, i), s.items[1].properties, s.items[i])

\* An item that encode refuses.
GivesUp(s, i) == s.writer = "native" /\ s.kind = "request" /\ ~Encodable(s.items[i])

\* How many items are written before that.
Writable(s) ==
    CHOOSE w \in 0..Len(s.items) :
      (\A i \in 1..w : ~GivesUp(s, i)) /\ (w < Len(s.items) => GivesUp(s, w + 1))

\* There are items.
LEMMA ItemCount ==
    ASSUME NEW s \in Streams, Proper(s)
    PROVE  Len(s.items) \in Nat \ {0} /\ DOMAIN s.items = 1..Len(s.items)
<1>1. s.items \in Seq({s.items[i] : i \in DOMAIN s.items}) /\ s.items # << >>
  BY StreamsAssumption DEF Proper
<1> QED BY <1>1, LenProperties, EmptySeq

\* All of them are written, or all before one that is refused.
LEMMA WritableFacts ==
    ASSUME NEW s \in Streams, Proper(s)
    PROVE  /\ Writable(s) \in 0..Len(s.items)
           /\ \A i \in 1..Writable(s) : ~GivesUp(s, i)
           /\ Writable(s) < Len(s.items) => GivesUp(s, Writable(s) + 1)
           /\ s.kind = "data" => Writable(s) = Len(s.items)
<1> DEFINE n == Len(s.items)
           P(w) == (\A i \in 1..w : ~GivesUp(s, i)) /\ (w < n => GivesUp(s, w + 1))
           Bad == {i \in Nat : i \in 1..n /\ GivesUp(s, i)}
<1>1. n \in Nat
  BY ItemCount
<1>2. Writable(s) = CHOOSE w \in 0..n : P(w)
  BY DEF Writable
<1> HIDE DEF n
<1>3. \E w \in 0..n : P(w)
  <2>1. CASE Bad = {}
    <3>1. \A i \in 1..n : ~GivesUp(s, i)
      BY <1>1, <2>1
    <3>2. n \in 0..n /\ ~(n < n)
      BY <1>1
    <3> QED BY <3>1, <3>2
  <2>2. CASE Bad # {}
    <3>1. PICK k \in Bad : \A m \in Bad : k <= m
      <4>1. Bad \in SUBSET Nat
        OBVIOUS
      <4> HIDE DEF Bad
      <4> QED BY <2>2, <4>1, LeastNumber
    <3>2. k \in 1..n /\ GivesUp(s, k)
      OBVIOUS
    <3>3. k - 1 \in 0..n /\ (k - 1) + 1 = k
      BY <1>1, <3>2
    <3>4. \A i \in 1..(k - 1) : i \in Nat /\ i \in 1..n /\ ~(k <= i)
      BY <1>1, <3>2
    <3>5. \A i \in 1..(k - 1) : ~GivesUp(s, i)
      BY <3>1, <3>4
    <3>6. P(k - 1)
      BY <3>2, <3>3, <3>5
    <3> QED BY <3>3, <3>6
  <2> QED BY <2>1, <2>2
<1>4. Writable(s) \in 0..n /\ P(Writable(s))
  <2> HIDE DEF P
  <2> QED BY <1>2, <1>3
<1>5. s.kind = "data" => Writable(s) = n
  <2>1. s.kind = "data" => \A i : ~GivesUp(s, i)
    BY DEF GivesUp
  <2>2. s.kind = "data" => ~(Writable(s) < n)
    BY <1>4, <2>1
  <2> QED BY <1>1, <1>4, <2>2
<1> QED BY <1>4, <1>5 DEF n

\* The relay's own SUBSCRIBE is a message like the one it was made from.
LEMMA RelayedSubscribe ==
    ASSUME NEW m \in Messages, m.type = MSG_SUBSCRIBE
    PROVE  LET r == RelaySubscribe(m)
           IN /\ r \in Messages /\ r.type = MSG_SUBSCRIBE /\ (Encodable(m) => Encodable(r))
              /\ r = [type |-> MSG_SUBSCRIBE, fields |-> r.fields]
              /\ r.fields = <<RelayRequestId, U(0), m.fields[3], m.fields[4], m.fields[5]>>
              /\ m = [type |-> MSG_SUBSCRIBE, fields |-> m.fields]
              /\ m.fields \in FieldsOf(SubscribeFields) /\ Len(m.fields) = 5
<1>0. PICK type \in MessageTypes : \E fields \in FieldsOf(Fields(type)) : m = Message(type, fields)
  BY DEF Messages
<1>1. PICK f \in FieldsOf(Fields(type)) : m = Message(type, f)
  BY <1>0
<1>2. type = MSG_SUBSCRIBE /\ m.fields = f /\ m = [type |-> MSG_SUBSCRIBE, fields |-> f]
  BY <1>1 DEF Message
<1> DEFINE V == UNION {FieldValue(kind) : kind \in Kinds}
           g == <<RelayRequestId, U(0), f[3], f[4], f[5]>>
           r == RelaySubscribe(m)
<1>3. Fields(MSG_SUBSCRIBE) = SubscribeFields
  BY DEF Fields, MSG_SUBSCRIBE, MSG_SUBSCRIBE_OK, MSG_REQUEST_ERROR, MSG_PUBLISH_NAMESPACE,
         MSG_REQUEST_OK, MSG_PUBLISH_DONE, MSG_SETUP
<1>4. Len(SubscribeFields) = 5 /\ \A i \in 1..5 : SubscribeFields[i] \in Kinds
  BY DEF SubscribeFields, Kinds
<1>5. f \in Seq(V) /\ Len(f) = Len(SubscribeFields) /\ \A i \in DOMAIN f : f[i] \in FieldValue(SubscribeFields[i])
  BY <1>2, <1>3 DEF FieldsOf
<1> HIDE DEF V
<1>6. Len(f) = 5 /\ DOMAIN f = 1..5
  BY <1>4, <1>5
<1>7. r = [type |-> MSG_SUBSCRIBE, fields |-> g]
  BY <1>2 DEF RelaySubscribe
<1>8. \A i \in 1..5 : g[i] \in FieldValue(SubscribeFields[i])
  <2>1. RelayRequestId \in U64 /\ U(0) \in U64
    <3>1. U(0) \in U64
      BY ThreeBytes DEF Huge
    <3> QED BY <3>1, StreamsAssumption
  <2>2. SubscribeFields[1] = "int" /\ SubscribeFields[2] = "int" /\ FieldValue("int") = U64
    BY DEF SubscribeFields, FieldValue
  <2>3. \A i \in 3..5 : g[i] = f[i] /\ f[i] \in FieldValue(SubscribeFields[i])
    BY <1>5, <1>6
  <2>4. g[1] = RelayRequestId /\ g[2] = U(0)
    OBVIOUS
  <2> HIDE DEF g
  <2>5. \A i \in 1..5 : i = 1 \/ i = 2 \/ i \in 3..5
    OBVIOUS
  <2> QED BY <2>1, <2>2, <2>3, <2>4, <2>5
<1>9. g \in FieldsOf(SubscribeFields)
  <2>1. \A i \in 1..5 : g[i] \in V
    BY <1>4, <1>8 DEF V
  <2>2. g \in Seq(V) /\ Len(g) = 5 /\ DOMAIN g = 1..5
    <3>1. \A i \in 1..5 : i \in {1, 2, 3, 4, 5}
      OBVIOUS
    <3>2. RelayRequestId \in V /\ U(0) \in V /\ f[3] \in V /\ f[4] \in V /\ f[5] \in V
      <4>1. 1 \in 1..5 /\ 2 \in 1..5 /\ 3 \in 1..5 /\ 4 \in 1..5 /\ 5 \in 1..5
        OBVIOUS
      <4>2. g[1] = RelayRequestId /\ g[2] = U(0) /\ g[3] = f[3] /\ g[4] = f[4] /\ g[5] = f[5]
        OBVIOUS
      <4> HIDE DEF g
      <4> QED BY <2>1, <4>1, <4>2
    <3> QED BY <3>2
  <2> HIDE DEF g
  <2> QED BY <1>4, <1>8, <2>2 DEF FieldsOf, V
<1>10. r \in Messages
  <2>1. r = Message(MSG_SUBSCRIBE, g)
    BY <1>7 DEF Message
  <2> HIDE DEF g, r
  <2> QED BY <1>2, <1>3, <1>9, <2>1 DEF Messages
<1>11. Encodable(m) => Encodable(r)
  <2>1. Encodable(m) => \A i \in 1..5 : FieldEncodable(SubscribeFields[i], f[i])
    BY <1>2, <1>3, <1>6 DEF Encodable
  <2>2. r.type = MSG_SUBSCRIBE /\ r.fields = g /\ DOMAIN g = 1..5 /\ \A i \in 3..5 : g[i] = f[i]
    BY <1>7
  <2>3. \A v : FieldEncodable(SubscribeFields[1], v) /\ FieldEncodable(SubscribeFields[2], v)
    BY DEF SubscribeFields, FieldEncodable
  <2>4. \A i \in 1..5 : i = 1 \/ i = 2 \/ i \in 3..5
    OBVIOUS
  <2> HIDE DEF g, r
  <2>5. Encodable(m) => \A i \in 1..5 : FieldEncodable(SubscribeFields[i], g[i])
    BY <2>1, <2>2, <2>3, <2>4
  <2> QED BY <1>3, <2>2, <2>5 DEF Encodable
<1>12. r.type = MSG_SUBSCRIBE /\ r.fields = g /\ r = [type |-> MSG_SUBSCRIBE, fields |-> r.fields]
  BY <1>7
<1>13. m.fields \in FieldsOf(SubscribeFields) /\ Len(m.fields) = 5
  BY <1>2, <1>3, <1>6
<1> HIDE DEF r
<1> QED BY <1>2, <1>10, <1>11, <1>12, <1>13 DEF r

----------------------------------------------------------------------------
(* The parts of each of their items *)

\* A delta of eight bytes is such a part too.
LEMMA ForeignPart ==
    ASSUME NEW u \in U64, Fits(u, 8)
    PROVE  IsIntPart(ForeignInt(u)) /\ DecodeVarint(ForeignInt(u)) = Parsed(u, << >>)
<1>1. 8 \in Lengths
  BY DEF Lengths
<1> QED BY <1>1, FormPart DEF ForeignInt

\* The messages of a request stream.
LEMMA RequestItems ==
    ASSUME NEW s \in Streams, Proper(s), s.kind = "request",
           NEW h \in DOMAIN s.readers, NEW i \in 1..Writable(s)
    PROVE  /\ s.items[i] \in Messages /\ Encodable(s.items[i])
           /\ Got(s, h, i) \in Messages /\ Encodable(Got(s, h, i))
           /\ FitsLength(Len(Payload(Got(s, h, i))))
           /\ Got(s, 1, i) = s.items[i]
           /\ h = 2 /\ s.items[i].type = MSG_SUBSCRIBE => s.items[i].fields[2] = U(0)
<1>1. RequestStream(s)
  BY DEF Proper, DataStream
<1>2. i \in 1..Len(s.items) /\ ~GivesUp(s, i)
  <2>1. Len(s.items) \in Nat /\ Writable(s) \in 0..Len(s.items)
    BY ItemCount, WritableFacts
  <2>2. ~GivesUp(s, i)
    BY WritableFacts
  <2> QED BY <2>1, <2>2
<1> DEFINE m == s.items[i]
<1>3. m \in Messages /\ Encodable(m) /\ FitsLength(Len(Payload(m)))
  BY <1>1, <1>2 DEF RequestStream, GivesUp
<1>4. h = 2 => Len(s.readers) = 2
  BY DEF Proper
<1>5. h = 2 /\ m.type = MSG_SUBSCRIBE =>
        m.fields[2] = U(0) /\ FitsLength(Len(Payload(RelaySubscribe(m))))
  BY <1>1, <1>2, <1>3, <1>4 DEF RequestStream
<1>6. m.type = MSG_SUBSCRIBE => RelaySubscribe(m) \in Messages /\ Encodable(RelaySubscribe(m))
  <2> HIDE DEF m
  <2> QED BY <1>3, RelayedSubscribe
<1>7. Got(s, h, i) = IF h = 2 /\ m.type = MSG_SUBSCRIBE THEN RelaySubscribe(m) ELSE m
  BY DEF Got
<1>8. Got(s, 1, i) = m
  BY DEF Got
<1> HIDE DEF m
<1>9. Got(s, h, i) \in Messages /\ Encodable(Got(s, h, i)) /\ FitsLength(Len(Payload(Got(s, h, i))))
  <2>1. CASE h = 2 /\ m.type = MSG_SUBSCRIBE
    BY <1>5, <1>6, <1>7, <2>1
  <2>2. CASE ~(h = 2 /\ m.type = MSG_SUBSCRIBE)
    BY <1>3, <1>7, <2>2
  <2> QED BY <2>1, <2>2
<1> QED BY <1>3, <1>5, <1>8, <1>9 DEF m

\* The header and the objects of a data stream.
LEMMA DataItems ==
    ASSUME NEW s \in Streams, Proper(s), s.kind = "data"
    PROVE  /\ s.items[1] \in Headers
           /\ \A h \in DOMAIN s.readers : TypeSays(TypeAt(s, h), s.items[1])
           /\ \A i \in 2..Len(s.items) :
                /\ s.items[i] \in Objects
                /\ ~s.items[1].properties => s.items[i].properties = << >>
                /\ IsIntPart(DeltaPart(s, i))
                /\ DecodeVarint(DeltaPart(s, i)) = Parsed(s.items[i].delta, << >>)
           /\ s.writer # "foreign" => ~s.items[1].properties /\ ~s.items[1].firstObject
<1>1. DataStream(s)
  BY DEF Proper, RequestStream
<1> DEFINE x == s.items[1]
<1>2. x \in Headers
  BY <1>1 DEF DataStream
<1>3. s.writer = "foreign" /\ x.firstObject => x.subgroup = << >>
  BY <1>1 DEF DataStream
<1> HIDE DEF x
<1>4. TypeSays(HeaderType(x), x)
  <2>1. TypeSays(HeaderType(x) + 0, x)
    BY <1>2, TypeBits
  <2>2. HeaderType(x) + 0 = HeaderType(x)
    <3>1. HeaderType(x) \in Int
      BY <1>2 DEF HeaderType
    <3> QED BY <3>1
  <2> QED BY <2>1, <2>2
<1>5. s.writer = "foreign" => TypeSays(ForeignHeaderType(x), x)
  <2>1. CASE x.firstObject
    <3>1. s.writer = "foreign" => TypeSays(HeaderType(x) + 2, x)
      BY <1>2, <1>3, <2>1, TypeBits
    <3>2. ForeignHeaderType(x) = HeaderType(x) + 2
      BY <2>1 DEF ForeignHeaderType
    <3> QED BY <3>1, <3>2
  <2>2. CASE ~x.firstObject
    <3>1. TypeSays(HeaderType(x) + 0, x)
      BY <1>2, TypeBits
    <3>2. ForeignHeaderType(x) = HeaderType(x) + 0
      BY <2>2 DEF ForeignHeaderType
    <3> QED BY <3>1, <3>2
  <2> QED BY <2>1, <2>2
<1>6. \A h \in DOMAIN s.readers : TypeSays(TypeAt(s, h), x)
  BY <1>4, <1>5 DEF TypeAt, x
<1>7. ASSUME NEW i \in 2..Len(s.items)
      PROVE  /\ s.items[i] \in Objects
             /\ ~x.properties => s.items[i].properties = << >>
             /\ IsIntPart(DeltaPart(s, i))
             /\ DecodeVarint(DeltaPart(s, i)) = Parsed(s.items[i].delta, << >>)
  <2> DEFINE o == s.items[i]
  <2>1. /\ o \in Objects /\ (~x.properties => o.properties = << >>)
        /\ s.writer = "foreign" => Fits(o.delta, 8)
    BY <1>1 DEF DataStream, x
  <2>2. o.delta \in U64
    BY <2>1 DEF Objects
  <2>3. DeltaPart(s, i) = IF s.writer = "foreign" THEN ForeignInt(o.delta) ELSE EncodeVarint(o.delta)
    BY DEF DeltaPart
  <2> DEFINE u == o.delta
  <2> HIDE DEF u
  <2>4. IsIntPart(EncodeVarint(u)) /\ DecodeVarint(EncodeVarint(u)) = Parsed(u, << >>)
    BY <2>2, VarintPart DEF u
  <2>5. s.writer = "foreign" =>
          IsIntPart(ForeignInt(u)) /\ DecodeVarint(ForeignInt(u)) = Parsed(u, << >>)
    BY <2>1, <2>2, ForeignPart DEF u
  <2> QED BY <2>1, <2>3, <2>4, <2>5 DEF u
<1>8. s.writer # "foreign" => ~x.properties /\ ~x.firstObject
  BY <1>1 DEF DataStream, x
<1> QED BY <1>2, <1>6, <1>7, <1>8 DEF x

\* Of a request stream frames are read.
LEMMA RequestParts ==
    ASSUME NEW s \in Streams, Proper(s), s.kind = "request",
           NEW h \in DOMAIN s.readers, NEW i \in 1..Writable(s)
    PROVE  LET c == Parts(s, h, i)
           IN /\ c \in Seq(Octets) /\ Len(c) \in Nat \ {0} /\ IsIntPart(c[1])
              /\ \A j \in 0..Len(c) : PlanFits(FramePlan(SubSeq(c, 1, j)), c, j)
              /\ Decode(FlattenSeq(c)) = Parsed(Got(s, h, i), << >>)
              /\ FlattenSeq(c) = Encode(Got(s, h, i))
<1> DEFINE m == Got(s, h, i)
           c == FrameParts(m)
<1>1. Parts(s, h, i) = c
  BY DEF Parts
<1>2. m \in Messages /\ Encodable(m) /\ FitsLength(Len(Payload(m)))
  BY RequestItems
<1> HIDE DEF m
<1>3. /\ c \in Seq(Octets) /\ Len(c) = 3 /\ IsIntPart(c[1])
      /\ FlattenSeq(c) = Encode(m)
      /\ \A j \in 0..3 : PlanFits(FramePlan(SubSeq(c, 1, j)), c, j)
      /\ Decode(FlattenSeq(c)) = Parsed(m, << >>)
  BY <1>2, FrameIsRead
<1> HIDE DEF c
<1> QED BY <1>1, <1>3 DEF m

\* Of a data stream first the header is read,
LEMMA HeaderPartsRead ==
    ASSUME NEW s \in Streams, Proper(s), s.kind = "data", NEW h \in DOMAIN s.readers
    PROVE  LET c == Parts(s, h, 1)
           IN /\ c \in Seq(Octets) /\ Len(c) \in Nat \ {0} /\ IsIntPart(c[1])
              /\ \A j \in 0..Len(c) : PlanFits(HeaderPlan(SubSeq(c, 1, j)), c, j)
              /\ DecodeSubgroupHeader(FlattenSeq(c)) = Parsed(Got(s, h, 1), << >>)
              /\ FlattenSeq(c) = EncodeSubgroupHeader(TypeAt(s, h), s.items[1])
<1> DEFINE x == s.items[1]
           type == TypeAt(s, h)
           c == HeaderParts(type, x)
<1>1. Parts(s, h, 1) = c /\ Got(s, h, 1) = Unsaid(x)
  BY DEF Parts, Got
<1>2. x \in Headers /\ TypeSays(type, x)
  BY DataItems
<1> HIDE DEF x, type
<1>3. /\ c \in Seq(Octets) /\ Len(c) \in Nat \ {0} /\ IsIntPart(c[1])
      /\ FlattenSeq(c) = EncodeSubgroupHeader(type, x)
      /\ \A j \in 0..Len(c) : PlanFits(HeaderPlan(SubSeq(c, 1, j)), c, j)
      /\ DecodeSubgroupHeader(FlattenSeq(c)) = Parsed(Unsaid(x), << >>)
  BY <1>2, HeaderIsRead
<1> HIDE DEF c
<1> QED BY <1>1, <1>3 DEF x, type

\* then the objects.
LEMMA ObjectPartsRead ==
    ASSUME NEW s \in Streams, Proper(s), s.kind = "data", NEW h \in DOMAIN s.readers,
           NEW i \in 2..Len(s.items)
    PROVE  LET c == Parts(s, h, i)
               o == s.items[i]
               p == s.items[1].properties
           IN /\ c \in Seq(Octets) /\ Len(c) \in Nat \ {0} /\ IsIntPart(c[1])
              /\ \A j \in 0..Len(c) : PlanFits(ObjectPlan(SubSeq(c, 1, j), p), c, j)
              /\ DecodeVarint(c[1]).value = o.delta /\ Last(c) = o.payload
              /\ (IF Len(c) = 5 THEN c[4] ELSE << >>) = o.properties
              /\ Got(s, h, i) = o
              /\ FlattenSeq(c) = IF s.writer = "foreign" THEN ForeignObject(p, o) ELSE EncodeObject(o)
<1> DEFINE o == s.items[i]
           p == s.items[1].properties
           d == DeltaPart(s, i)
           c == ObjectParts(d, p, o)
<1>0. i # 1
  OBVIOUS
<1>1. Parts(s, h, i) = c /\ Got(s, h, i) = o
  BY <1>0 DEF Parts, Got
<1>2. /\ o \in Objects /\ IsIntPart(d) /\ DecodeVarint(d) = Parsed(o.delta, << >>)
      /\ ~p => o.properties = << >>
      /\ s.writer # "foreign" => ~p
  BY DataItems
<1>3. p \in BOOLEAN
  <2>1. s.items[1] \in Headers
    BY DataItems
  <2> QED BY <2>1 DEF Headers
<1>4. d = IF s.writer = "foreign" THEN ForeignInt(o.delta) ELSE EncodeVarint(o.delta)
  BY DEF DeltaPart
<1>5. o.payload \in Octets /\ o.properties \in Octets /\ d \in Octets
  BY <1>2 DEF Objects, IsIntPart
<1> DEFINE l == EncodeVarint(U(Len(o.payload)))
<1>6. l \in Octets
  <2>1. o.payload \in Octets /\ Len(o.payload) < Huge
    BY <1>2 DEF Objects
  <2> QED BY <2>1, LengthPart
<1> HIDE DEF o, p, d
<1>7. CASE ~p
  <2>1. /\ c \in Seq(Octets) /\ Len(c) = 3 /\ c[1] = d /\ Last(c) = o.payload
        /\ FlattenSeq(c) = (d \o l) \o o.payload
        /\ \A j \in 0..3 : PlanFits(ObjectPlan(SubSeq(c, 1, j), p), c, j)
    <3>1. p = FALSE
      BY <1>3, <1>7
    <3> QED BY <1>2, <3>1, PlainObjectIsRead
  <2>2. ForeignObject(p, o) = ((ForeignInt(o.delta) \o l) \o << >>) \o o.payload
    BY <1>7 DEF ForeignObject
  <2>3. s.writer = "foreign" => ForeignObject(p, o) = FlattenSeq(c)
    <3>1. s.writer = "foreign" => ForeignInt(o.delta) \o l \in Octets
      BY <1>4, <1>5, <1>6, OctetFacts
    <3>2. s.writer = "foreign" => (ForeignInt(o.delta) \o l) \o << >> = ForeignInt(o.delta) \o l
      BY <3>1, OctetFacts
    <3> QED BY <1>4, <2>1, <2>2, <3>2
  <2>4. s.writer # "foreign" => EncodeObject(o) = FlattenSeq(c)
    <3>1. EncodeObject(o) = EncodeVarint(o.delta) \o (l \o o.payload)
      BY DEF EncodeObject, EncodeBytes
    <3>2. (d \o l) \o o.payload = d \o (l \o o.payload)
      BY <1>5, <1>6, Regroup
    <3> QED BY <1>4, <2>1, <3>1, <3>2
  <2> HIDE DEF c
  <2>5. Len(c) \in Nat \ {0} /\ IsIntPart(c[1])
    BY <1>2, <2>1
  <2>6. DecodeVarint(c[1]).value = o.delta
    BY <1>2, <2>1, ParsedFields
  <2>7. (IF Len(c) = 5 THEN c[4] ELSE << >>) = o.properties
    BY <1>2, <1>7, <2>1
  <2>8. FlattenSeq(c) = IF s.writer = "foreign" THEN ForeignObject(p, o) ELSE EncodeObject(o)
    BY <2>3, <2>4
  <2>9. \A j \in 0..Len(c) : PlanFits(ObjectPlan(SubSeq(c, 1, j), p), c, j)
    BY <2>1
  <2> QED BY <1>1, <2>1, <2>5, <2>6, <2>7, <2>8, <2>9 DEF o, p, d
<1>8. CASE p
  <2>1. /\ c \in Seq(Octets) /\ Len(c) = 5 /\ c[1] = d /\ c[4] = o.properties
        /\ Last(c) = o.payload
        /\ FlattenSeq(c) = ((d \o l) \o EncodeBytes(o.properties)) \o o.payload
        /\ \A j \in 0..5 : PlanFits(ObjectPlan(SubSeq(c, 1, j), p), c, j)
    <3>1. p = TRUE
      BY <1>3, <1>8
    <3> QED BY <1>2, <3>1, ObjectIsRead
  <2>2. ForeignObject(p, o) = ((ForeignInt(o.delta) \o l) \o EncodeBytes(o.properties)) \o o.payload
    BY <1>8 DEF ForeignObject
  <2>3. s.writer = "foreign"
    BY <1>2, <1>8
  <2> HIDE DEF c
  <2>5. Len(c) \in Nat \ {0} /\ IsIntPart(c[1])
    BY <1>2, <2>1
  <2>6. DecodeVarint(c[1]).value = o.delta
    BY <1>2, <2>1, ParsedFields
  <2>7. (IF Len(c) = 5 THEN c[4] ELSE << >>) = o.properties
    BY <1>2, <1>8, <2>1
  <2>8. FlattenSeq(c) = IF s.writer = "foreign" THEN ForeignObject(p, o) ELSE EncodeObject(o)
    BY <1>4, <2>1, <2>2, <2>3
  <2>9. \A j \in 0..Len(c) : PlanFits(ObjectPlan(SubSeq(c, 1, j), p), c, j)
    BY <2>1
  <2> QED BY <1>1, <2>1, <2>5, <2>6, <2>7, <2>8, <2>9 DEF o, p, d
<1> QED BY <1>7, <1>8

----------------------------------------------------------------------------
(* What a reader makes of an item *)

\* What can be read of a stream.
GotsOf(s) == {Got(s, h, i) : h \in {1, 2}, i \in 1..Len(s.items)}

\* The encodings of the items that are written, and all their bytes.
Encs(s, h) == [i \in 1..Writable(s) |-> FlattenSeq(Parts(s, h, i))]

Whole(s, h) == FlattenSeq(Encs(s, h))

\* The parts of every item that is written.
LEMMA PartsTyped ==
    ASSUME NEW s \in Streams, Proper(s), NEW h \in DOMAIN s.readers, NEW i \in 1..Writable(s)
    PROVE  LET c == Parts(s, h, i)
           IN c \in Seq(Octets) /\ Len(c) \in Nat \ {0} /\ IsIntPart(c[1])
<1>1. s.kind = "request" \/ s.kind = "data"
  BY DEF Proper, RequestStream, DataStream
<1>2. CASE s.kind = "request"
  BY <1>2, RequestParts
<1>3. CASE s.kind = "data"
  <2>1. i \in 1..Len(s.items)
    BY <1>3, WritableFacts
  <2>2. CASE i = 1
    BY <1>3, <2>2, HeaderPartsRead
  <2>3. CASE i # 1
    <3>1. i \in 2..Len(s.items)
      <4>1. Len(s.items) \in Nat
        BY ItemCount
      <4> QED BY <2>1, <2>3, <4>1
    <3> QED BY <1>3, <3>1, ObjectPartsRead
  <2> QED BY <2>2, <2>3
<1> QED BY <1>1, <1>2, <1>3

\* Every encoding has bytes.
LEMMA EncsTyped ==
    ASSUME NEW s \in Streams, Proper(s), NEW h \in DOMAIN s.readers
    PROVE  /\ Writable(s) \in Nat
           /\ Encs(s, h) \in Seq(Octets) /\ Len(Encs(s, h)) = Writable(s)
           /\ \A i \in 1..Writable(s) : Encs(s, h)[i] = FlattenSeq(Parts(s, h, i))
           /\ \A i \in 1..Len(Encs(s, h)) : Encs(s, h)[i] # << >>
           /\ Whole(s, h) \in Octets
<1> DEFINE w == Writable(s)
           e == [i \in 1..w |-> FlattenSeq(Parts(s, h, i))]
<1>1. w \in Nat
  BY ItemCount, WritableFacts
<1>2. ASSUME NEW i \in 1..w
      PROVE  FlattenSeq(Parts(s, h, i)) \in Octets /\ FlattenSeq(Parts(s, h, i)) # << >>
  <2> DEFINE c == Parts(s, h, i)
  <2>1. c \in Seq(Octets) /\ Len(c) \in Nat \ {0} /\ IsIntPart(c[1])
    BY PartsTyped
  <2> HIDE DEF c
  <2> DEFINE a == c[1]
             b == Left(c, 1)
  <2>2. Octets = Seq(Byte)
    BY DEF Octets
  <2>3. 1 \in 1..Len(c) /\ 0 \in 0..Len(c) /\ 1 \in 0..Len(c) /\ 1 - 1 = 0
    BY <2>1
  <2>4. Left(c, 0) = a \o b /\ Left(c, 0) = FlattenSeq(c) /\ b \in Octets
    BY <2>1, <2>2, <2>3, LeftStep
  <2>5. a \in Octets /\ a # << >>
    BY <2>1 DEF IsIntPart
  <2> HIDE DEF a, b
  <2>6. Len(a) \in Nat \ {0} /\ Len(b) \in Nat /\ a \o b \in Octets /\ Len(a \o b) = Len(a) + Len(b)
    BY <2>4, <2>5, OctetFacts
  <2>7. a \o b # << >>
    <3>1. Len(a \o b) # 0
      BY <2>6
    <3> QED BY <3>1, EmptySeq
  <2> QED BY <2>4, <2>6, <2>7 DEF c
<1>3. e \in [1..w -> Octets]
  BY <1>2
<1>4. e \in Seq(Octets) /\ Len(e) = w
  BY <1>1, <1>3, SeqDef, LenProperties
<1>5. \A i \in 1..w : e[i] = FlattenSeq(Parts(s, h, i))
  OBVIOUS
<1>6. Encs(s, h) = e
  BY DEF Encs
<1>7. FlattenSeq(e) \in Octets
  <2>1. Octets = Seq(Byte)
    BY DEF Octets
  <2> HIDE DEF e
  <2> QED BY <1>4, <2>1, FlatTyped
<1> HIDE DEF e, w
<1> QED BY <1>1, <1>2, <1>4, <1>5, <1>6, <1>7 DEF Whole, w

\* The readers of proper streams.
LEMMA ProperHops ==
    ASSUME Proper(stream)
    PROVE  /\ Hops = {1} \/ Hops = {1, 2}
           /\ 1 \in Hops /\ \A h \in Hops : Native(h)
           /\ stream.kind = "request" \/ stream.kind = "data"
<1>1. stream.readers = <<"native">> \/ stream.readers = <<"native", "native">>
  BY DEF Proper
<1>2. stream.kind = "request" \/ stream.kind = "data"
  BY DEF Proper, RequestStream, DataStream
<1>3. CASE stream.readers = <<"native">>
  <2>1. Hops = {1}
    BY <1>3 DEF Hops
  <2> QED BY <1>2, <1>3, <2>1 DEF Native
<1>4. CASE stream.readers = <<"native", "native">>
  <2>1. Hops = {1, 2}
    BY <1>4 DEF Hops
  <2>2. \A h \in {1, 2} : stream.readers[h] = "native"
    BY <1>4
  <2> QED BY <1>2, <2>1, <2>2 DEF Native
<1> QED BY <1>1, <1>3, <1>4

\* Before anything of an item, an integer is read.
LEMMA FirstPlan == \A h : Plan(h, << >>) = AnInt
<1>1. FramePlan(<< >>) = AnInt
  BY DEF FramePlan
<1>2. HeaderPlan(<< >>) = AnInt
  <2> DEFINE g == IF HasSubgroup(Number(<< >>, 1)) THEN <<AnInt>> ELSE << >>
             o == IF HasPriority(Number(<< >>, 1)) THEN <<Bytes(1)>> ELSE << >>
             plan == <<AnInt, AnInt, AnInt>> \o g \o o \o <<Nothing>>
  <2>1. HeaderPlan(<< >>) = plan[1]
    BY DEF HeaderPlan
  <2>2. plan[1] = AnInt
    OBVIOUS
  <2> QED BY <2>1, <2>2
<1>3. \A p : ObjectPlan(<< >>, p) = AnInt
  <2> SUFFICES ASSUME NEW p PROVE ObjectPlan(<< >>, p) = AnInt
    OBVIOUS
  <2> DEFINE g == IF p THEN <<AnInt, Bytes(Number(<< >>, 3))>> ELSE << >>
             plan == <<AnInt, AnInt>> \o g \o <<Bytes(Number(<< >>, 2)), Nothing>>
  <2>1. ObjectPlan(<< >>, p) = plan[1]
    BY DEF ObjectPlan
  <2>2. plan[1] = AnInt
    OBVIOUS
  <2> QED BY <2>1, <2>2
<1> QED BY <1>1, <1>2, <1>3 DEF Plan

\* Where the reader of stream h is: it has read the items before i.
At(h, i) ==
    /\ reader[h].out \in Seq(GotsOf(stream)) /\ Len(reader[h].out) = i - 1
    /\ \A q \in 1..(i - 1) : reader[h].out[q] = Got(stream, h, q)

\* What it reads and makes of item i, and what the relay writes of it.
LEMMA ItemIsRead ==
    ASSUME stream \in Streams, Proper(stream), NEW h \in Hops, NEW i \in 1..Writable(stream), At(h, i)
    PROVE  LET c == Parts(stream, h, i)
           IN /\ \A j \in 0..Len(c) : PlanFits(Plan(h, SubSeq(c, 1, j)), c, j)
              /\ Item(h, c) = Parsed(Got(stream, h, i), << >>)
              /\ h = 1 /\ 2 \in Hops =>
                   PassedOn(Got(stream, 1, i), c) = FlattenSeq(Parts(stream, 2, i))
<1> DEFINE c == Parts(stream, h, i)
<1>1. h \in DOMAIN stream.readers /\ Native(h) /\ (stream.kind = "request" \/ stream.kind = "data")
      /\ (2 \in Hops => 2 \in DOMAIN stream.readers)
  BY ProperHops DEF Hops
<1>2. CASE stream.kind = "request"
  <2>1. ~AtHeader(h) /\ ~AtObject(h) /\ ~AtHeader(1) /\ ~AtObject(1)
    BY <1>2 DEF AtHeader, AtObject
  <2>2. /\ \A j \in 0..Len(c) : PlanFits(FramePlan(SubSeq(c, 1, j)), c, j)
        /\ Decode(FlattenSeq(c)) = Parsed(Got(stream, h, i), << >>)
    BY <1>1, <1>2, RequestParts
  <2>3. 2 \in Hops => FlattenSeq(Parts(stream, 2, i)) = Encode(Got(stream, 2, i))
    BY <1>1, <1>2, RequestParts
  <2>4. Got(stream, 1, i) = stream.items[i]
    BY <1>2 DEF Got
  <2>5. Got(stream, 2, i) = IF stream.items[i].type = MSG_SUBSCRIBE THEN RelaySubscribe(stream.items[i])
                            ELSE stream.items[i]
    BY <1>2 DEF Got
  <2> HIDE DEF c
  <2>6. \A q : Plan(h, q) = FramePlan(q)
    BY <2>1 DEF Plan
  <2>7. Item(h, c) = Decode(FlattenSeq(c))
    BY <1>1, <1>2, <2>1 DEF Item
  <2>8. PassedOn(Got(stream, 1, i), c) = Encode(Got(stream, 2, i))
    BY <2>1, <2>4, <2>5 DEF PassedOn
  <2> QED BY <2>2, <2>3, <2>6, <2>7, <2>8 DEF c
<1>3. CASE stream.kind = "data" /\ i = 1
  <2>1. AtHeader(h) /\ ~AtObject(h)
    <3>1. reader[h].out \in Seq(GotsOf(stream)) /\ Len(reader[h].out) = 0
      BY <1>3 DEF At
    <3>2. reader[h].out = << >>
      BY <3>1, EmptySeq
    <3> QED BY <1>3, <3>2 DEF AtHeader, AtObject
  <2>2. /\ \A j \in 0..Len(c) : PlanFits(HeaderPlan(SubSeq(c, 1, j)), c, j)
        /\ DecodeSubgroupHeader(FlattenSeq(c)) = Parsed(Got(stream, h, i), << >>)
    BY <1>1, <1>3, HeaderPartsRead
  <2> DEFINE x == stream.items[1]
  <2>3. 2 \in Hops => FlattenSeq(Parts(stream, 2, 1)) = EncodeSubgroupHeader(HeaderType(x), x)
    <3>1. TypeAt(stream, 2) = HeaderType(x)
      BY DEF TypeAt
    <3> QED BY <1>1, <1>3, <3>1, HeaderPartsRead
  <2>4. Got(stream, 1, 1) = Unsaid(x)
    BY <1>3 DEF Got
  <2> HIDE DEF c, x
  <2>6. \A q : Plan(h, q) = HeaderPlan(q)
    BY <2>1 DEF Plan
  <2>7. Item(h, c) = DecodeSubgroupHeader(FlattenSeq(c))
    BY <1>1, <1>3, <2>1 DEF Item
  <2>8. h = 1 => PassedOn(Unsaid(x), c) = EncodeSubgroupHeader(HeaderType(x), x)
    <3>1. HeaderType(Unsaid(x)) = HeaderType(x)
      BY DEF Unsaid, HeaderType
    <3>2. \A type : EncodeSubgroupHeader(type, Unsaid(x)) = EncodeSubgroupHeader(type, x)
      BY DEF Unsaid, EncodeSubgroupHeader
    <3> QED BY <2>1, <3>1, <3>2 DEF PassedOn
  <2> QED BY <1>3, <2>2, <2>3, <2>4, <2>6, <2>7, <2>8 DEF c
<1>4. CASE stream.kind = "data" /\ i # 1
  <2> DEFINE o == stream.items[i]
             p == stream.items[1].properties
             out == reader[h].out
  <2>0. i \in 2..Len(stream.items)
    <3>1. Len(stream.items) \in Nat /\ Writable(stream) = Len(stream.items)
      BY <1>4, ItemCount, WritableFacts
    <3> QED BY <1>4, <3>1
  <2>1. /\ ~AtHeader(h) /\ AtObject(h) /\ (HasProperties(h) <=> p)
    <3>1. out \in Seq(GotsOf(stream)) /\ Len(out) = i - 1 /\ out[1] = Got(stream, h, 1)
      BY <2>0 DEF At
    <3>2. out # << >>
      BY <2>0, <3>1, EmptySeq
    <3>3. Got(stream, h, 1).properties = p
      BY <1>4 DEF Got, Unsaid
    <3> QED BY <1>1, <1>4, <3>1, <3>2, <3>3 DEF AtHeader, AtObject, HasProperties
  <2>2. /\ \A j \in 0..Len(c) : PlanFits(ObjectPlan(SubSeq(c, 1, j), p), c, j)
        /\ DecodeVarint(c[1]).value = o.delta /\ Last(c) = o.payload
        /\ (IF Len(c) = 5 THEN c[4] ELSE << >>) = o.properties
        /\ Got(stream, h, i) = o
    BY <1>1, <1>4, <2>0, ObjectPartsRead
  <2>3. Parts(stream, 1, i) = Parts(stream, 2, i)
    BY <1>4 DEF Parts
  <2>4. o \in Objects
    BY <1>4, <2>0, DataItems
  <2>9. o = [delta |-> o.delta, properties |-> o.properties, payload |-> o.payload]
    <3> HIDE DEF o
    <3> QED BY <2>4 DEF Objects
  <2>6. \A q : Plan(h, q) = ObjectPlan(q, p)
    <3> HIDE DEF p
    <3> QED BY <2>1 DEF Plan, ObjectPlan
  <2>10. h = 1 => c = Parts(stream, 2, i)
    BY <2>3
  <2> HIDE DEF c, p
  <2>7. Item(h, c) = Parsed(o, << >>)
    <3>1. Item(h, c) = ObjectOf(h, c)
      BY <1>1, <1>4, <2>1 DEF Item
    <3> HIDE DEF o
    <3> QED BY <1>1, <2>2, <2>9, <3>1 DEF ObjectOf
  <2>8. h = 1 => \A item : PassedOn(item, c) = FlattenSeq(c)
    BY <2>1 DEF PassedOn
  <2> QED BY <2>2, <2>6, <2>7, <2>8, <2>10 DEF c
<1> QED BY <1>1, <1>2, <1>3, <1>4

\* What the writer writes of it.
LEMMA ItemIsWritten ==
    ASSUME stream \in Streams, Proper(stream), written \in Nat, written < Writable(stream)
    PROVE  Encoding(stream.items[written + 1]) = FlattenSeq(Parts(stream, 1, written + 1))
<1> DEFINE i == written + 1
<1>1. 1 \in DOMAIN stream.readers /\ (stream.kind = "request" \/ stream.kind = "data")
  BY ProperHops DEF Hops
<1>2. i \in 1..Writable(stream)
  <2>1. Writable(stream) \in Nat
    BY <1>1, EncsTyped
  <2> QED BY <2>1
<1>3. CASE stream.kind = "request"
  <2>1. FlattenSeq(Parts(stream, 1, i)) = Encode(Got(stream, 1, i))
    BY <1>1, <1>2, <1>3, RequestParts
  <2>2. Got(stream, 1, i) = stream.items[i]
    BY <1>3 DEF Got
  <2>3. stream.writer = "native"
    BY <1>3 DEF Proper, RequestStream, DataStream
  <2> QED BY <1>3, <2>1, <2>2, <2>3 DEF Encoding
<1>4. CASE stream.kind = "data" /\ written = 0
  <2>1. FlattenSeq(Parts(stream, 1, 1)) = EncodeSubgroupHeader(TypeAt(stream, 1), stream.items[1])
    BY <1>1, <1>4, HeaderPartsRead
  <2>2. i = 1
    BY <1>4
  <2>3. Encoding(stream.items[1]) = EncodeSubgroupHeader(TypeAt(stream, 1), stream.items[1])
    BY <1>4 DEF Encoding, TypeAt
  <2> QED BY <2>1, <2>2, <2>3
<1>5. CASE stream.kind = "data" /\ written # 0
  <2>1. i \in 2..Len(stream.items)
    <3>1. Len(stream.items) \in Nat /\ Writable(stream) = Len(stream.items)
      BY <1>5, ItemCount, WritableFacts
    <3> QED BY <1>2, <1>5, <3>1
  <2> DEFINE o == stream.items[i]
             p == stream.items[1].properties
  <2>2. FlattenSeq(Parts(stream, 1, i)) =
          IF stream.writer = "foreign" THEN ForeignObject(p, o) ELSE EncodeObject(o)
    BY <1>1, <1>5, <2>1, ObjectPartsRead
  <2>3. Encoding(o) = IF stream.writer = "foreign" THEN ForeignObject(p, o) ELSE EncodeObject(o)
    <3> HIDE DEF o
    <3> QED BY <1>5 DEF Encoding
  <2> QED BY <2>2, <2>3
<1> QED BY <1>1, <1>3, <1>4, <1>5

----------------------------------------------------------------------------
(* One read *)

\* How many bytes are read for a part of which a byte, or none, was read.
NeedFor(plan, part) ==
    IF part # << >> THEN VarintByteLength(part[1]) - 1
    ELSE IF plan.what = "int" THEN 1 ELSE plan.n

\* The plan and the byte are those of part e.
ReadsPart(plan, part, e) ==
    /\ (plan = AnInt /\ IsIntPart(e)) \/ plan = Bytes(Len(e))
    /\ part = << >> \/ (part = <<e[1]>> /\ Len(e) > 1 /\ IsIntPart(e))

\* Never more than the part has.
LEMMA NeedIsLeft ==
    ASSUME NEW e \in Octets, NEW plan, NEW part \in Octets, ReadsPart(plan, part, e)
    PROVE  /\ NeedFor(plan, part) \in Nat /\ NeedFor(plan, part) + Len(part) <= Len(e)
           /\ Len(part) \in {0, 1} /\ (part = << >> <=> Len(part) = 0)
           /\ plan # AnInt \/ part # << >> => NeedFor(plan, part) + Len(part) = Len(e)
           /\ plan = AnInt /\ part = << >> => NeedFor(plan, part) = 1 /\ Len(e) >= 1
<1> DEFINE n == Len(e)
<1>1. n \in Nat
  BY OctetFacts
<1>2. IsIntPart(e) => n >= 1 /\ VarintByteLength(e[1]) = n
  <2>1. IsIntPart(e) => n \in Nat \ {0} /\ VarintByteLength(e[1]) = n
    BY OctetFacts DEF IsIntPart
  <2> HIDE DEF n
  <2> QED BY <2>1
<1>3. (plan = AnInt /\ IsIntPart(e)) \/ plan = Bytes(n)
  BY DEF ReadsPart
<1>4. CASE part = << >>
  <2>1. Len(part) = 0
    BY <1>4, EmptySeq
  <2>2. CASE plan = AnInt
    <3>1. plan.what = "int" /\ ~(\E k : plan = Bytes(k))
      BY <2>2 DEF AnInt, Bytes
    <3>2. IsIntPart(e) /\ NeedFor(plan, part) = 1
      BY <1>3, <1>4, <3>1 DEF NeedFor
    <3> HIDE DEF n
    <3>3. n >= 1 /\ NeedFor(plan, part) + Len(part) <= n
      BY <1>1, <1>2, <2>1, <3>2
    <3> QED BY <1>4, <2>1, <2>2, <3>2, <3>3 DEF n
  <2>3. CASE plan # AnInt
    <3>1. plan = Bytes(n)
      BY <1>3, <2>3
    <3>2. plan.what # "int" /\ plan.n = n
      BY <3>1 DEF Bytes
    <3>3. NeedFor(plan, part) = n
      BY <1>4, <3>2 DEF NeedFor
    <3> HIDE DEF n
    <3>4. NeedFor(plan, part) \in Nat /\ NeedFor(plan, part) + Len(part) = n
          /\ NeedFor(plan, part) + Len(part) <= n
      BY <1>1, <2>1, <3>3
    <3> QED BY <1>4, <2>1, <2>3, <3>4 DEF n
  <2> QED BY <2>2, <2>3
<1>5. CASE part # << >>
  <2>1. part = <<e[1]>> /\ IsIntPart(e)
    BY <1>5 DEF ReadsPart
  <2>2. Len(part) = 1 /\ part[1] = e[1]
    BY <2>1
  <2>3. NeedFor(plan, part) = n - 1
    BY <1>2, <1>5, <2>1, <2>2 DEF NeedFor
  <2> HIDE DEF n
  <2>4. NeedFor(plan, part) \in Nat /\ NeedFor(plan, part) + Len(part) = n
        /\ NeedFor(plan, part) + Len(part) <= n
    BY <1>1, <1>2, <2>1, <2>2, <2>3
  <2> QED BY <1>5, <2>2, <2>4 DEF n
<1> QED BY <1>4, <1>5

\* Two sequences of bytes, byte by byte.
LEMMA BothBytes ==
    ASSUME NEW a \in Octets, NEW z \in Octets
    PROVE  /\ \A i \in 1..Len(a) : (a \o z)[i] = a[i]
           /\ \A i \in 1..Len(z) : (a \o z)[Len(a) + i] = z[i]
  BY DEF Octets

\* Part e and then z are what is left, with the byte of e that was read.
PartIsNext(b, y, u, part, e, z) ==
    Len(part) <= u /\ From(b \o y, u - Len(part) + 1) = e \o z

\* The next read finds the first byte of e, and nothing else is read, or it finds
\* all of it, and then comes z.
ReadFinds(b, y, u, part, plan, e, z) ==
    LET need == NeedFor(plan, part)
        got == part \o SubSeq(b, u + 1, u + need)
        begins == plan.what = "int" /\ part = << >> /\ VarintByteLength(got[1]) # 1
    IN /\ got \in Octets
       /\ begins => got = <<e[1]>> /\ Len(e) > 1 /\ IsIntPart(e) /\ need = 1 /\ part = << >>
       /\ ~begins => got = e /\ From(b \o y, u + need + 1) = z

\* That is what it finds.
LEMMA OneRead ==
    \A plan : \A e \in Octets, z \in Octets, b \in Octets, y \in Octets, u \in Nat, part \in Octets :
      (PartIsNext(b, y, u, part, e, z) /\ ReadsPart(plan, part, e)
         /\ u + NeedFor(plan, part) <= Len(b)) => ReadFinds(b, y, u, part, plan, e, z)
<1> TAKE plan
<1> TAKE e \in Octets, z \in Octets, b \in Octets, y \in Octets, u \in Nat, part \in Octets
<1> HAVE PartIsNext(b, y, u, part, e, z) /\ ReadsPart(plan, part, e)
           /\ u + NeedFor(plan, part) <= Len(b)
<1> USE DEF PartIsNext
<1> DEFINE need == NeedFor(plan, part)
           s == SubSeq(b, u + 1, u + need)
           got == part \o s
           p == Len(part)
           v == u - p
           n == Len(e)
           l == Len(b)
<1>1. /\ need \in Nat /\ need + p <= n /\ p \in {0, 1} /\ (part = << >> <=> p = 0)
      /\ plan # AnInt \/ part # << >> => need + p = n
      /\ plan = AnInt /\ part = << >> => need = 1 /\ n >= 1
  BY NeedIsLeft
<1>2. n \in Nat /\ l \in Nat /\ b \in Seq(Byte) /\ \A i \in 1..l : b[i] \in Byte
  BY OctetFacts DEF Octets
<1>3. u + need <= l
  OBVIOUS
<1>16. p <= u
  OBVIOUS
<1>17. From(b \o y, v + 1) = e \o z
  OBVIOUS
<1> HIDE DEF need, n, p
<1>4. v \in Nat /\ v = u - p /\ u = v + p
  BY <1>1, <1>16
<1> HIDE DEF v
<1>5. s \in Octets /\ Len(s) = need /\ \A i \in 1..need : s[i] = b[u + i]
  <2>0. l = Len(b)
    OBVIOUS
  <2>4. \A i \in 1..need : s[i] = b[u + i]
    BY <1>1, <1>2
  <2> HIDE DEF l
  <2>1. \A i \in (u + 1)..(u + need) : b[i] \in Byte
    BY <1>1, <1>2, <1>3
  <2>2. u + 1 \in Int /\ u + need \in Int
    BY <1>1
  <2>3. s \in Seq(Byte) /\ Len(s) = IF u + 1 <= u + need THEN (u + need) - (u + 1) + 1 ELSE 0
    BY <2>1, <2>2, SubSeqProperties
  <2>5. Len(s) = need
    BY <1>1, <2>3
  <2> QED BY <2>3, <2>4, <2>5 DEF Octets
<1>6. got \in Octets
  <2> HIDE DEF s
  <2> QED BY <1>5, OctetFacts
<1>7. ASSUME need + p = n PROVE got = e /\ From(b \o y, u + need + 1) = z
  <2>1. v + n <= l /\ v + n = u + need
    BY <1>1, <1>2, <1>3, <1>4, <1>7
  <2>2. Len(e) = n /\ v + n <= Len(b)
    BY <2>1 DEF n
  <2>3. /\ SubSeq(b, v + 1, v + n) = e /\ From(b \o y, v + n + 1) = z
        /\ \A i \in 1..n : b[v + i] = e[i]
    <3>1. v \in Nat /\ n \in Nat
      BY <1>2, <1>4
    <3>2. v + n <= Len(b) /\ Len(e) = n /\ From(b \o y, v + 1) = e \o z
      BY <1>17, <2>2
    <3> HIDE DEF s, got, l
    <3>3. Follows(b, y, v, n, e, z)
      BY <3>1, <3>2, NextBytes, Zenon
    <3> QED BY <3>3, Zenon DEF Follows
  <2>4. got = e
    <3>1. CASE p = 0
      <4>1. part = << >> /\ v = u /\ need = n
        BY <1>1, <1>2, <1>4, <1>7, <3>1
      <4>2. s = e
        BY <2>3, <4>1
      <4> HIDE DEF s
      <4> QED BY <4>1, <4>2, OctetFacts
    <3>2. CASE p = 1
      <4>1. part # << >> /\ u = v + 1
        BY <1>1, <1>4, <3>2
      <4>2. part = <<e[1]>>
        BY <4>1 DEF ReadsPart
      <4>3. e[1] = b[v + 1]
        <5>1. 1 \in 1..n
          BY <1>1, <1>2, <1>7, <3>2
        <5> QED BY <2>3, <5>1
      <4>4. part \in Seq(Byte) /\ Len(part) = 1
        BY <3>2 DEF Octets, p
      <4>5. Len(got) = n /\ got \in Seq(Byte) /\ e \in Seq(Byte)
        <5> HIDE DEF s
        <5>1. Len(part \o s) = 1 + need
          <6>1. part \in Octets /\ s \in Octets
            BY <1>5
          <6>2. Len(part \o s) = Len(part) + Len(s)
            BY <6>1, OctetFacts, Zenon
          <6> QED BY <1>5, <4>4, <6>2
        <5>2. 1 + need = n
          BY <1>1, <1>2, <1>7, <3>2
        <5> QED BY <1>6, <5>1, <5>2 DEF Octets
      <4>6. ASSUME NEW i \in 1..n PROVE got[i] = e[i]
        <5>1. CASE i = 1
          <6> HIDE DEF s
          <6>1. s \in Seq(Byte) /\ part[1] = e[1] /\ 1 \in 1..Len(part)
            BY <1>5, <4>2, <4>4 DEF Octets
          <6>2. (part \o s)[1] = part[1]
            BY <1>5, <6>1, BothBytes, Zenon
          <6> QED BY <5>1, <6>1, <6>2
        <5>2. CASE i # 1
          <6>1. i - 1 \in 1..need /\ 1 + (i - 1) = i /\ u + (i - 1) = v + i
            BY <1>1, <1>2, <1>4, <1>7, <3>2, <4>1, <5>2
          <6>2. s[i - 1] = b[v + i]
            BY <1>5, <6>1
          <6>3. e[i] = b[v + i]
            <7> QED BY <2>3
          <6>4. got[1 + (i - 1)] = s[i - 1]
            <7> HIDE DEF s
            <7> DEFINE k == i - 1
            <7>1. k \in 1..Len(s) /\ s \in Seq(Byte)
              BY <1>5, <6>1 DEF Octets
            <7> HIDE DEF k
            <7>2. (part \o s)[1 + k] = s[k]
              <8>1. (part \o s)[Len(part) + k] = s[k]
                BY <1>5, <7>1, BothBytes, Zenon
              <8> QED BY <4>4, <8>1
            <7> QED BY <7>2 DEF k
          <6> QED BY <6>1, <6>2, <6>3, <6>4
        <5> QED BY <5>1, <5>2
      <4> HIDE DEF got
      <4>7. n = Len(e)
        BY DEF n
      <4> QED BY <4>5, <4>6, <4>7, SeqEqual
    <3> QED BY <1>1, <3>1, <3>2
  <2> HIDE DEF got
  <2> QED BY <2>1, <2>3, <2>4
<1> DEFINE begins == plan.what = "int" /\ part = << >> /\ VarintByteLength(got[1]) # 1
<1>8. ASSUME plan = AnInt /\ part = << >>
      PROVE  /\ got \in Octets
             /\ begins => got = <<e[1]>> /\ Len(e) > 1 /\ IsIntPart(e) /\ need = 1 /\ part = << >>
             /\ ~begins => got = e /\ From(b \o y, u + need + 1) = z
  <2>1. IsIntPart(e) /\ need = 1 /\ n >= 1 /\ p = 0 /\ v = u
    <3>1. ~(\E k : plan = Bytes(k))
      BY <1>8 DEF AnInt, Bytes
    <3> QED BY <1>1, <1>4, <1>8, <3>1 DEF ReadsPart
  <2>2. VarintByteLength(e[1]) = n
    BY <2>1 DEF IsIntPart, n
  <2>3. got = s
    <3> HIDE DEF s
    <3> QED BY <1>5, <1>8, OctetFacts
  <2>4. s[1] = e[1]
    <3>1. s[1] = b[u + 1]
      BY <1>5, <2>1
    <3> DEFINE w == b \o y
    <3>2. u + 1 \in 1..l
      BY <1>2, <1>3, <2>1
    <3>3. w[u + 1] = b[u + 1]
      <4>1. b \in Seq(Byte) /\ y \in Seq(Byte)
        BY DEF Octets
      <4> QED BY <3>2, <4>1, ConcatFirst
    <3>4. w \in Octets /\ Len(w) = l + Len(y) /\ Len(y) \in Nat
      BY OctetFacts
    <3> HIDE DEF w, l
    <3>5. u \in 0..Len(w) /\ 1 \in 1..(Len(w) - u)
      BY <1>2, <3>2, <3>4
    <3>6. From(w, u + 1)[1] = w[u + 1]
      BY <3>4, <3>5, FromBytes
    <3>7. From(w, u + 1) = e \o z
      BY <1>17, <2>1 DEF w
    <3>8. (e \o z)[1] = e[1]
      <4>1. 1 \in 1..Len(e)
        BY <1>2, <2>1 DEF n
      <4>2. e \in Seq(Byte) /\ z \in Seq(Byte)
        BY DEF Octets
      <4> QED BY <4>1, <4>2, ConcatFirst
    <3> QED BY <3>1, <3>3, <3>6, <3>7, <3>8
  <2>5. begins <=> n # 1
    <3>1. plan.what = "int"
      BY <1>8 DEF AnInt
    <3>2. got[1] = e[1]
      BY <2>3, <2>4
    <3> HIDE DEF got
    <3> QED BY <1>8, <2>2, <3>1, <3>2
  <2>6. got = <<e[1]>>
    <3>1. <<e[1]>> \in Seq(Byte)
      <4>1. e[1] \in Byte
        <5>1. 1 \in 1..Len(e)
          BY <1>2, <2>1 DEF n
        <5> QED BY <5>1, ElementOfSeq DEF Octets
      <4> QED BY <4>1
    <3>2. s \in Seq(Byte) /\ Len(s) = 1 /\ s[1] = e[1]
      BY <1>5, <2>1, <2>4 DEF Octets
    <3> HIDE DEF s
    <3> DEFINE t == <<e[1]>>
    <3>3. t \in Seq(Byte) /\ Len(t) = 1 /\ t[1] = e[1]
      BY <3>1
    <3> HIDE DEF t
    <3>4. \A i \in 1..1 : s[i] = t[i]
      BY <3>2, <3>3
    <3>5. s = t
      BY <3>2, <3>3, <3>4, SeqEqual
    <3> QED BY <2>3, <3>5 DEF t
  <2>7. CASE n = 1
    <3>1. need + p = n
      BY <2>1, <2>7
    <3> HIDE DEF got
    <3> QED BY <1>6, <1>7, <2>5, <2>7, <3>1
  <2>8. CASE n # 1
    <3>1. n > 1
      BY <1>2, <2>1, <2>8
    <3> HIDE DEF got
    <3> QED BY <1>6, <1>8, <2>1, <2>5, <2>6, <2>8, <3>1 DEF n
  <2> QED BY <2>7, <2>8
<1>9. ASSUME plan # AnInt \/ part # << >>
      PROVE  /\ got \in Octets
             /\ begins => got = <<e[1]>> /\ Len(e) > 1 /\ IsIntPart(e) /\ need = 1 /\ part = << >>
             /\ ~begins => got = e /\ From(b \o y, u + need + 1) = z
  <2>1. need + p = n
    BY <1>1, <1>9
  <2>2. ~begins
    <3>1. CASE part # << >>
      BY <3>1
    <3>2. CASE plan # AnInt
      <4>1. plan.what # "int"
        BY <3>2 DEF ReadsPart, Bytes
      <4> QED BY <4>1
    <3> QED BY <1>9, <3>1, <3>2
  <2> HIDE DEF got
  <2> QED BY <1>6, <1>7, <2>1, <2>2
<1>10. /\ got \in Octets
       /\ begins => got = <<e[1]>> /\ Len(e) > 1 /\ IsIntPart(e) /\ need = 1 /\ part = << >>
       /\ ~begins => got = e /\ From(b \o y, u + need + 1) = z
  BY <1>8, <1>9
<1> QED BY <1>10 DEF ReadFinds, need

----------------------------------------------------------------------------
(* A reader within an item *)

\* A stream, and its reader.
Wires == [bytes : Octets, arrived : Nat, end : {"open", "fin", "reset"}]

ReadersOf(s) ==
    [state : {"reading", "end", "error"}, used : Nat, parts : Seq(Octets), part : Octets,
     out : Seq(GotsOf(s))]

\* The reader has read all items before the next one, and j parts of that one.
\* The bytes it has not used, with the one that it keeps, are those of the other
\* parts and of the items behind.
Within(s, h, r, j) ==
    LET n == Len(r.out)
        c == Parts(s, h, n + 1)
    IN /\ r.parts = SubSeq(c, 1, j)
       /\ r.part = << >> \/ (r.part = <<c[j + 1][1]>> /\ Len(c[j + 1]) > 1 /\ IsIntPart(c[j + 1]))
       /\ Len(r.part) <= r.used
       /\ From(Whole(s, h), r.used - Len(r.part) + 1) = Left(c, j) \o Left(Encs(s, h), n + 1)

\* It is between two items.
Between(s, h, r) ==
    /\ r.parts = << >> /\ r.part = << >>
    /\ From(Whole(s, h), r.used + 1) = Left(Encs(s, h), Len(r.out))

\* Between two items it is before the first part of the next one.
LEMMA BetweenIsWithin ==
    ASSUME NEW s \in Streams, Proper(s), NEW h \in DOMAIN s.readers, NEW r \in ReadersOf(s),
           Between(s, h, r), Len(r.out) < Writable(s)
    PROVE  Within(s, h, r, 0) /\ 0 \in 0..(Len(Parts(s, h, Len(r.out) + 1)) - 1)
<1> DEFINE n == Len(r.out)
           c == Parts(s, h, n + 1)
           e == Encs(s, h)
           w == Writable(s)
<1>1. n \in Nat /\ r.used \in Nat
  BY LenProperties DEF ReadersOf
<1>2. /\ w \in Nat /\ e \in Seq(Octets) /\ Len(e) = w
      /\ \A i \in 1..w : e[i] = FlattenSeq(Parts(s, h, i))
  BY EncsTyped
<1>3. n < w
  OBVIOUS
<1>4. r.parts = << >> /\ r.part = << >> /\ From(Whole(s, h), r.used + 1) = Left(e, n)
  BY DEF Between
<1> HIDE DEF n, w
<1>5. n + 1 \in 1..w /\ (n + 1) - 1 = n
  BY <1>1, <1>2, <1>3
<1>6. c \in Seq(Octets) /\ Len(c) \in Nat \ {0}
  BY <1>5, PartsTyped DEF w
<1>7. Octets = Seq(Byte)
  BY DEF Octets
<1>8. Left(e, n) = e[n + 1] \o Left(e, n + 1)
  <2> HIDE DEF e
  <2>1. n + 1 \in 1..Len(e)
    BY <1>2, <1>5
  <2>2. Left(e, (n + 1) - 1) = e[n + 1] \o Left(e, n + 1)
    BY <1>2, <1>7, <2>1, LeftStep
  <2> QED BY <1>5, <2>2
<1>9. e[n + 1] = FlattenSeq(c)
  BY <1>2, <1>5
<1>10. Left(c, 0) = FlattenSeq(c)
  <2> HIDE DEF c
  <2> QED BY <1>6, <1>7, LeftStep
<1>11. SubSeq(c, 1, 0) = << >>
  <2> HIDE DEF c
  <2>1. 0 \in 0..Len(c)
    BY <1>6
  <2>2. SubSeq(c, 1, 0) \in Seq(Octets) /\ Len(SubSeq(c, 1, 0)) = 0
    BY <1>6, <2>1, FirstParts
  <2> QED BY <2>2, EmptySeq
<1> DEFINE p == r.part
           u == r.used
<1>12. Len(p) = 0 /\ Len(p) <= u /\ u - Len(p) + 1 = u + 1
  <2>1. Len(p) = 0 /\ u \in Nat
    BY <1>1, <1>4, EmptySeq
  <2> HIDE DEF p, u
  <2> QED BY <2>1
<1>13. From(Whole(s, h), u - Len(p) + 1) = Left(c, 0) \o Left(e, n + 1)
  <2> HIDE DEF e, c, p
  <2> QED BY <1>4, <1>8, <1>9, <1>10, <1>12
<1>14. 0 \in 0..(Len(c) - 1)
  <2> HIDE DEF c
  <2> QED BY <1>6
<1> HIDE DEF e, c
<1> QED BY <1>4, <1>11, <1>12, <1>13, <1>14 DEF Within, n, e, c

\* The reader r after one read, of what the plan says.
AfterRead(r, b, plan) ==
    LET need == NeedFor(plan, r.part)
        got == r.part \o SubSeq(b, r.used + 1, r.used + need)
        begins == plan.what = "int" /\ r.part = << >> /\ VarintByteLength(got[1]) # 1
    IN [state |-> r.state, used |-> r.used + need,
        parts |-> IF begins THEN r.parts ELSE Append(r.parts, got),
        part |-> IF begins THEN got ELSE << >>, out |-> r.out]

\* The reader is within the next item, of which there are bytes for one read.
CanStep(s, h, r, k, b, j, plan) ==
    LET n == Len(r.out)
        c == Parts(s, h, n + 1)
    IN /\ r \in ReadersOf(s) /\ n < Writable(s) /\ k \in 0..Writable(s)
       /\ b = FlattenSeq(SubSeq(Encs(s, h), 1, k))
       /\ j \in 0..(Len(c) - 1) /\ Within(s, h, r, j) /\ PlanFits(plan, c, j)
       /\ r.used + NeedFor(plan, r.part) <= Len(b)

\* After one read it has the first byte of the part, or the part, or the item.
StepGives(s, h, r, q, j, need) ==
    LET n == Len(r.out)
        c == Parts(s, h, n + 1)
    IN /\ q \in ReadersOf(s) /\ Len(q.part) <= 1 /\ q.used = r.used + need
       /\ q.out = r.out /\ q.state = r.state
       /\ q.part # << >> => VarintByteLength(q.part[1]) # 0 /\ Within(s, h, q, j)
       /\ q.part = << >> => q.parts = SubSeq(c, 1, j + 1)
       /\ q.part = << >> /\ j + 1 < Len(c) => Within(s, h, q, j + 1)
       /\ q.part = << >> /\ j + 1 = Len(c) =>
            q.parts = c /\ From(Whole(s, h), q.used + 1) = Left(Encs(s, h), n + 1)

\* So it has.
LEMMA WithinStep ==
    ASSUME NEW s \in Streams, Proper(s), NEW h \in DOMAIN s.readers, NEW r, NEW k, NEW b,
           NEW j, NEW plan, CanStep(s, h, r, k, b, j, plan)
    PROVE  StepGives(s, h, r, AfterRead(r, b, plan), j, NeedFor(plan, r.part))
<1> DEFINE n == Len(r.out)
           w == Writable(s)
           enc == Encs(s, h)
           c == Parts(s, h, n + 1)
           l == Len(c)
           e == c[j + 1]
           y == Left(enc, k)
           tail == Left(enc, n + 1)
           z == Left(c, j + 1) \o tail
           u == r.used
           p == r.part
           need == NeedFor(plan, p)
           got == p \o SubSeq(b, u + 1, u + need)
           begins == plan.what = "int" /\ p = << >> /\ VarintByteLength(got[1]) # 1
           q == AfterRead(r, b, plan)
<1>25. /\ r \in ReadersOf(s) /\ Len(r.out) < Writable(s) /\ k \in 0..Writable(s)
       /\ b = FlattenSeq(SubSeq(Encs(s, h), 1, k))
       /\ j \in 0..(Len(Parts(s, h, Len(r.out) + 1)) - 1) /\ Within(s, h, r, j)
       /\ PlanFits(plan, Parts(s, h, Len(r.out) + 1), j)
       /\ r.used + NeedFor(plan, r.part) <= Len(b)
  BY DEF CanStep
<1>1. /\ n \in Nat /\ u \in Nat /\ p \in Octets /\ r.parts \in Seq(Octets)
      /\ r.out \in Seq(GotsOf(s)) /\ r.state \in {"reading", "end", "error"}
  BY <1>25, LenProperties DEF ReadersOf
<1>2. /\ w \in Nat /\ enc \in Seq(Octets) /\ Len(enc) = w /\ Whole(s, h) = FlattenSeq(enc)
  BY EncsTyped DEF Whole
<1>3. n < w /\ k \in 0..w /\ j \in 0..(l - 1) /\ u + need <= Len(b)
  BY <1>25
<1>4. b = FlattenSeq(SubSeq(enc, 1, k))
  BY <1>25
<1>5. /\ r.parts = SubSeq(c, 1, j) /\ Len(p) <= u
      /\ p = << >> \/ (p = <<e[1]>> /\ Len(e) > 1 /\ IsIntPart(e))
      /\ From(Whole(s, h), u - Len(p) + 1) = Left(c, j) \o tail
  BY <1>25 DEF Within
<1>6. /\ q.state = r.state /\ q.used = u + need /\ q.out = r.out
      /\ q.parts = (IF begins THEN r.parts ELSE Append(r.parts, got))
      /\ q.part = (IF begins THEN got ELSE << >>)
      /\ DOMAIN q = {"state", "used", "parts", "part", "out"}
      /\ q = [state |-> q.state, used |-> q.used, parts |-> q.parts, part |-> q.part, out |-> q.out]
  BY DEF AfterRead
<1>7. PlanFits(plan, c, j)
  BY <1>25
<1> HIDE DEF n, w, enc
<1>8. n + 1 \in 1..w
  BY <1>1, <1>2, <1>3
<1>9. c \in Seq(Octets) /\ l \in Nat \ {0}
  BY <1>8, PartsTyped DEF w
<1> HIDE DEF c
<1>10. j + 1 \in 1..l /\ j + 1 \in 0..l /\ j \in 0..l /\ j # l /\ (j + 1) - 1 = j /\ j \in Nat
  <2> HIDE DEF l
  <2> QED BY <1>3, <1>9
<1>11. Octets = Seq(Byte)
  BY DEF Octets
<1>12. Left(c, j) = e \o Left(c, j + 1) /\ Left(c, j + 1) \in Octets /\ Left(c, l) = << >>
  <2>1. Left(c, (j + 1) - 1) = e \o Left(c, j + 1)
    BY <1>9, <1>10, <1>11, LeftStep
  <2>2. Left(c, j + 1) \in Octets /\ Left(c, l) = << >>
    BY <1>9, <1>10, <1>11, LeftStep
  <2> QED BY <1>10, <2>1, <2>2
<1>13. e \in Octets
  BY <1>9, <1>10, ElementOfSeq
<1>14. /\ b \in Octets /\ y \in Octets /\ Whole(s, h) = b \o y
  <2>1. k \in 0..Len(enc)
    BY <1>2, <1>3
  <2> QED BY <1>2, <1>4, <2>1, FirstAndLeft
<1>15. tail \in Octets
  <2>1. n + 1 \in 0..Len(enc)
    BY <1>2, <1>8
  <2> QED BY <1>2, <1>11, <2>1, LeftStep
<1> HIDE DEF e, tail, y
<1>16. z \in Octets /\ Left(c, j) \o tail = e \o z
  <2> DEFINE f == Left(c, j + 1)
  <2>1. f \in Octets /\ z = f \o tail /\ Left(c, j) = e \o f
    BY <1>12 DEF z
  <2> HIDE DEF f, z
  <2>2. (e \o f) \o tail = e \o (f \o tail) /\ f \o tail \in Octets
    BY <1>13, <1>15, <2>1, OctetFacts, Zenon
  <2> QED BY <2>1, <2>2
<1>17. ReadsPart(plan, p, e)
  BY <1>5, <1>7, <1>10 DEF PlanFits, ReadsPart, e
<1> HIDE DEF z, p, u
<1>18. From(b \o y, u - Len(p) + 1) = e \o z
  BY <1>5, <1>14, <1>16
<1>19. need \in Nat
  BY <1>1, <1>13, <1>17, NeedIsLeft
<1>20. /\ got \in Octets
       /\ begins => got = <<e[1]>> /\ Len(e) > 1 /\ IsIntPart(e) /\ need = 1 /\ p = << >>
       /\ ~begins => got = e /\ From(b \o y, u + need + 1) = z
  <2>1. /\ PartIsNext(b, y, u, p, e, z) /\ ReadsPart(plan, p, e)
        /\ u + NeedFor(plan, p) <= Len(b)
    BY <1>3, <1>5, <1>17, <1>18 DEF PartIsNext
  <2>2. /\ e \in Octets /\ z \in Octets /\ b \in Octets /\ y \in Octets
        /\ u \in Nat /\ p \in Octets
    BY <1>1, <1>13, <1>14, <1>16
  <2>3. ReadFinds(b, y, u, p, plan, e, z)
    BY <2>1, <2>2, OneRead, Zenon
  <2> QED BY <2>3 DEF ReadFinds
<1> HIDE DEF need, got, begins, q
<1>21. u + need \in Nat
  BY <1>1, <1>19
<1>22. ASSUME begins
       PROVE  /\ q \in ReadersOf(s) /\ Len(q.part) <= 1
              /\ q.part # << >> => VarintByteLength(q.part[1]) # 0 /\ Within(s, h, q, j)
              /\ q.part = << >> => q.parts = SubSeq(c, 1, j + 1)
              /\ q.part = << >> /\ j + 1 < l => Within(s, h, q, j + 1)
              /\ q.part = << >> /\ j + 1 = l =>
                   q.parts = c /\ From(Whole(s, h), q.used + 1) = tail
  <2>1. /\ q.part = got /\ q.parts = r.parts /\ got = <<e[1]>> /\ Len(e) > 1 /\ IsIntPart(e)
        /\ need = 1 /\ p = << >> /\ got \in Octets
    BY <1>6, <1>20, <1>22
  <2>2. Len(got) = 1 /\ got[1] = e[1] /\ got # << >>
    <3>1. Len(<<e[1]>>) = 1 /\ <<e[1]>>[1] = e[1] /\ <<e[1]>> # << >>
      OBVIOUS
    <3> QED BY <2>1, <3>1
  <2>3. VarintByteLength(q.part[1]) # 0
    <3>1. VarintByteLength(e[1]) = Len(e)
      BY <2>1 DEF IsIntPart
    <3> DEFINE m == Len(e)
    <3>2. m > 1
      BY <2>1
    <3> HIDE DEF m
    <3>3. m # 0
      BY <3>2
    <3> QED BY <2>1, <2>2, <3>1, <3>3 DEF m
  <2>4. q \in ReadersOf(s)
    BY <1>1, <1>6, <1>21, <2>1 DEF ReadersOf
  <2>5. Within(s, h, q, j)
    <3>1. Len(p) = 0
      BY <2>1, EmptySeq
    <3>2. u - Len(p) + 1 = u + 1 /\ q.used - Len(q.part) + 1 = u + 1 /\ Len(q.part) <= q.used
      BY <1>1, <1>6, <2>1, <2>2, <3>1
    <3>3. From(Whole(s, h), q.used - Len(q.part) + 1) = Left(c, j) \o tail
      BY <1>5, <3>2
    <3>4. q.parts = SubSeq(c, 1, j) /\ q.part = <<e[1]>> /\ Len(q.out) = n
      BY <1>5, <1>6, <2>1 DEF n
    <3> QED BY <2>1, <3>2, <3>3, <3>4 DEF Within, c, e, tail, enc
  <2>6. q.part # << >> /\ Len(q.part) <= 1
    BY <2>1, <2>2
  <2> QED BY <2>3, <2>4, <2>5, <2>6
<1>23. ASSUME ~begins
       PROVE  /\ q \in ReadersOf(s) /\ Len(q.part) <= 1
              /\ q.part # << >> => VarintByteLength(q.part[1]) # 0 /\ Within(s, h, q, j)
              /\ q.part = << >> => q.parts = SubSeq(c, 1, j + 1)
              /\ q.part = << >> /\ j + 1 < l => Within(s, h, q, j + 1)
              /\ q.part = << >> /\ j + 1 = l =>
                   q.parts = c /\ From(Whole(s, h), q.used + 1) = tail
  <2>1. /\ q.part = << >> /\ q.parts = Append(r.parts, got) /\ got = e
        /\ From(b \o y, u + need + 1) = z
    BY <1>6, <1>20, <1>23
  <2>2. Len(q.part) = 0 /\ q.part \in Octets
    BY <2>1, EmptySeq, OctetFacts
  <2>3. q.parts = SubSeq(c, 1, j + 1)
    <3> DEFINE a == SubSeq(c, 1, j)
               d == SubSeq(c, 1, j + 1)
    <3>1. a \in Seq(Octets) /\ Len(a) = j /\ \A i \in 1..j : a[i] = c[i]
      BY <1>9, <1>10, FirstParts
    <3>2. d \in Seq(Octets) /\ Len(d) = j + 1 /\ \A i \in 1..(j + 1) : d[i] = c[i]
      BY <1>9, <1>10, FirstParts
    <3> DEFINE f == Append(a, e)
    <3> HIDE DEF a, d
    <3>3. /\ f \in Seq(Octets) /\ Len(f) = j + 1
          /\ \A i \in 1..j : f[i] = a[i]
          /\ f[j + 1] = e
      BY <1>13, <3>1, OnePartMore
    <3>4. ASSUME NEW i \in 1..(j + 1) PROVE f[i] = d[i]
      <4> HIDE DEF f
      <4>1. CASE i = j + 1
        BY <3>2, <3>3, <4>1 DEF e
      <4>2. CASE i # j + 1
        <5>1. i \in 1..j
          BY <1>10, <4>2
        <5> QED BY <3>1, <3>2, <3>3, <5>1
      <4> QED BY <4>1, <4>2
    <3>5. f = d
      <4> HIDE DEF f
      <4> QED BY <3>2, <3>3, <3>4, SeqEqual
    <3> QED BY <1>5, <2>1, <3>5 DEF a, d
  <2>4. q \in ReadersOf(s)
    <3>1. q.parts \in Seq(Octets)
      BY <1>9, <1>10, <2>3, FirstParts
    <3> QED BY <1>1, <1>6, <1>21, <2>2, <3>1 DEF ReadersOf
  <2>5. q.used - Len(q.part) + 1 = q.used + 1 /\ Len(q.part) <= q.used /\ Len(q.part) <= 1
    BY <1>6, <1>21, <2>2
  <2>6. From(Whole(s, h), q.used + 1) = z
    BY <1>6, <1>14, <2>1
  <2>7. j + 1 < l => Within(s, h, q, j + 1)
    <3>1. From(Whole(s, h), q.used - Len(q.part) + 1) = Left(c, j + 1) \o tail
      BY <2>5, <2>6 DEF z
    <3>2. Len(q.out) = n
      BY <1>6 DEF n
    <3> QED BY <2>1, <2>3, <2>5, <3>1, <3>2 DEF Within, c, tail, enc
  <2>8. j + 1 = l => q.parts = c /\ From(Whole(s, h), q.used + 1) = tail
    <3>1. SubSeq(c, 1, l) = c
      BY <1>9, SubSeqFull
    <3>2. j + 1 = l => z = tail
      BY <1>12, <1>15, OctetFacts DEF z
    <3> QED BY <2>3, <2>6, <3>1, <3>2
  <2> QED BY <2>1, <2>3, <2>4, <2>5, <2>7, <2>8
<1>24. q.used = u + need /\ q.out = r.out /\ q.state = r.state
  BY <1>6
<1> QED BY <1>22, <1>23, <1>24 DEF StepGives, q, l, c, n, tail, enc, need, u, p

----------------------------------------------------------------------------
(* What holds of each stream *)

\* A reader that goes on is between two items, or within one that is written, and
\* of a request stream there is one more.
Reads(s, h, r) ==
    /\ \/ Between(s, h, r)
       \/ /\ Len(r.out) < Writable(s)
          /\ \E j \in 0..(Len(Parts(s, h, Len(r.out) + 1)) - 1) : Within(s, h, r, j)
    /\ s.kind = "request" => Len(r.out) < Len(s.items)

\* Stream h carries the first k items, and its reader has read the first of these.
HopInv(s, h, w, r, k) ==
    /\ w \in Wires /\ r \in ReadersOf(s) /\ Len(r.part) <= 1
    /\ k \in 0..Writable(s) /\ Len(r.out) <= k
    /\ w.bytes = FlattenSeq(SubSeq(Encs(s, h), 1, k))
    /\ r.used <= w.arrived /\ w.arrived <= Len(w.bytes)
    /\ \A i \in 1..Len(r.out) : r.out[i] = Got(s, h, i)
    /\ r.state = "reading" => Reads(s, h, r)

\* One read, in the words of the proof.
LEMMA WithBytesIs ==
    ASSUME NEW h, Native(h), reader[h] \in ReadersOf(stream)
    PROVE  /\ Need(h) = NeedFor(Plan(h, reader[h].parts), reader[h].part)
           /\ WithBytes(h, reader[h], Need(h)) =
                AfterRead(reader[h], wire[h].bytes, Plan(h, reader[h].parts))
<1> DEFINE r == reader[h]
           plan == Plan(h, r.parts)
           n == Need(h)
           got == r.part \o SubSeq(wire[h].bytes, r.used + 1, r.used + n)
           begins == plan.what = "int" /\ r.part = << >> /\ VarintByteLength(got[1]) # 1
<1>1. n = NeedFor(plan, r.part)
  BY DEF Need, NeedFor, ByteLength
<1>2. \A x : ByteLength(h, x) = VarintByteLength(x)
  BY DEF ByteLength
<1> HIDE DEF n
<1>3. WithBytes(h, r, n) =
        [r EXCEPT !.used = @ + n, !.part = IF begins THEN got ELSE << >>,
                  !.parts = IF begins THEN @ ELSE Append(@, got)]
  BY <1>2 DEF WithBytes
<1>4. AfterRead(r, wire[h].bytes, plan) =
        [state |-> r.state, used |-> r.used + n, parts |-> IF begins THEN r.parts ELSE Append(r.parts, got),
         part |-> IF begins THEN got ELSE << >>, out |-> r.out]
  BY <1>1 DEF AfterRead
<1>5. r \in ReadersOf(stream)
  OBVIOUS
<1> HIDE DEF got, begins, plan, r
<1>6. WithBytes(h, r, n) = AfterRead(r, wire[h].bytes, plan)
  BY <1>3, <1>4, <1>5 DEF ReadersOf
<1> QED BY <1>1, <1>6 DEF n, plan, r

\* The whole stream is what it carries and the items that are left.
LEMMA BytesOfHop ==
    ASSUME NEW s \in Streams, Proper(s), NEW h \in DOMAIN s.readers, NEW w, NEW r, NEW k,
           HopInv(s, h, w, r, k)
    PROVE  /\ w.bytes \in Octets /\ Left(Encs(s, h), k) \in Octets
           /\ Whole(s, h) = w.bytes \o Left(Encs(s, h), k) /\ Whole(s, h) \in Octets
           /\ k = Writable(s) => w.bytes = Whole(s, h)
           /\ Len(r.out) \in Nat /\ r.used \in Nat /\ w.arrived \in Nat /\ Len(w.bytes) \in Nat
<1> DEFINE enc == Encs(s, h)
<1>1. enc \in Seq(Octets) /\ Len(enc) = Writable(s) /\ Whole(s, h) = FlattenSeq(enc) /\ Writable(s) \in Nat
  BY EncsTyped DEF Whole
<1>2. k \in 0..Writable(s) /\ w.bytes = FlattenSeq(SubSeq(enc, 1, k)) /\ w \in Wires /\ r \in ReadersOf(s)
  BY DEF HopInv
<1> HIDE DEF enc
<1>3. w.bytes \in Octets /\ Left(enc, k) \in Octets /\ Whole(s, h) = w.bytes \o Left(enc, k)
  BY <1>1, <1>2, FirstAndLeft
<1>4. k = Writable(s) => w.bytes = Whole(s, h)
  BY <1>1, <1>2, SubSeqFull
<1>5. Whole(s, h) \in Octets
  BY EncsTyped
<1>6. Len(r.out) \in Nat /\ r.used \in Nat /\ w.arrived \in Nat
  BY <1>2, LenProperties DEF Wires, ReadersOf
<1>7. Len(w.bytes) \in Nat
  BY <1>3, OctetFacts
<1> QED BY <1>3, <1>4, <1>5, <1>6, <1>7 DEF enc

\* A reader at the end of all that is written has nothing left.
LEMMA EndHasNothing ==
    ASSUME NEW s \in Streams, Proper(s), NEW h \in DOMAIN s.readers, NEW w, NEW r, NEW k,
           HopInv(s, h, w, r, k), Between(s, h, r), ~(Len(r.out) < Writable(s))
    PROVE  /\ k = Writable(s) /\ Len(r.out) = Writable(s)
           /\ r.used = w.arrived /\ w.arrived = Len(w.bytes)
<1> DEFINE n == Len(r.out)
           m == Writable(s)
           enc == Encs(s, h)
           all == Whole(s, h)
           u == r.used
<1>1. /\ m \in Nat /\ n \in Nat /\ u \in Nat /\ w.arrived \in Nat /\ all \in Octets
      /\ enc \in Seq(Octets) /\ Len(enc) = m
  BY EncsTyped, BytesOfHop
<1>2. k \in 0..m /\ n <= k /\ u <= w.arrived /\ w.arrived <= Len(w.bytes)
  BY DEF HopInv
<1>3. From(all, u + 1) = Left(enc, n) /\ ~(n < m)
  BY DEF Between
<1> HIDE DEF n, m, enc
<1>4. k = m /\ n = m
  BY <1>1, <1>2, <1>3
<1>5. w.bytes = all
  BY <1>4, BytesOfHop DEF m
<1>6. Left(enc, n) = << >>
  <2>1. Octets = Seq(Byte)
    BY DEF Octets
  <2> QED BY <1>1, <1>4, <2>1, LeftStep
<1> HIDE DEF all, u
<1> DEFINE l == Len(all)
<1>7. l \in Nat /\ u <= w.arrived /\ w.arrived <= l
  BY <1>1, <1>2, <1>5, OctetFacts
<1>8. l - u = 0
  <2>1. u \in 0..Len(all)
    BY <1>1, <1>7
  <2>2. Len(From(all, u + 1)) = l - u
    BY <1>1, <2>1, FromBytes
  <2>3. Len(From(all, u + 1)) = 0
    BY <1>3, <1>6, EmptySeq
  <2> QED BY <2>2, <2>3
<1>9. u = w.arrived /\ w.arrived = l
  <2> HIDE DEF l
  <2> QED BY <1>1, <1>7, <1>8
<1> QED BY <1>4, <1>5, <1>9 DEF n, m, u

\* One that can read is within an item.
LEMMA ReaderIsWithin ==
    ASSUME stream \in Streams, Proper(stream), NEW h \in Hops, NEW k,
           HopInv(stream, h, wire[h], reader[h], k), CanRead(h)
    PROVE  /\ Len(reader[h].out) < Writable(stream)
           /\ \E j \in 0..(Len(Parts(stream, h, Len(reader[h].out) + 1)) - 1) :
                Within(stream, h, reader[h], j)
<1> DEFINE r == reader[h]
           w == wire[h]
           n == Len(r.out)
<1>1. h \in DOMAIN stream.readers /\ Native(h)
  BY ProperHops DEF Hops
<1>2. r.state = "reading" /\ r.used + Need(h) <= w.arrived
  BY DEF CanRead
<1>3. Reads(stream, h, r) /\ r \in ReadersOf(stream)
  BY <1>2 DEF HopInv
<1>4. CASE Between(stream, h, r)
  <2>1. n < Writable(stream)
    <3> SUFFICES ASSUME ~(n < Writable(stream)) PROVE FALSE
      OBVIOUS
    <3>1. r.used = w.arrived /\ r.used \in Nat
      BY <1>1, <1>4, EndHasNothing, BytesOfHop
    <3>2. Need(h) = 1
      <4>1. r.parts = << >> /\ r.part = << >> /\ Plan(h, << >>) = AnInt
        BY <1>4, FirstPlan DEF Between
      <4> QED BY <1>1, <1>3, <4>1, WithBytesIs DEF NeedFor, AnInt
    <3> DEFINE u == r.used
    <3>3. u + 1 <= u
      BY <1>2, <3>1, <3>2
    <3>4. u \in Nat
      BY <3>1
    <3> HIDE DEF u
    <3> QED BY <3>3, <3>4
  <2>2. Within(stream, h, r, 0) /\ 0 \in 0..(Len(Parts(stream, h, n + 1)) - 1)
    BY <1>1, <1>3, <1>4, <2>1, BetweenIsWithin
  <2> QED BY <2>1, <2>2
<1>5. CASE ~Between(stream, h, r)
  BY <1>3, <1>5 DEF Reads
<1> QED BY <1>4, <1>5

\* A read, of a stream that carries k items, gives a part of one of them, or all.
LEMMA MoreIsRead ==
    ASSUME stream \in Streams, Proper(stream), NEW h \in Hops, NEW k,
           HopInv(stream, h, wire[h], reader[h], k), CanRead(h)
    PROVE  LET r == WithBytes(h, reader[h], Need(h))
               n == Len(reader[h].out)
               c == Parts(stream, h, n + 1)
           IN /\ ~IsNoInt(h, r)
              /\ ~IsComplete(h, r) => HopInv(stream, h, wire[h], r, k)
              /\ IsComplete(h, r) =>
                   /\ n < k /\ At(h, n + 1) /\ r.parts = c
                   /\ r.used \in Nat /\ r.used <= wire[h].arrived
                   /\ From(Whole(stream, h), r.used + 1) = Left(Encs(stream, h), n + 1)
                   /\ r.out = reader[h].out /\ r \in ReadersOf(stream)
<1> DEFINE s == stream
           o == reader[h]
           w == wire[h]
           n == Len(o.out)
           c == Parts(s, h, n + 1)
           l == Len(c)
           plan == Plan(h, o.parts)
           need == NeedFor(plan, o.part)
           r == AfterRead(o, w.bytes, plan)
           m == Writable(s)
           enc == Encs(s, h)
<1>1. h \in DOMAIN s.readers /\ Native(h) /\ o \in ReadersOf(s) /\ o.state = "reading"
      /\ o.used + Need(h) <= w.arrived
  BY ProperHops DEF Hops, HopInv, CanRead
<1>2. WithBytes(h, o, Need(h)) = r /\ Need(h) = need
  BY <1>1, WithBytesIs
<1>3. /\ w.bytes \in Octets /\ Left(enc, k) \in Octets /\ Whole(s, h) = w.bytes \o Left(enc, k)
      /\ Whole(s, h) \in Octets /\ n \in Nat /\ o.used \in Nat /\ w.arrived \in Nat
      /\ Len(w.bytes) \in Nat
  <2>1. s \in Streams /\ Proper(s) /\ HopInv(s, h, w, o, k)
    OBVIOUS
  <2> HIDE DEF s, o, w
  <2> QED BY <1>1, <2>1, BytesOfHop DEF n
<1>4. /\ k \in 0..m /\ n <= k /\ w.bytes = FlattenSeq(SubSeq(enc, 1, k))
      /\ w.arrived <= Len(w.bytes)
      /\ \A i \in 1..n : o.out[i] = Got(s, h, i)
      /\ Reads(s, h, o)
  BY <1>1 DEF HopInv
<1>5. n < m
  BY ReaderIsWithin
<1>6. PICK j \in 0..(l - 1) : Within(s, h, o, j)
  BY ReaderIsWithin
<1>7. m \in Nat /\ n + 1 \in 1..m
  <2>1. m \in Nat
    BY <1>1, EncsTyped
  <2> HIDE DEF m, n
  <2> QED BY <1>3, <1>5, <2>1
<1>8. At(h, n + 1)
  <2>1. (n + 1) - 1 = n
    BY <1>3
  <2>2. o.out \in Seq(GotsOf(s))
    BY <1>1 DEF ReadersOf
  <2> QED BY <1>4, <2>1, <2>2 DEF At
<1>9. c \in Seq(Octets) /\ l \in Nat \ {0}
  BY <1>1, <1>7, PartsTyped
<1>10. \A i \in 0..l : PlanFits(Plan(h, SubSeq(c, 1, i)), c, i)
  BY <1>7, <1>8, ItemIsRead
<1>11. o.parts = SubSeq(c, 1, j)
  BY <1>6 DEF Within
<1>12. j \in 0..l /\ j + 1 \in 0..l /\ j \in Nat /\ (j + 1 < l \/ j + 1 = l)
  <2> HIDE DEF l
  <2> QED BY <1>6, <1>9
<1>13. PlanFits(plan, c, j)
  BY <1>10, <1>11, <1>12
<1>14. o.used + need <= w.arrived /\ o.used + need <= Len(w.bytes) /\ need \in Nat
  <2>1. o.used + need <= w.arrived
    BY <1>1, <1>2
  <2>2. need \in Nat
    <3> DEFINE e == c[j + 1]
    <3>1. e \in Octets
      <4>1. j + 1 \in 1..Len(c)
        BY <1>12
      <4> QED BY <1>9, <4>1, ElementOfSeq
    <3>2. ReadsPart(plan, o.part, e)
      <4>1. j # l
        BY <1>6, <1>9
      <4> QED BY <1>6, <1>13, <4>1 DEF Within, PlanFits, ReadsPart
    <3>3. o.part \in Octets
      BY <1>1 DEF ReadersOf
    <3> HIDE DEF e
    <3> QED BY <3>1, <3>2, <3>3, NeedIsLeft
  <2> HIDE DEF need
  <2> QED BY <1>3, <1>4, <2>1, <2>2
<1>15. /\ r \in ReadersOf(s) /\ Len(r.part) <= 1 /\ r.used = o.used + need
       /\ r.out = o.out /\ r.state = o.state
       /\ r.part # << >> => VarintByteLength(r.part[1]) # 0 /\ Within(s, h, r, j)
       /\ r.part = << >> => r.parts = SubSeq(c, 1, j + 1)
       /\ r.part = << >> /\ j + 1 < l => Within(s, h, r, j + 1)
       /\ r.part = << >> /\ j + 1 = l =>
            r.parts = c /\ From(Whole(s, h), r.used + 1) = Left(enc, n + 1)
  <2>1. CanStep(s, h, o, k, w.bytes, j, plan)
    BY <1>1, <1>4, <1>5, <1>6, <1>13, <1>14 DEF CanStep
  <2>2. StepGives(s, h, o, r, j, need)
    BY <1>1, <2>1, WithinStep
  <2> HIDE DEF s, o, r, need
  <2> QED BY <2>2 DEF StepGives
<1> HIDE DEF r, need, c, l
<1>16. ~IsNoInt(h, r)
  BY <1>1, <1>15 DEF IsNoInt, ByteLength
<1>17. IsComplete(h, r) <=> r.part = << >> /\ j + 1 = l
  <2>1. CASE r.part = << >>
    <3>1. PlanFits(Plan(h, r.parts), c, j + 1)
      BY <1>10, <1>12, <1>15, <2>1
    <3>2. Plan(h, r.parts) = Nothing <=> j + 1 = l
      BY <3>1 DEF PlanFits, Nothing, AnInt, Bytes, l
    <3> QED BY <2>1, <3>2 DEF IsComplete
  <2>2. CASE r.part # << >>
    BY <2>2 DEF IsComplete
  <2> QED BY <2>1, <2>2
<1>18. r.used <= w.arrived /\ r.used \in Nat
  BY <1>3, <1>14, <1>15
<1>19. ASSUME ~IsComplete(h, r) PROVE HopInv(s, h, w, r, k)
  <2>1. \E i \in 0..(l - 1) : Within(s, h, r, i)
    <3>1. CASE r.part # << >>
      BY <1>6, <1>15, <3>1
    <3>2. CASE r.part = << >>
      <4>1. j + 1 < l
        BY <1>12, <1>17, <1>19, <3>2
      <4>2. j + 1 \in 0..(l - 1)
        BY <1>9, <1>12, <4>1
      <4> QED BY <1>15, <3>2, <4>1, <4>2
    <3> QED BY <3>1, <3>2
  <2>2. Reads(s, h, r)
    <3>1. Len(r.out) = n
      BY <1>15
    <3>2. s.kind = "request" => n < Len(s.items)
      BY <1>4 DEF Reads
    <3>3. Len(r.out) < Writable(s)
      BY <1>5, <3>1
    <3> QED BY <2>1, <3>1, <3>2, <3>3 DEF Reads, l, c
  <2>3. w \in Wires /\ w.bytes = FlattenSeq(SubSeq(Encs(s, h), 1, k)) /\ k \in 0..Writable(s)
        /\ w.arrived <= Len(w.bytes) /\ Len(o.out) <= k /\ \A i \in 1..Len(o.out) : o.out[i] = Got(s, h, i)
    BY DEF HopInv
  <2> QED BY <1>15, <1>18, <2>2, <2>3 DEF HopInv
<1>20. ASSUME IsComplete(h, r) PROVE n < k
  <2>1. From(Whole(s, h), r.used + 1) = Left(enc, n + 1)
    BY <1>15, <1>17, <1>20
  <2> SUFFICES ASSUME ~(n < k) PROVE FALSE
    OBVIOUS
  <2>2. k < n + 1 /\ k \in 0..m /\ n + 1 \in 0..m
    <3> HIDE DEF n, m
    <3> QED BY <1>3, <1>4, <1>7
  <2>3. enc \in Seq(Octets) /\ Len(enc) = m /\ \A i \in 1..Len(enc) : enc[i] # << >>
    BY <1>1, EncsTyped
  <2> HIDE DEF enc, n, m
  <2>4. Len(Left(enc, n + 1)) \in Nat /\ Len(Left(enc, n + 1)) < Len(Left(enc, k))
    BY <2>2, <2>3, LeftShrinks
  <2> DEFINE all == Whole(s, h)
             a == Len(all)
             b == Len(w.bytes)
             y == Len(Left(enc, k))
             x == Len(Left(enc, n + 1))
             u == r.used
  <2>5. a = b + y /\ a \in Nat /\ b \in Nat /\ y \in Nat
    BY <1>3, OctetFacts
  <2>6. u <= b /\ u \in Nat
    BY <1>3, <1>4, <1>18
  <2> HIDE DEF a, b, u
  <2>7. u \in 0..a
    BY <2>5, <2>6
  <2>8. x = a - u
    <3>1. all \in Octets /\ u \in 0..Len(all)
      BY <1>3, <2>7 DEF a
    <3> HIDE DEF all
    <3>2. Len(From(all, u + 1)) = Len(all) - u
      BY <3>1, FromBytes
    <3> QED BY <2>1, <3>2 DEF all, a, u
  <2>9. x < y
    BY <2>4
  <2> HIDE DEF x, y
  <2> QED BY <2>5, <2>6, <2>8, <2>9
<1> HIDE DEF n
<1> QED BY <1>2, <1>8, <1>15, <1>16, <1>17, <1>18, <1>19, <1>20 DEF n, c, l, enc

\* A stream that gets the next item carries one more.
LEMMA OneMore ==
    ASSUME NEW s \in Streams, Proper(s), NEW h \in DOMAIN s.readers, NEW w, NEW r, NEW k,
           HopInv(s, h, w, r, k), k < Writable(s),
           NEW v \in Wires, v.bytes = w.bytes \o FlattenSeq(Parts(s, h, k + 1)),
           v.arrived = w.arrived
    PROVE  HopInv(s, h, v, r, k + 1)
<1> DEFINE enc == Encs(s, h)
           m == Writable(s)
           n == Len(r.out)
           a == SubSeq(enc, 1, k)
           d == SubSeq(enc, 1, k + 1)
           x == enc[k + 1]
<1>1. /\ m \in Nat /\ enc \in Seq(Octets) /\ Len(enc) = m
      /\ \A i \in 1..m : enc[i] = FlattenSeq(Parts(s, h, i))
  BY EncsTyped
<1>2. /\ w.bytes \in Octets /\ n \in Nat /\ r.used \in Nat /\ w.arrived \in Nat /\ Len(w.bytes) \in Nat
  BY BytesOfHop
<1>3. /\ k \in 0..m /\ n <= k /\ w.bytes = FlattenSeq(a) /\ w.arrived <= Len(w.bytes)
  BY DEF HopInv
<1>4. k < m
  OBVIOUS
<1> HIDE DEF enc, m, n
<1>5. k + 1 \in 1..m /\ k + 1 \in 0..m /\ k \in Nat /\ n <= k + 1
  BY <1>1, <1>2, <1>3, <1>4
<1>6. x \in Octets /\ x = FlattenSeq(Parts(s, h, k + 1))
  <2>1. x \in Octets
    BY <1>1, <1>5, ElementOfSeq
  <2> QED BY <1>1, <1>5, <2>1
<1>7. d = Append(a, x)
  <2>1. a \in Seq(Octets) /\ Len(a) = k /\ \A i \in 1..k : a[i] = enc[i]
    BY <1>1, <1>3, FirstParts
  <2>2. d \in Seq(Octets) /\ Len(d) = k + 1 /\ \A i \in 1..(k + 1) : d[i] = enc[i]
    BY <1>1, <1>5, FirstParts
  <2> DEFINE f == Append(a, x)
  <2> HIDE DEF a, d
  <2>3. f \in Seq(Octets) /\ Len(f) = k + 1 /\ (\A i \in 1..k : f[i] = a[i]) /\ f[k + 1] = x
    BY <1>6, <2>1, OnePartMore
  <2>4. ASSUME NEW i \in 1..(k + 1) PROVE f[i] = d[i]
    <3> HIDE DEF f
    <3>1. CASE i = k + 1
      BY <2>2, <2>3, <3>1
    <3>2. CASE i # k + 1
      <4>1. i \in 1..k
        BY <1>5, <3>2
      <4> QED BY <2>1, <2>2, <2>3, <4>1
    <3> QED BY <3>1, <3>2
  <2>5. f = d
    <3> HIDE DEF f
    <3> QED BY <2>2, <2>3, <2>4, SeqEqual
  <2> QED BY <2>5
<1>8. FlattenSeq(d) = FlattenSeq(a) \o x
  <2>1. a \in Seq(Octets)
    BY <1>1, <1>3, FirstParts
  <2>2. Octets = Seq(Byte)
    BY DEF Octets
  <2> HIDE DEF a, d, x
  <2> QED BY <1>6, <1>7, <2>1, <2>2, FlattenAppend
<1>9. v.bytes = FlattenSeq(d)
  BY <1>3, <1>6, <1>8
<1>10. Len(v.bytes) = Len(w.bytes) + Len(x) /\ Len(x) \in Nat
  <2> HIDE DEF x
  <2> QED BY <1>2, <1>6, OctetFacts
<1>11. v.arrived <= Len(v.bytes)
  BY <1>2, <1>3, <1>10
<1>12. /\ r \in ReadersOf(s) /\ Len(r.part) <= 1 /\ r.used <= w.arrived
       /\ \A i \in 1..n : r.out[i] = Got(s, h, i)
       /\ r.state = "reading" => Reads(s, h, r)
  BY DEF HopInv, n
<1> QED BY <1>5, <1>9, <1>11, <1>12 DEF HopInv, enc, m, n

\* More bytes arrive, or the stream ends.
LEMMA SameBytes ==
    ASSUME NEW s, NEW h, NEW w, NEW r, NEW k, HopInv(s, h, w, r, k),
           NEW v \in Wires, v.bytes = w.bytes, r.used <= v.arrived, v.arrived <= Len(v.bytes)
    PROVE  HopInv(s, h, v, r, k)
  BY DEF HopInv

\* A reader stops where it is.
LEMMA StopsThere ==
    ASSUME NEW s, NEW h, NEW w, NEW r, NEW k, HopInv(s, h, w, r, k), NEW x \in {"end", "error"},
           NEW q, q = [r EXCEPT !.state = x]
    PROVE  HopInv(s, h, w, q, k) /\ q.state = x /\ q.out = r.out /\ q \in ReadersOf(s)
<1>1. r \in ReadersOf(s)
  BY DEF HopInv
<1>2. /\ q.state = x /\ q.used = r.used /\ q.parts = r.parts /\ q.part = r.part /\ q.out = r.out
      /\ q \in ReadersOf(s)
  BY <1>1 DEF ReadersOf
<1>3. HopInv(s, h, w, q, k)
  BY <1>2 DEF HopInv
<1> QED BY <1>2, <1>3

\* The reader after item n + 1.
AfterItem(s, h, r, u) ==
    LET n == Len(r.out)
    IN [state |-> IF s.kind = "request" /\ n + 1 = Len(s.items) THEN "end" ELSE "reading",
        used |-> u, parts |-> << >>, part |-> << >>, out |-> Append(r.out, Got(s, h, n + 1))]

\* It is between this item and the next one.
LEMMA ItemDone ==
    ASSUME NEW s \in Streams, Proper(s), NEW h \in DOMAIN s.readers, NEW w, NEW r, NEW k,
           HopInv(s, h, w, r, k), Len(r.out) < k,
           NEW u \in Nat, u <= w.arrived,
           From(Whole(s, h), u + 1) = Left(Encs(s, h), Len(r.out) + 1)
    PROVE  LET q == AfterItem(s, h, r, u)
           IN /\ HopInv(s, h, w, q, k) /\ Len(q.out) = Len(r.out) + 1
              /\ q.state # "error" /\ (q.state = "end" => Len(q.out) = Len(s.items))
<1> DEFINE n == Len(r.out)
           m == Writable(s)
           i == n + 1
           x == Got(s, h, i)
           q == AfterItem(s, h, r, u)
           L == Len(s.items)
           out == Append(r.out, x)
<1>1. /\ n \in Nat /\ m \in Nat /\ L \in Nat /\ m \in 0..L /\ k \in 0..m /\ n < k
  <2>1. n \in Nat
    BY BytesOfHop
  <2>2. m \in Nat /\ L \in Nat /\ m \in 0..L
    BY EncsTyped, ItemCount, WritableFacts
  <2> QED BY <2>1, <2>2 DEF HopInv
<1>2. /\ r \in ReadersOf(s) /\ \A a \in 1..n : r.out[a] = Got(s, h, a)
      /\ w \in Wires /\ w.bytes = FlattenSeq(SubSeq(Encs(s, h), 1, k)) /\ w.arrived <= Len(w.bytes)
  BY DEF HopInv
<1>3. r.out \in Seq(GotsOf(s))
  BY <1>2 DEF ReadersOf
<1>4. /\ q = [state |-> IF s.kind = "request" /\ i = L THEN "end" ELSE "reading",
              used |-> u, parts |-> << >>, part |-> << >>, out |-> out]
  BY DEF AfterItem
<1>5. From(Whole(s, h), u + 1) = Left(Encs(s, h), i)
  OBVIOUS
<1> HIDE DEF L, m
<1>6. i \in 1..L /\ i <= k /\ i \in Nat
  <2> HIDE DEF n
  <2> QED BY <1>1
<1>7. x \in GotsOf(s)
  <2>1. h \in {1, 2}
    BY DEF Proper
  <2> QED BY <1>6, <2>1 DEF GotsOf, L
<1> HIDE DEF x
<1>8. /\ out \in Seq(GotsOf(s)) /\ Len(out) = i
      /\ (\A a \in 1..n : out[a] = r.out[a]) /\ out[i] = x
  BY <1>3, <1>7, AppendProperties
<1> HIDE DEF out, q, n
<1>9. \A a \in 1..i : out[a] = Got(s, h, a)
  <2> TAKE a \in 1..i
  <2>1. CASE a = i
    BY <1>8, <2>1 DEF x
  <2>2. CASE a # i
    <3>1. a \in 1..n
      BY <1>1, <2>2
    <3> QED BY <1>2, <1>8, <3>1
  <2> QED BY <2>1, <2>2
<1>10. /\ q.used = u /\ q.parts = << >> /\ q.part = << >> /\ q.out = out
       /\ q.state = IF s.kind = "request" /\ i = L THEN "end" ELSE "reading"
  BY <1>4
<1>11. q \in ReadersOf(s) /\ Len(q.part) <= 1
  <2> DEFINE none == << >>
  <2>1. none \in Seq(Octets) /\ none \in Octets /\ Len(none) = 0
    BY EmptySeq, OctetFacts
  <2> HIDE DEF none
  <2>2. q = [state |-> IF s.kind = "request" /\ i = L THEN "end" ELSE "reading",
             used |-> u, parts |-> none, part |-> none, out |-> out]
    BY <1>4 DEF none
  <2>3. q \in ReadersOf(s)
    BY <1>8, <2>1, <2>2 DEF ReadersOf
  <2>4. Len(q.part) = 0
    BY <1>10, <2>1 DEF none
  <2> QED BY <2>3, <2>4
<1>12. Between(s, h, q)
  BY <1>5, <1>8, <1>10 DEF Between
<1>13. q.state = "reading" => Reads(s, h, q)
  <2>1. q.state = "reading" /\ s.kind = "request" => i < L
    <3> SUFFICES ASSUME q.state = "reading", s.kind = "request" PROVE i < L
      OBVIOUS
    <3>1. i # L
      BY <1>10
    <3> HIDE DEF i
    <3> QED BY <1>1, <1>6, <3>1
  <2> QED BY <1>8, <1>10, <1>12, <2>1 DEF Reads, L
<1>14. HopInv(s, h, w, q, k)
  <2>1. k \in 0..Writable(s)
    BY <1>1 DEF m
  <2> QED BY <1>2, <1>6, <1>8, <1>9, <1>10, <1>11, <1>13, <2>1 DEF HopInv
<1> QED BY <1>8, <1>10, <1>14 DEF q, n, L

\* A reader that has to wait, of a stream that is over, has read all items.
LEMMA NothingLeft ==
    ASSUME stream \in Streams, Proper(stream), NEW h \in Hops,
           HopInv(stream, h, wire[h], reader[h], Writable(stream)),
           wire[h].arrived = Len(wire[h].bytes), reader[h].state = "reading", ~CanRead(h)
    PROVE  Len(reader[h].out) = Writable(stream) /\ reader[h].parts = << >>
<1> DEFINE s == stream
           r == reader[h]
           w == wire[h]
           n == Len(r.out)
           m == Writable(s)
           c == Parts(s, h, n + 1)
           enc == Encs(s, h)
           all == Whole(s, h)
           plan == Plan(h, r.parts)
           need == NeedFor(plan, r.part)
<1>1. h \in DOMAIN s.readers /\ Native(h) /\ r \in ReadersOf(s) /\ Reads(s, h, r)
  BY ProperHops DEF Hops, HopInv
<1>2. /\ w.bytes = all /\ all \in Octets /\ n \in Nat /\ r.used \in Nat /\ m \in Nat
      /\ enc \in Seq(Octets) /\ Len(enc) = m
  <2>1. HopInv(s, h, w, r, m)
    OBVIOUS
  <2>2. s \in Streams /\ Proper(s) /\ h \in DOMAIN s.readers
    BY <1>1
  <2> HIDE DEF s, w, r
  <2> QED BY <2>1, <2>2, BytesOfHop, EncsTyped
<1>3. n <= m /\ r.used <= w.arrived /\ w.arrived = Len(all) /\ Len(r.part) <= 1
      /\ \A i \in 1..n : r.out[i] = Got(s, h, i)
  BY <1>2 DEF HopInv
<1>4. Need(h) = need /\ ~(r.used + need <= w.arrived)
  BY <1>1, WithBytesIs DEF CanRead
<1>5. ASSUME n < m, NEW j \in 0..(Len(c) - 1), Within(s, h, r, j) PROVE FALSE
  <2>1. n + 1 \in 1..m
    <3> HIDE DEF n, m
    <3> QED BY <1>2, <1>5
  <2>2. At(h, n + 1)
    <3>1. (n + 1) - 1 = n
      BY <1>2
    <3>2. r.out \in Seq(GotsOf(s))
      BY <1>1 DEF ReadersOf
    <3> QED BY <1>3, <3>1, <3>2 DEF At
  <2>3. c \in Seq(Octets) /\ Len(c) \in Nat \ {0}
    BY <1>1, <2>1, PartsTyped
  <2>4. \A i \in 0..Len(c) : PlanFits(Plan(h, SubSeq(c, 1, i)), c, i)
    BY <2>1, <2>2, ItemIsRead
  <2> HIDE DEF c
  <2>5. j \in 0..Len(c) /\ j + 1 \in 1..Len(c) /\ j # Len(c) /\ (j + 1) - 1 = j /\ j + 1 \in 0..Len(c)
    <3> DEFINE l == Len(c)
    <3>1. l \in Nat \ {0} /\ j \in 0..(l - 1)
      BY <1>5, <2>3
    <3> HIDE DEF l
    <3>2. j \in 0..l /\ j + 1 \in 1..l /\ j # l /\ (j + 1) - 1 = j /\ j + 1 \in 0..l
      BY <3>1
    <3> QED BY <3>2 DEF l
  <2> DEFINE e == c[j + 1]
             p == r.part
             u == r.used
             tail == Left(enc, n + 1)
             z == Left(c, j + 1) \o tail
  <2>6. e \in Octets /\ p \in Octets
    <3>1. e \in Octets
      BY <2>3, <2>5, ElementOfSeq
    <3> QED BY <1>1, <3>1 DEF ReadersOf
  <2>7. /\ r.parts = SubSeq(c, 1, j) /\ Len(p) <= u
        /\ p = << >> \/ (p = <<e[1]>> /\ Len(e) > 1 /\ IsIntPart(e))
        /\ From(all, u - Len(p) + 1) = Left(c, j) \o tail
    BY <1>5 DEF Within, c
  <2>8. ReadsPart(plan, p, e)
    <3>1. PlanFits(plan, c, j)
      BY <2>4, <2>5, <2>7
    <3> QED BY <2>5, <2>7, <3>1 DEF PlanFits, ReadsPart
  <2>9. Octets = Seq(Byte)
    BY DEF Octets
  <2>10. Left(c, j) = e \o Left(c, j + 1) /\ Left(c, j + 1) \in Octets /\ tail \in Octets
    <3>1. Left(c, (j + 1) - 1) = e \o Left(c, j + 1) /\ Left(c, j + 1) \in Octets
      BY <2>3, <2>5, <2>9, LeftStep
    <3>2. n + 1 \in 0..Len(enc)
      <4>1. n + 1 \in 1..Len(enc)
        BY <1>2, <2>1
      <4> QED BY <1>2, <4>1
    <3>3. tail \in Octets
      BY <1>2, <2>9, <3>2, LeftStep
    <3> QED BY <2>5, <3>1, <3>3
  <2> HIDE DEF e, tail
  <2>11. Left(c, j) \o tail = e \o z /\ z \in Octets
    <3> DEFINE f == Left(c, j + 1)
    <3>1. f \in Octets /\ z = f \o tail /\ Left(c, j) = e \o f
      BY <2>10
    <3> HIDE DEF f, z
    <3>2. (e \o f) \o tail = e \o (f \o tail) /\ f \o tail \in Octets
      BY <2>6, <2>10, <3>1, OctetFacts, Zenon
    <3> QED BY <3>1, <3>2
  <2> HIDE DEF z, p, u
  <2> DEFINE a == Len(e)
             b == Len(z)
             o == Len(p)
             t == Len(all)
             v == u - o
  <2>12. need \in Nat /\ need + o <= a /\ a \in Nat /\ b \in Nat /\ Len(e \o z) = a + b /\ t \in Nat
         /\ o \in {0, 1} /\ e \o z \in Octets
    <3>1. need \in Nat /\ need + o <= a /\ o \in {0, 1}
      BY <2>6, <2>8, NeedIsLeft DEF p
    <3> QED BY <1>2, <2>6, <2>11, <3>1, OctetFacts
  <2>13. u \in Nat /\ o <= u /\ u <= t
    BY <1>2, <1>3, <2>7 DEF u
  <2> HIDE DEF need
  <2>14. From(all, v + 1) = e \o z
    BY <2>7, <2>11
  <2> HIDE DEF all, a, b, o, t
  <2>15. v \in Nat /\ v \in 0..t /\ u = v + o
    BY <2>12, <2>13
  <2> HIDE DEF v
  <2>16. Len(From(all, v + 1)) = t - v
    <3>1. v \in 0..Len(all)
      BY <2>15 DEF t
    <3> QED BY <1>2, <3>1, FromBytes DEF t, all
  <2>17. t - v = a + b
    BY <2>12, <2>14, <2>16
  <2>18. u + need <= t
    BY <2>12, <2>15, <2>17
  <2> QED BY <1>3, <1>4, <2>18 DEF u, t, need, all, p
<1>6. Between(s, h, r)
  BY <1>1, <1>5 DEF Reads
<1>7. ~(n < m)
  <2> SUFFICES ASSUME n < m PROVE FALSE
    OBVIOUS
  <2>1. Within(s, h, r, 0) /\ 0 \in 0..(Len(c) - 1)
    BY <1>1, <1>6, BetweenIsWithin
  <2> QED BY <1>5, <2>1
<1>8. n = m
  <2> HIDE DEF n, m
  <2> QED BY <1>2, <1>3, <1>7
<1> QED BY <1>6, <1>8 DEF Between

----------------------------------------------------------------------------
(* The inductive invariant *)

\* A reader that has ended has read all, and one that has failed had a stream that
\* broke off or that its writer gave up.
EndInv(h) ==
    /\ reader[h].state = "end" => Broken(h) \/ Len(reader[h].out) = Len(stream.items)
    /\ reader[h].state = "error" => Broken(h) \/ Refused

\* The second stream carries what the relay has read, or the first items of this if
\* the stream was reset.
SecondHas(k) ==
    /\ HopInv(stream, 2, wire[2], reader[2], k)
    /\ wire[2].end # "reset" => k = Len(reader[1].out)
    /\ wire[2].end = "fin" => reader[1].state # "reading"

\* The inductive invariant.
StreamInv ==
    /\ stream \in Streams /\ Proper(stream)
    /\ wire \in [Hops -> Wires] /\ reader \in [Hops -> ReadersOf(stream)]
    /\ HopInv(stream, 1, wire[1], reader[1], written)
    /\ wire[1].end = "fin" => written = Writable(stream)
    /\ 2 \in Hops => \E k \in 0..Len(reader[1].out) : SecondHas(k)
    /\ \A h \in Hops : EndInv(h)

\* The end of a reader stays what it was.
LEMMA EndsStay ==
    ASSUME stream' = stream, wire' \in [Hops -> Wires], 1 \in Hops, NEW h \in Hops, h \in {1, 2},
           EndInv(h), reader'[h] = reader[h],
           \A g \in Hops : wire[g].end = "reset" => wire'[g].end = "reset",
           Refused => Refused' \/ wire'[1].end = "reset"
    PROVE  EndInv(h)'
<1>1. Hops' = Hops
  BY DEF Hops
<1>2. Broken(h) => Broken(h)'
  BY <1>1 DEF Broken
<1>3. Refused => Broken(h)' \/ Refused'
  <2>1. 1 <= h
    OBVIOUS
  <2> QED BY <1>1, <2>1 DEF Broken
<1> QED BY <1>1, <1>2, <1>3 DEF EndInv

\* Bytes are written to stream h.
LEMMA SendsTo ==
    ASSUME wire \in [Hops -> Wires], NEW h \in Hops, NEW b \in Octets, Sends(h, b)
    PROVE  /\ wire' \in [Hops -> Wires] /\ \A g \in Hops \ {h} : wire'[g] = wire[g]
           /\ wire'[h].bytes = wire[h].bytes \o b /\ wire'[h].arrived = wire[h].arrived
           /\ wire'[h].end = wire[h].end
<1> DEFINE d == wire[h].bytes \o b
<1>1. wire' = [wire EXCEPT ![h].bytes = d]
  BY DEF Sends
<1>2. d \in Octets
  <2>1. wire[h].bytes \in Octets
    BY DEF Wires
  <2> QED BY <2>1, OctetFacts
<1> HIDE DEF d
<1>3. wire'[h] = [wire[h] EXCEPT !.bytes = d] /\ \A g \in Hops \ {h} : wire'[g] = wire[g]
  BY <1>1
<1>4. wire' \in [Hops -> Wires]
  BY <1>1, <1>2 DEF Wires
<1>5. wire'[h].bytes = d /\ wire'[h].arrived = wire[h].arrived /\ wire'[h].end = wire[h].end
  BY <1>3 DEF Wires
<1> QED BY <1>3, <1>4, <1>5 DEF d

\* Stream h ends.
LEMMA EndsAt ==
    ASSUME wire \in [Hops -> Wires], NEW h \in Hops, NEW x \in {"fin", "reset"},
           wire' = [wire EXCEPT ![h].end = x]
    PROVE  /\ wire' \in [Hops -> Wires] /\ \A g \in Hops \ {h} : wire'[g] = wire[g]
           /\ wire'[h].bytes = wire[h].bytes /\ wire'[h].arrived = wire[h].arrived
           /\ wire'[h].end = x
  BY DEF Wires

\* A byte arrives.
LEMMA ArrivesAt ==
    ASSUME wire \in [Hops -> Wires], NEW h \in Hops, wire' = [wire EXCEPT ![h].arrived = @ + 1]
    PROVE  /\ wire' \in [Hops -> Wires] /\ \A g \in Hops \ {h} : wire'[g] = wire[g]
           /\ wire'[h].bytes = wire[h].bytes /\ wire'[h].arrived = wire[h].arrived + 1
           /\ wire'[h].end = wire[h].end
  BY DEF Wires

\* What the invariant says of both readers.
LEMMA TwoHops ==
    ASSUME StreamInv
    PROVE  /\ Hops = {1} \/ Hops = {1, 2}
           /\ 1 \in Hops /\ \A h \in Hops : h \in {1, 2} /\ Native(h) /\ h \in DOMAIN stream.readers
           /\ stream.kind = "request" \/ stream.kind = "data"
           /\ Len(reader[1].out) \in Nat /\ written \in 0..Writable(stream)
           /\ Writable(stream) \in Nat /\ Len(stream.items) \in Nat \ {0}
           /\ \A h \in Hops : \E k \in 0..Writable(stream) : HopInv(stream, h, wire[h], reader[h], k)
<1>1. /\ Hops = {1} \/ Hops = {1, 2}
      /\ 1 \in Hops /\ \A h \in Hops : h \in {1, 2} /\ Native(h) /\ h \in DOMAIN stream.readers
      /\ stream.kind = "request" \/ stream.kind = "data"
  <2>1. Hops = DOMAIN stream.readers
    BY DEF Hops
  <2> QED BY <2>1, ProperHops DEF StreamInv
<1>2. HopInv(stream, 1, wire[1], reader[1], written) /\ written \in 0..Writable(stream)
  BY DEF StreamInv, HopInv
<1>3. Len(reader[1].out) \in Nat
  BY <1>1, <1>2, BytesOfHop DEF StreamInv
<1>4. Writable(stream) \in Nat /\ Len(stream.items) \in Nat \ {0}
  BY <1>1, EncsTyped, ItemCount DEF StreamInv
<1>5. \A h \in Hops : \E k \in 0..Writable(stream) : HopInv(stream, h, wire[h], reader[h], k)
  <2> TAKE h \in Hops
  <2>1. CASE h = 1
    BY <1>2, <2>1
  <2>2. CASE h = 2
    <3>1. PICK k \in 0..Len(reader[1].out) : SecondHas(k)
      BY <2>2 DEF StreamInv
    <3>2. HopInv(stream, 2, wire[2], reader[2], k)
      BY <3>1 DEF SecondHas
    <3>3. k \in 0..Writable(stream)
      BY <3>2 DEF HopInv
    <3> QED BY <2>2, <3>2, <3>3
  <2> QED BY <1>1, <2>1, <2>2
<1> QED BY <1>1, <1>2, <1>3, <1>4, <1>5

----------------------------------------------------------------------------
(* The writer and the transport keep it *)

\* The writer writes the next item.
LEMMA WriteItemKeeps == ASSUME StreamInv, WriteItem PROVE StreamInv'
<1> DEFINE s == stream
           e == Encoding(s.items[written + 1])
           m == Writable(s)
<1>1. /\ 1 \in Hops /\ 1 \in DOMAIN s.readers /\ s \in Streams /\ Proper(s)
      /\ written \in 0..m /\ m \in Nat /\ Len(s.items) \in Nat
      /\ \A h \in Hops : h \in {1, 2}
  BY TwoHops DEF StreamInv
<1>2. /\ wire \in [Hops -> Wires] /\ HopInv(s, 1, wire[1], reader[1], written)
      /\ \A h \in Hops : EndInv(h)
  BY DEF StreamInv
<1>3. /\ wire[1].end = "open" /\ written # Len(s.items) /\ ~Refuses(s.items[written + 1])
      /\ Sends(1, e) /\ written' = written + 1 /\ s' = s /\ reader' = reader
  BY DEF WriteItem, Writing, Complete
<1>4. written < m
  <2> SUFFICES ASSUME ~(written < m) PROVE FALSE
    OBVIOUS
  <2>1. written = m /\ m < Len(s.items)
    <3>1. m \in 0..Len(s.items)
      BY <1>1, WritableFacts
    <3> DEFINE l == Len(s.items)
    <3>2. l \in Nat /\ written # l /\ m \in 0..l
      BY <1>1, <1>3, <3>1
    <3> HIDE DEF m, l
    <3>3. written = m /\ m < l
      BY <1>1, <3>2
    <3> QED BY <3>3 DEF l
  <2>2. GivesUp(s, m + 1)
    BY <1>1, <2>1, WritableFacts
  <2> HIDE DEF m
  <2> QED BY <1>3, <2>1, <2>2 DEF GivesUp, Refuses
<1>5. written \in Nat
  <2> HIDE DEF m
  <2> QED BY <1>1
<1>6. e = FlattenSeq(Parts(s, 1, written + 1))
  BY <1>1, <1>4, <1>5, ItemIsWritten
<1>7. e \in Octets
  <2>1. written + 1 \in 1..m
    <3> HIDE DEF m
    <3> QED BY <1>1, <1>4, <1>5
  <2>2. e = Encs(s, 1)[written + 1] /\ Encs(s, 1) \in Seq(Octets) /\ Len(Encs(s, 1)) = m
    BY <1>1, <1>6, <2>1, EncsTyped
  <2> QED BY <2>1, <2>2, ElementOfSeq
<1> HIDE DEF e
<1>8. /\ wire' \in [Hops -> Wires] /\ (\A g \in Hops \ {1} : wire'[g] = wire[g])
      /\ wire'[1].bytes = wire[1].bytes \o e /\ wire'[1].arrived = wire[1].arrived
      /\ wire'[1].end = wire[1].end
  BY <1>1, <1>2, <1>3, <1>7, SendsTo
<1>9. HopInv(s, 1, wire'[1], reader[1], written + 1)
  <2>1. wire'[1] \in Wires
    BY <1>1, <1>8
  <2> HIDE DEF s
  <2> QED BY <1>1, <1>2, <1>4, <1>6, <1>8, <2>1, OneMore
<1>10. ASSUME 2 \in Hops PROVE (\E k \in 0..Len(reader[1].out) : SecondHas(k))'
  <2>1. PICK k \in 0..Len(reader[1].out) : SecondHas(k)
    BY <1>10 DEF StreamInv
  <2>2. wire'[2] = wire[2]
    BY <1>8, <1>10
  <2> QED BY <1>3, <2>1, <2>2 DEF SecondHas
<1>11. ASSUME NEW h \in Hops PROVE EndInv(h)'
  <2>1. \A g \in Hops : wire[g].end = "reset" => wire'[g].end = "reset"
    BY <1>8
  <2>2. ~Refused
    BY <1>3 DEF Refused
  <2> QED BY <1>1, <1>2, <1>3, <1>8, <1>11, <2>1, <2>2, EndsStay
<1>12. Hops' = Hops /\ reader' \in [Hops -> ReadersOf(s)]
  BY <1>3 DEF Hops, StreamInv
<1> QED BY <1>1, <1>3, <1>8, <1>9, <1>10, <1>11, <1>12 DEF StreamInv

\* The first stream ends.
LEMMA FirstEnds ==
    ASSUME StreamInv, wire[1].end = "open", wire' = [wire EXCEPT ![1].end = "fin"],
           stream' = stream, written' = written, reader' = reader, written = Writable(stream)
    PROVE  StreamInv'
<1>1. /\ 1 \in Hops /\ \A h \in Hops : h \in {1, 2}
  BY TwoHops
<1>2. /\ wire \in [Hops -> Wires] /\ HopInv(stream, 1, wire[1], reader[1], written)
      /\ \A h \in Hops : EndInv(h)
  BY DEF StreamInv
<1>3. /\ wire' \in [Hops -> Wires] /\ (\A g \in Hops \ {1} : wire'[g] = wire[g])
      /\ wire'[1].bytes = wire[1].bytes /\ wire'[1].arrived = wire[1].arrived
      /\ wire'[1].end = "fin"
  <2>1. "fin" \in {"fin", "reset"}
    OBVIOUS
  <2> QED BY <1>1, <1>2, <2>1, EndsAt
<1>4. HopInv(stream, 1, wire'[1], reader[1], written)
  <2>1. wire'[1] \in Wires
    BY <1>1, <1>3
  <2>2. reader[1].used <= wire'[1].arrived /\ wire'[1].arrived <= Len(wire'[1].bytes)
    BY <1>2, <1>3 DEF HopInv
  <2> QED BY <1>2, <1>3, <2>1, <2>2, SameBytes
<1>5. ASSUME 2 \in Hops PROVE (\E k \in 0..Len(reader[1].out) : SecondHas(k))'
  <2>1. PICK k \in 0..Len(reader[1].out) : SecondHas(k)
    BY <1>5 DEF StreamInv
  <2>2. wire'[2] = wire[2]
    BY <1>3, <1>5
  <2> QED BY <2>1, <2>2 DEF SecondHas
<1>6. ASSUME NEW h \in Hops PROVE EndInv(h)'
  <2>1. \A g \in Hops : wire[g].end = "reset" => wire'[g].end = "reset"
    BY <1>3
  <2>2. ~Refused
    BY DEF Refused
  <2> QED BY <1>1, <1>2, <1>3, <1>6, <2>1, <2>2, EndsStay
<1>7. Hops' = Hops
  BY DEF Hops
<1> QED BY <1>1, <1>3, <1>4, <1>5, <1>6, <1>7 DEF StreamInv

\* The writer gives up.
LEMMA RefuseItemKeeps == ASSUME StreamInv, RefuseItem PROVE StreamInv'
<1> DEFINE s == stream
           m == Writable(s)
           l == Len(s.items)
<1>1. /\ s \in Streams /\ Proper(s) /\ written \in 0..m /\ m \in Nat /\ l \in Nat
  BY TwoHops DEF StreamInv
<1>2. /\ wire[1].end = "open" /\ written # l /\ Refuses(s.items[written + 1])
      /\ wire' = [wire EXCEPT ![1].end = "fin"] /\ s' = s /\ written' = written /\ reader' = reader
  BY DEF RefuseItem, Writing, Complete
<1>3. GivesUp(s, written + 1)
  BY <1>2 DEF GivesUp, Refuses
<1>4. written = m
  <2> SUFFICES ASSUME written # m PROVE FALSE
    OBVIOUS
  <2>1. written + 1 \in 1..m
    <3> HIDE DEF m
    <3> QED BY <1>1
  <2>2. ~GivesUp(s, written + 1)
    BY <1>1, <2>1, WritableFacts
  <2> QED BY <1>3, <2>2
<1> QED BY <1>2, <1>4, FirstEnds

\* The writer is done.
LEMMA FinishKeeps == ASSUME StreamInv, Finish PROVE StreamInv'
<1> DEFINE s == stream
<1>1. s \in Streams /\ Proper(s)
  BY DEF StreamInv
<1>2. /\ s.kind = "data" /\ written = Len(s.items) /\ wire[1].end = "open"
      /\ wire' = [wire EXCEPT ![1].end = "fin"] /\ s' = s /\ written' = written /\ reader' = reader
  BY DEF Finish, Complete
<1>3. written = Writable(s)
  BY <1>1, <1>2, WritableFacts
<1> QED BY <1>2, <1>3, FirstEnds

\* A change of one stream that leaves its bytes alone, and what its reader has used.
LEMMA TransportKeeps ==
    ASSUME StreamInv, NEW h \in Hops, stream' = stream, written' = written, reader' = reader,
           wire' \in [Hops -> Wires], \A g \in Hops \ {h} : wire'[g] = wire[g],
           wire'[h].bytes = wire[h].bytes,
           reader[h].used <= wire'[h].arrived, wire'[h].arrived <= Len(wire'[h].bytes),
           wire'[h].end = wire[h].end \/ wire'[h].end = "reset"
    PROVE  StreamInv'
<1>1. 1 \in Hops /\ \A g \in Hops : g \in {1, 2}
  BY TwoHops
<1>2. HopInv(stream, 1, wire[1], reader[1], written) /\ \A g \in Hops : EndInv(g)
  BY DEF StreamInv
<1>3. \A g \in Hops : wire'[g] \in Wires /\ (g # h => wire'[g] = wire[g])
  OBVIOUS
<1>4. ASSUME NEW g \in Hops, NEW k, HopInv(stream, g, wire[g], reader[g], k)
      PROVE  HopInv(stream, g, wire'[g], reader[g], k)
  <2>1. CASE g = h
    BY <1>3, <1>4, <2>1, SameBytes
  <2>2. CASE g # h
    BY <1>3, <1>4, <2>2
  <2> QED BY <2>1, <2>2
<1>5. HopInv(stream, 1, wire'[1], reader[1], written)
  BY <1>1, <1>2, <1>4
<1>6. ASSUME 2 \in Hops PROVE (\E k \in 0..Len(reader[1].out) : SecondHas(k))'
  <2>1. PICK k \in 0..Len(reader[1].out) : SecondHas(k)
    BY <1>6 DEF StreamInv
  <2>2. HopInv(stream, 2, wire'[2], reader[2], k)
    BY <1>4, <1>6, <2>1 DEF SecondHas
  <2>3. wire'[2].end = wire[2].end \/ wire'[2].end = "reset"
    BY <1>3, <1>6
  <2> QED BY <2>1, <2>2, <2>3 DEF SecondHas
<1>7. ASSUME NEW g \in Hops PROVE EndInv(g)'
  <2>1. \A x \in Hops : wire[x].end = "reset" => wire'[x].end = "reset"
    BY <1>3
  <2>2. Refused => Refused' \/ wire'[1].end = "reset"
    <3>1. wire'[1].end = wire[1].end \/ wire'[1].end = "reset"
      BY <1>1, <1>3
    <3> QED BY <3>1 DEF Refused, Complete
  <2> QED BY <1>1, <1>2, <1>7, <2>1, <2>2, EndsStay
<1>8. Hops' = Hops
  BY DEF Hops
<1>9. wire'[1].end = "fin" => written = Writable(stream)
  <2>1. wire'[1].end = "fin" => wire[1].end = "fin"
    BY <1>1, <1>3
  <2> QED BY <2>1 DEF StreamInv
<1> QED BY <1>1, <1>5, <1>6, <1>7, <1>8, <1>9 DEF StreamInv

\* A byte arrives.
LEMMA ArriveByteKeeps == ASSUME StreamInv, NEW h \in Hops, ArriveByte(h) PROVE StreamInv'
<1>1. wire \in [Hops -> Wires]
  BY DEF StreamInv
<1>2. /\ wire[h].arrived < Len(wire[h].bytes) /\ wire' = [wire EXCEPT ![h].arrived = @ + 1]
      /\ stream' = stream /\ written' = written /\ reader' = reader
  BY DEF ArriveByte
<1>3. /\ wire' \in [Hops -> Wires] /\ (\A g \in Hops \ {h} : wire'[g] = wire[g])
      /\ wire'[h].bytes = wire[h].bytes /\ wire'[h].arrived = wire[h].arrived + 1
      /\ wire'[h].end = wire[h].end
  BY <1>1, <1>2, ArrivesAt
<1>4. PICK k \in 0..Writable(stream) : HopInv(stream, h, wire[h], reader[h], k)
  BY TwoHops
<1> DEFINE u == reader[h].used
           a == wire[h].arrived
           b == Len(wire[h].bytes)
<1>5. u \in Nat /\ a \in Nat /\ b \in Nat /\ u <= a
  BY <1>4, TwoHops, BytesOfHop DEF StreamInv, HopInv
<1>6. a < b
  BY <1>2
<1>7. u <= a + 1 /\ a + 1 <= b
  <2> HIDE DEF u, a, b
  <2> QED BY <1>5, <1>6
<1> QED BY <1>2, <1>3, <1>7, TransportKeeps

\* Stream h breaks off.
LEMMA BreakOffKeeps == ASSUME StreamInv, NEW h \in Hops, BreakOff(h) PROVE StreamInv'
<1>1. wire \in [Hops -> Wires]
  BY DEF StreamInv
<1>2. wire' = [wire EXCEPT ![h].end = "reset"] /\ stream' = stream /\ written' = written /\ reader' = reader
  BY DEF BreakOff
<1>3. /\ wire' \in [Hops -> Wires] /\ (\A g \in Hops \ {h} : wire'[g] = wire[g])
      /\ wire'[h].bytes = wire[h].bytes /\ wire'[h].arrived = wire[h].arrived
      /\ wire'[h].end = "reset"
  <2>1. "reset" \in {"fin", "reset"}
    OBVIOUS
  <2> QED BY <1>1, <1>2, <2>1, EndsAt
<1>4. PICK k \in 0..Writable(stream) : HopInv(stream, h, wire[h], reader[h], k)
  BY TwoHops
<1>5. reader[h].used <= wire'[h].arrived /\ wire'[h].arrived <= Len(wire'[h].bytes)
  BY <1>3, <1>4 DEF HopInv
<1> QED BY <1>2, <1>3, <1>5, TransportKeeps

----------------------------------------------------------------------------
(* The readers keep it *)

\* A reader gets a part of an item.
LEMMA ReadPartKeeps == ASSUME StreamInv, NEW h \in Hops, ReadPart(h) PROVE StreamInv'
<1> DEFINE r == WithBytes(h, reader[h], Need(h))
<1>1. /\ CanRead(h) /\ ~IsNoInt(h, r) /\ ~IsComplete(h, r)
      /\ reader' = [reader EXCEPT ![h] = r]
      /\ stream' = stream /\ written' = written /\ wire' = wire
  BY DEF ReadPart
<1>2. /\ 1 \in Hops /\ \A g \in Hops : g \in {1, 2}
      /\ stream \in Streams /\ Proper(stream)
      /\ reader \in [Hops -> ReadersOf(stream)] /\ wire \in [Hops -> Wires]
      /\ \A g \in Hops : EndInv(g)
  BY TwoHops DEF StreamInv
<1>3. ASSUME NEW k, HopInv(stream, h, wire[h], reader[h], k)
      PROVE  HopInv(stream, h, wire[h], r, k) /\ r.out = reader[h].out /\ r.state = "reading"
             /\ r \in ReadersOf(stream)
  <2>1. HopInv(stream, h, wire[h], r, k)
    BY <1>1, <1>2, <1>3, MoreIsRead
  <2>2. reader[h].state = "reading" /\ reader[h] \in ReadersOf(stream)
    BY <1>1, <1>2 DEF CanRead
  <2>3. r.out = reader[h].out /\ r.state = reader[h].state
    <3> DEFINE o == reader[h]
               n == Need(h)
               got == o.part \o SubSeq(wire[h].bytes, o.used + 1, o.used + n)
               begins == Plan(h, o.parts).what = "int" /\ o.part = << >> /\ ByteLength(h, got[1]) # 1
    <3>1. r = [o EXCEPT !.used = @ + n, !.part = IF begins THEN got ELSE << >>,
                        !.parts = IF begins THEN @ ELSE Append(@, got)]
      BY DEF WithBytes
    <3>2. o \in ReadersOf(stream)
      BY <2>2
    <3> HIDE DEF o, n, got, begins, r
    <3>3. r.out = o.out /\ r.state = o.state
      BY <3>1, <3>2 DEF ReadersOf
    <3> QED BY <3>3 DEF o
  <2>4. r \in ReadersOf(stream)
    BY <2>1 DEF HopInv
  <2> QED BY <2>1, <2>2, <2>3, <2>4
<1>4. PICK j \in 0..Writable(stream) : HopInv(stream, h, wire[h], reader[h], j)
  BY TwoHops
<1>5. r \in ReadersOf(stream) /\ r.out = reader[h].out /\ r.state = "reading"
  BY <1>3, <1>4
<1> HIDE DEF r
<1>6. /\ reader' \in [Hops -> ReadersOf(stream)] /\ reader'[h] = r
      /\ \A g \in Hops \ {h} : reader'[g] = reader[g]
  BY <1>1, <1>2, <1>5
<1>7. ASSUME NEW g \in Hops, NEW k, HopInv(stream, g, wire[g], reader[g], k)
      PROVE  HopInv(stream, g, wire[g], reader'[g], k)
  BY <1>3, <1>6, <1>7
<1>8. HopInv(stream, 1, wire[1], reader'[1], written)
  BY <1>2, <1>7 DEF StreamInv
<1>9. reader[h].state = "reading"
  BY <1>1 DEF CanRead
<1>10. reader'[1].out = reader[1].out /\ reader'[1].state = reader[1].state
  BY <1>2, <1>5, <1>6, <1>9
<1>11. ASSUME 2 \in Hops PROVE (\E k \in 0..Len(reader[1].out) : SecondHas(k))'
  <2>1. PICK k \in 0..Len(reader[1].out) : SecondHas(k)
    BY <1>11 DEF StreamInv
  <2>2. HopInv(stream, 2, wire[2], reader'[2], k)
    BY <1>7, <1>11, <2>1 DEF SecondHas
  <2>3. SecondHas(k)'
    BY <1>1, <1>10, <2>1, <2>2 DEF SecondHas
  <2> QED BY <1>10, <2>3
<1>12. ASSUME NEW g \in Hops PROVE EndInv(g)'
  <2>1. CASE g = h
    BY <1>5, <1>6, <2>1 DEF EndInv
  <2>2. CASE g # h
    <3>1. Refused => Refused'
      BY <1>1 DEF Refused, Complete
    <3>2. reader'[g] = reader[g] /\ wire' \in [Hops -> Wires] /\ wire' = wire
      BY <1>1, <1>2, <1>6, <2>2
    <3> QED BY <1>1, <1>2, <1>12, <3>1, <3>2, EndsStay
  <2> QED BY <2>1, <2>2
<1>13. Hops' = Hops
  BY <1>1 DEF Hops
<1> QED BY <1>1, <1>2, <1>6, <1>8, <1>11, <1>12, <1>13 DEF StreamInv

\* The reader with an item is the one after it.
LEMMA WithItemIs ==
    ASSUME NEW h, NEW r, NEW o, r.out = o.out
    PROVE  WithItem(r, Got(stream, h, Len(o.out) + 1)) = AfterItem(stream, h, o, r.used)
<1> DEFINE x == Got(stream, h, Len(o.out) + 1)
           out == Append(o.out, x)
           u == r.used
           st == IF stream.kind = "request" /\ Len(o.out) + 1 = Len(stream.items) THEN "end"
                 ELSE "reading"
           none == << >>
<1>1. WithItem(r, x) = [Reading EXCEPT !.used = u, !.out = out, !.state = st]
  BY DEF WithItem
<1>2. AfterItem(stream, h, o, u) = [state |-> st, used |-> u, parts |-> none, part |-> none, out |-> out]
  BY DEF AfterItem
<1>3. Reading = [state |-> "reading", used |-> 0, parts |-> none, part |-> none, out |-> none]
  BY DEF Reading
<1> HIDE DEF x, out, u, st, none
<1>4. WithItem(r, x) = AfterItem(stream, h, o, u)
  BY <1>1, <1>2, <1>3
<1> QED BY <1>4 DEF x, u

\* What the reader of stream h gets when it completes an item.
LEMMA ItemCompletes ==
    ASSUME StreamInv, NEW h \in Hops, NEW k, HopInv(stream, h, wire[h], reader[h], k), CanRead(h),
           IsComplete(h, WithBytes(h, reader[h], Need(h)))
    PROVE  LET r == WithBytes(h, reader[h], Need(h))
               n == Len(reader[h].out)
               q == AfterItem(stream, h, reader[h], r.used)
           IN /\ n \in Nat /\ n < k /\ n + 1 \in 1..Writable(stream)
              /\ Item(h, r.parts) = Parsed(Got(stream, h, n + 1), << >>)
              /\ WithItem(r, Got(stream, h, n + 1)) = q
              /\ HopInv(stream, h, wire[h], q, k) /\ Len(q.out) = n + 1 /\ q.state # "error"
              /\ q.state = "end" => Len(q.out) = Len(stream.items)
              /\ h = 1 /\ 2 \in Hops =>
                   PassedOn(Got(stream, 1, n + 1), r.parts) = FlattenSeq(Parts(stream, 2, n + 1))
<1> DEFINE r == WithBytes(h, reader[h], Need(h))
           o == reader[h]
           n == Len(o.out)
           m == Writable(stream)
           c == Parts(stream, h, n + 1)
           q == AfterItem(stream, h, o, r.used)
           u == r.used
<1>1. /\ stream \in Streams /\ Proper(stream) /\ h \in DOMAIN stream.readers
  BY TwoHops DEF StreamInv
<1>2. /\ n < k /\ At(h, n + 1) /\ r.parts = c /\ u \in Nat /\ u <= wire[h].arrived
      /\ From(Whole(stream, h), u + 1) = Left(Encs(stream, h), n + 1)
      /\ r.out = o.out
  BY <1>1, MoreIsRead
<1>3. n \in Nat /\ k \in 0..m /\ m \in Nat
  <2>1. n \in Nat
    BY <1>1, BytesOfHop
  <2> QED BY <1>1, <2>1, EncsTyped DEF HopInv
<1>4. n + 1 \in 1..m
  <2>1. n < k
    BY <1>2
  <2> HIDE DEF n, m
  <2> QED BY <1>3, <2>1
<1>5. /\ Item(h, c) = Parsed(Got(stream, h, n + 1), << >>)
      /\ h = 1 /\ 2 \in Hops =>
           PassedOn(Got(stream, 1, n + 1), c) = FlattenSeq(Parts(stream, 2, n + 1))
  <2>1. At(h, n + 1)
    BY <1>2
  <2> HIDE DEF n, c
  <2> QED BY <1>1, <1>4, <2>1, ItemIsRead DEF c
<1>6. WithItem(r, Got(stream, h, n + 1)) = q
  <2>1. r.out = o.out
    BY <1>2
  <2> HIDE DEF r
  <2> QED BY <2>1, WithItemIs
<1>7. /\ HopInv(stream, h, wire[h], q, k) /\ Len(q.out) = n + 1 /\ q.state # "error"
      /\ q.state = "end" => Len(q.out) = Len(stream.items)
  <2>1. u \in Nat /\ u <= wire[h].arrived /\ Len(o.out) < k
        /\ From(Whole(stream, h), u + 1) = Left(Encs(stream, h), Len(o.out) + 1)
    BY <1>2
  <2> HIDE DEF u
  <2>2. /\ HopInv(stream, h, wire[h], AfterItem(stream, h, o, u), k)
        /\ Len(AfterItem(stream, h, o, u).out) = Len(o.out) + 1
        /\ AfterItem(stream, h, o, u).state # "error"
        /\ AfterItem(stream, h, o, u).state = "end" =>
             Len(AfterItem(stream, h, o, u).out) = Len(stream.items)
    BY <1>1, <2>1, ItemDone
  <2> QED BY <2>2 DEF u
<1> HIDE DEF q, c
<1>8. r.parts = c /\ n < k
  BY <1>2
<1> HIDE DEF r, n
<1> QED BY <1>3, <1>4, <1>5, <1>6, <1>7, <1>8 DEF r, n, q

\* The relay's second stream after it has read an item.
LEMMA SecondGrows ==
    ASSUME StreamInv, 2 \in Hops, NEW n \in Nat, n = Len(reader[1].out), n + 1 \in 1..Writable(stream),
           reader[1].state = "reading", stream' = stream,
           reader'[2] = reader[2], Len(reader'[1].out) = n + 1,
           IF wire[2].end = "open" THEN Sends(2, FlattenSeq(Parts(stream, 2, n + 1))) ELSE wire' = wire
    PROVE  /\ (\E k \in 0..Len(reader[1].out) : SecondHas(k))'
           /\ wire' \in [Hops -> Wires] /\ wire'[1] = wire[1]
           /\ wire'[2].end = wire[2].end
<1> DEFINE s == stream
           e == FlattenSeq(Parts(s, 2, n + 1))
<1>1. PICK k \in 0..Len(reader[1].out) : SecondHas(k)
  BY DEF StreamInv
<1>2. /\ HopInv(s, 2, wire[2], reader[2], k) /\ wire[2].end # "fin"
      /\ wire[2].end # "reset" => k = n
  BY <1>1 DEF SecondHas
<1>3. /\ wire \in [Hops -> Wires] /\ s \in Streams /\ Proper(s) /\ 2 \in DOMAIN s.readers
      /\ 1 \in Hops /\ Writable(s) \in Nat
  BY TwoHops DEF StreamInv
<1>4. CASE wire[2].end = "open"
  <2>1. e \in Octets
    <3>1. e = Encs(s, 2)[n + 1] /\ Encs(s, 2) \in Seq(Octets) /\ Len(Encs(s, 2)) = Writable(s)
      BY <1>3, EncsTyped
    <3> QED BY <3>1, ElementOfSeq
  <2>2. k = n
    BY <1>2, <1>4
  <2>3. Sends(2, e)
    BY <1>4
  <2> HIDE DEF e
  <2>4. /\ wire' \in [Hops -> Wires] /\ (\A g \in Hops \ {2} : wire'[g] = wire[g])
        /\ wire'[2].bytes = wire[2].bytes \o e /\ wire'[2].arrived = wire[2].arrived
        /\ wire'[2].end = wire[2].end
    BY <1>3, <2>1, <2>3, SendsTo
  <2>5. HopInv(s, 2, wire'[2], reader[2], n + 1)
    <3>1. wire'[2] \in Wires /\ n < Writable(s)
      BY <1>3, <2>4
    <3>2. wire'[2].bytes = wire[2].bytes \o FlattenSeq(Parts(s, 2, n + 1))
      BY <2>4 DEF e
    <3> HIDE DEF s
    <3> QED BY <1>2, <1>3, <2>2, <2>4, <3>1, <3>2, OneMore
  <2>6. SecondHas(n + 1)'
    BY <1>4, <2>4, <2>5 DEF SecondHas
  <2>7. n + 1 \in 0..Len(reader'[1].out)
    BY <1>3
  <2> QED BY <1>3, <2>4, <2>6, <2>7
<1>5. CASE wire[2].end # "open"
  <2>1. wire[2].end = "reset"
    <3>1. wire[2] \in Wires
      BY <1>2 DEF HopInv
    <3> QED BY <1>2, <1>5, <3>1 DEF Wires
  <2>2. wire' = wire
    BY <1>5
  <2>3. SecondHas(k)'
    BY <1>2, <2>1, <2>2 DEF SecondHas
  <2>4. k \in 0..Len(reader'[1].out)
    BY <1>1
  <2> QED BY <1>3, <2>2, <2>3, <2>4
<1> QED BY <1>4, <1>5

\* A reader completes an item.
LEMMA ReadItemKeeps == ASSUME StreamInv, NEW h \in Hops, ReadItem(h) PROVE StreamInv'
<1> DEFINE r == WithBytes(h, reader[h], Need(h))
           o == reader[h]
           n == Len(o.out)
           x == Got(stream, h, n + 1)
           q == AfterItem(stream, h, o, r.used)
           item == Item(h, r.parts)
<1>1. /\ CanRead(h) /\ IsComplete(h, r)
      /\ reader' = [reader EXCEPT ![h] = WithItem(r, item.value)]
      /\ IF PassesOn(h) THEN Sends(2, PassedOn(item.value, r.parts)) ELSE wire' = wire
      /\ stream' = stream /\ written' = written
  BY DEF ReadItem
<1>2. /\ 1 \in Hops /\ \A g \in Hops : g \in {1, 2}
      /\ reader \in [Hops -> ReadersOf(stream)] /\ wire \in [Hops -> Wires]
      /\ HopInv(stream, 1, wire[1], reader[1], written)
      /\ \A g \in Hops : EndInv(g)
  BY TwoHops DEF StreamInv
<1>3. ASSUME NEW k, HopInv(stream, h, wire[h], reader[h], k)
      PROVE  /\ n \in Nat /\ n < k /\ n + 1 \in 1..Writable(stream)
             /\ item = Parsed(x, << >>) /\ WithItem(r, x) = q
             /\ HopInv(stream, h, wire[h], q, k) /\ Len(q.out) = n + 1 /\ q.state # "error"
             /\ q.state = "end" => Len(q.out) = Len(stream.items)
             /\ h = 1 /\ 2 \in Hops =>
                  PassedOn(Got(stream, 1, n + 1), r.parts) = FlattenSeq(Parts(stream, 2, n + 1))
  BY <1>1, <1>3, ItemCompletes
<1>4. PICK k \in 0..Writable(stream) : HopInv(stream, h, wire[h], reader[h], k)
  BY TwoHops
<1> HIDE DEF r, q, x, item
<1>5. item.value = x
  BY <1>3, <1>4 DEF Parsed
<1>6. q \in ReadersOf(stream) /\ reader' = [reader EXCEPT ![h] = q]
  BY <1>1, <1>3, <1>4, <1>5 DEF HopInv
<1>7. /\ reader' \in [Hops -> ReadersOf(stream)] /\ reader'[h] = q
      /\ \A g \in Hops \ {h} : reader'[g] = reader[g]
  BY <1>2, <1>6
<1>8. reader[h].state = "reading"
  BY <1>1 DEF CanRead
<1>9. Hops' = Hops
  BY <1>1 DEF Hops
<1>10. /\ wire' \in [Hops -> Wires] /\ wire'[1] = wire[1]
       /\ \A g \in Hops : wire[g].end = "reset" => wire'[g].end = "reset"
       /\ 2 \in Hops => (\E i \in 0..Len(reader[1].out) : SecondHas(i))'
  <2>1. CASE h = 1 /\ 2 \in Hops
    <3>1. PassesOn(h) <=> wire[2].end = "open"
      BY <2>1 DEF PassesOn
    <3>2. PassedOn(x, r.parts) = FlattenSeq(Parts(stream, 2, n + 1))
      BY <1>3, <1>4, <2>1 DEF x
    <3>3. IF wire[2].end = "open" THEN Sends(2, FlattenSeq(Parts(stream, 2, n + 1))) ELSE wire' = wire
      BY <1>1, <1>5, <3>1, <3>2
    <3>4. n \in Nat /\ n = Len(reader[1].out) /\ n + 1 \in 1..Writable(stream)
          /\ reader'[2] = reader[2] /\ Len(reader'[1].out) = n + 1 /\ reader[1].state = "reading"
      BY <1>3, <1>4, <1>7, <1>8, <2>1
    <3> HIDE DEF n
    <3>5. /\ (\E i \in 0..Len(reader[1].out) : SecondHas(i))'
          /\ wire' \in [Hops -> Wires] /\ wire'[1] = wire[1]
          /\ wire'[2].end = wire[2].end
      BY <1>1, <2>1, <3>3, <3>4, SecondGrows
    <3>6. \A g \in Hops : wire[g].end = "reset" => wire'[g].end = "reset"
      BY <1>2, <3>5
    <3> QED BY <3>5, <3>6
  <2>2. CASE h = 1 /\ 2 \notin Hops
    <3>1. wire' = wire
      BY <1>1, <2>2 DEF PassesOn
    <3> QED BY <1>2, <2>2, <3>1
  <2>3. CASE h = 2
    <3>1. wire' = wire /\ reader'[1] = reader[1]
      BY <1>1, <1>2, <1>7, <2>3 DEF PassesOn
    <3>2. PICK i \in 0..Len(reader[1].out) : SecondHas(i)
      BY <2>3 DEF StreamInv
    <3>3. HopInv(stream, 2, wire[2], q, i)
      BY <1>3, <2>3, <3>2 DEF SecondHas
    <3>4. SecondHas(i)'
      BY <1>1, <1>7, <2>3, <3>1, <3>2, <3>3 DEF SecondHas
    <3> QED BY <1>2, <3>1, <3>2, <3>4
  <2> QED BY <1>2, <2>1, <2>2, <2>3
<1>11. HopInv(stream, 1, wire'[1], reader'[1], written)
  <2>1. CASE h = 1
    <3>1. HopInv(stream, 1, wire[1], q, written)
      BY <1>2, <1>3, <2>1
    <3> QED BY <1>7, <1>10, <2>1, <3>1
  <2>2. CASE h # 1
    BY <1>2, <1>7, <1>10, <2>2
  <2> QED BY <2>1, <2>2
<1>12. Refused => Refused'
  BY <1>1, <1>10 DEF Refused, Complete
<1>13. ASSUME NEW g \in Hops PROVE EndInv(g)'
  <2>1. CASE g = h
    <3>1. q.state # "error" /\ (q.state = "end" => Len(q.out) = Len(stream.items))
      BY <1>3, <1>4
    <3> QED BY <1>1, <1>7, <2>1, <3>1 DEF EndInv
  <2>2. CASE g # h
    <3>1. reader'[g] = reader[g]
      BY <1>7, <2>2
    <3> QED BY <1>1, <1>2, <1>10, <1>12, <1>13, <3>1, EndsStay
  <2> QED BY <2>1, <2>2
<1>14. wire'[1].end = "fin" => written' = Writable(stream)
  BY <1>1, <1>10 DEF StreamInv
<1> QED BY <1>1, <1>7, <1>9, <1>10, <1>11, <1>13, <1>14 DEF StreamInv

\* A reader stops.
LEMMA StopKeeps ==
    ASSUME StreamInv, NEW h \in Hops, reader[h].state = "reading", NEW x \in {"end", "error"},
           Stops(h, [reader[h] EXCEPT !.state = x]),
           x = "end" => Broken(h) \/ Len(reader[h].out) = Len(stream.items),
           x = "error" => Broken(h) \/ Refused
    PROVE  StreamInv'
<1> DEFINE q == [reader[h] EXCEPT !.state = x]
<1>1. /\ 1 \in Hops /\ \A g \in Hops : g \in {1, 2}
      /\ reader \in [Hops -> ReadersOf(stream)] /\ wire \in [Hops -> Wires]
      /\ HopInv(stream, 1, wire[1], reader[1], written)
      /\ \A g \in Hops : EndInv(g)
  BY TwoHops DEF StreamInv
<1>2. /\ reader' = [reader EXCEPT ![h] = q]
      /\ wire' = IF PassesOn(h) THEN [wire EXCEPT ![2].end = "fin"] ELSE wire
      /\ stream' = stream /\ written' = written
  BY DEF Stops
<1>3. ASSUME NEW k, HopInv(stream, h, wire[h], reader[h], k)
      PROVE  HopInv(stream, h, wire[h], q, k) /\ q.state = x /\ q.out = reader[h].out
             /\ q \in ReadersOf(stream)
  <2> DEFINE o == reader[h]
  <2>1. HopInv(stream, h, wire[h], o, k)
    BY <1>3
  <2> HIDE DEF o
  <2>2. q = [o EXCEPT !.state = x]
    BY DEF o
  <2> HIDE DEF q
  <2>3. HopInv(stream, h, wire[h], q, k) /\ q.state = x /\ q.out = o.out /\ q \in ReadersOf(stream)
    BY <2>1, <2>2, StopsThere
  <2> QED BY <2>3 DEF o
<1>4. PICK k \in 0..Writable(stream) : HopInv(stream, h, wire[h], reader[h], k)
  BY TwoHops
<1>5. q.state = x /\ q.out = reader[h].out /\ q \in ReadersOf(stream)
  BY <1>3, <1>4
<1> HIDE DEF q
<1>6. /\ reader' \in [Hops -> ReadersOf(stream)] /\ reader'[h] = q
      /\ \A g \in Hops \ {h} : reader'[g] = reader[g]
  BY <1>1, <1>2, <1>5
<1>7. \A g \in Hops : reader'[g].out = reader[g].out
  BY <1>5, <1>6
<1>8. /\ wire' \in [Hops -> Wires] /\ wire'[1] = wire[1]
      /\ \A g \in Hops : wire[g].end = "reset" => wire'[g].end = "reset"
      /\ 2 \in Hops => /\ wire'[2].bytes = wire[2].bytes /\ wire'[2].arrived = wire[2].arrived
                       /\ wire'[2] = wire[2] \/ (h = 1 /\ wire[2].end = "open" /\ wire'[2].end = "fin")
  <2>1. CASE PassesOn(h)
    <3>1. h = 1 /\ 2 \in Hops /\ wire[2].end = "open" /\ wire' = [wire EXCEPT ![2].end = "fin"]
      BY <1>2, <2>1 DEF PassesOn
    <3>2. "fin" \in {"fin", "reset"}
      OBVIOUS
    <3>3. /\ wire' \in [Hops -> Wires] /\ (\A g \in Hops \ {2} : wire'[g] = wire[g])
          /\ wire'[2].bytes = wire[2].bytes /\ wire'[2].arrived = wire[2].arrived
          /\ wire'[2].end = "fin"
      BY <1>1, <3>1, <3>2, EndsAt
    <3> QED BY <1>1, <3>1, <3>3
  <2>2. CASE ~PassesOn(h)
    BY <1>1, <1>2, <2>2
  <2> QED BY <2>1, <2>2
<1>9. HopInv(stream, 1, wire'[1], reader'[1], written)
  BY <1>1, <1>3, <1>6, <1>8
<1>10. ASSUME 2 \in Hops PROVE (\E i \in 0..Len(reader[1].out) : SecondHas(i))'
  <2>1. PICK i \in 0..Len(reader[1].out) : SecondHas(i)
    BY <1>10 DEF StreamInv
  <2>2. HopInv(stream, 2, wire[2], reader'[2], i)
    <3>1. HopInv(stream, 2, wire[2], reader[2], i)
      BY <2>1 DEF SecondHas
    <3> QED BY <1>3, <1>6, <1>10, <3>1
  <2>3. HopInv(stream, 2, wire'[2], reader'[2], i)
    <3>1. /\ reader'[2].used <= wire'[2].arrived /\ wire'[2].arrived <= Len(wire'[2].bytes)
          /\ wire'[2] \in Wires /\ wire'[2].bytes = wire[2].bytes
      BY <1>8, <1>10, <2>2 DEF HopInv
    <3> QED BY <2>2, <3>1, SameBytes
  <2>4. wire'[2].end # "reset" => i = Len(reader'[1].out)
    BY <1>1, <1>7, <1>8, <1>10, <2>1 DEF SecondHas
  <2>5. wire'[2].end = "fin" => reader'[1].state # "reading"
    <3>1. CASE h = 1
      BY <1>5, <1>6, <3>1
    <3>2. CASE h # 1
      BY <1>1, <1>6, <1>8, <1>10, <2>1, <3>2 DEF SecondHas
    <3> QED BY <3>1, <3>2
  <2> QED BY <1>1, <1>2, <1>7, <2>1, <2>3, <2>4, <2>5 DEF SecondHas
<1>11. Hops' = Hops
  BY <1>2 DEF Hops
<1>12. Refused => Refused'
  BY <1>2, <1>8 DEF Refused, Complete
<1>13. ASSUME NEW g \in Hops PROVE EndInv(g)'
  <2>1. CASE g = h
    <3>1. Broken(h) => Broken(h)'
      BY <1>8, <1>11 DEF Broken
    <3> QED BY <1>2, <1>5, <1>6, <1>12, <2>1, <3>1 DEF EndInv
  <2>2. CASE g # h
    <3>1. reader'[g] = reader[g]
      BY <1>6, <2>2
    <3> QED BY <1>1, <1>2, <1>8, <1>12, <1>13, <3>1, EndsStay
  <2> QED BY <2>1, <2>2
<1>14. wire'[1].end = "fin" => written' = Writable(stream)
  BY <1>2, <1>8 DEF StreamInv
<1> QED BY <1>2, <1>6, <1>8, <1>9, <1>10, <1>11, <1>13, <1>14 DEF StreamInv

\* Why a reader is cut off: its stream broke off or was given up, or it was all.
LEMMA CutOffIs ==
    ASSUME StreamInv, NEW h \in Hops, IsCutOff(h)
    PROVE  /\ Broken(h) \/ Refused \/ (TakenForEnd(h) /\ Len(reader[h].out) = Len(stream.items))
           /\ Refused => stream.kind = "request"
<1> DEFINE s == stream
           m == Writable(s)
           l == Len(s.items)
           out == reader[h].out
<1>1. /\ s \in Streams /\ Proper(s) /\ m \in Nat /\ l \in Nat \ {0} /\ h \in {1, 2} /\ Native(h)
      /\ 1 \in Hops /\ (s.kind = "request" \/ s.kind = "data")
      /\ HopInv(s, 1, wire[1], reader[1], written)
      /\ wire[1].end = "fin" => written = m
      /\ EndInv(1)
  <2>1. s \in Streams /\ Proper(s) /\ m \in Nat /\ l \in Nat \ {0} /\ h \in {1, 2} /\ Native(h)
      /\ 1 \in Hops
    BY TwoHops DEF StreamInv
  <2>2. s.kind = "request" \/ s.kind = "data"
    BY TwoHops
  <2> QED BY <2>1, <2>2 DEF StreamInv
<1>2. m \in 0..l /\ (s.kind = "data" => m = l)
  BY <1>1, WritableFacts
<1>3. Refused => s.kind = "request"
  BY <1>1, <1>2 DEF Refused, Complete
<1>4. reader[h].state = "reading"
  BY DEF IsCutOff
<1>5. CASE wire[h].end = "reset"
  <2>1. Broken(h)
    BY <1>1, <1>5 DEF Broken
  <2> QED BY <1>3, <2>1
<1>6. CASE wire[h].end = "fin" /\ wire[h].arrived = Len(wire[h].bytes) /\ ~CanRead(h)
  <2>1. ASSUME HopInv(s, h, wire[h], reader[h], m) PROVE Len(out) = m /\ reader[h].parts = << >>
    BY <1>1, <1>4, <1>6, <2>1, NothingLeft
  <2>2. ASSUME Len(out) = l, reader[h].parts = << >> PROVE TakenForEnd(h)
    <3>1. s.kind # "request"
      <4> SUFFICES ASSUME s.kind = "request" PROVE FALSE
        OBVIOUS
      <4>1. PICK k \in 0..m : HopInv(s, h, wire[h], reader[h], k)
        BY TwoHops
      <4>2. Len(out) < l
        BY <1>4, <4>1 DEF HopInv, Reads
      <4> HIDE DEF l
      <4> QED BY <1>1, <2>2, <4>2
    <3>2. out # << >>
      BY <1>1, <2>2, EmptySeq
    <3> QED BY <1>1, <2>2, <3>1, <3>2 DEF TakenForEnd, AtObject
  <2>3. CASE h = 1
    <3>1. HopInv(s, h, wire[h], reader[h], m)
      BY <1>1, <1>6, <2>3
    <3>2. Len(out) = m /\ reader[h].parts = << >>
      BY <2>1, <3>1
    <3>3. CASE m = l
      BY <1>3, <2>2, <3>2, <3>3
    <3>4. CASE m # l
      <4>1. Refused
        BY <1>1, <1>6, <2>3, <3>4 DEF Refused, Complete
      <4> QED BY <1>3, <4>1
    <3> QED BY <3>3, <3>4
  <2>4. CASE h = 2
    <3>1. PICK k \in 0..Len(reader[1].out) : SecondHas(k)
      BY <2>4 DEF StreamInv
    <3>2. /\ HopInv(s, 2, wire[2], reader[2], k) /\ k = Len(reader[1].out)
          /\ reader[1].state # "reading"
      BY <1>6, <2>4, <3>1 DEF SecondHas
    <3>3. reader[1].state \in {"reading", "end", "error"}
      BY <1>1 DEF HopInv, ReadersOf
    <3>4. Broken(1) => Broken(h)
      <4>1. \A g \in {1, 2} : g <= 1 => g <= h
        BY <2>4
      <4>2. \A g \in Hops : g \in {1, 2}
        BY TwoHops
      <4> QED BY <4>1, <4>2 DEF Broken
    <3>5. Broken(1) \/ Refused \/ Len(reader[1].out) = l
      BY <1>1, <3>2, <3>3 DEF EndInv
    <3>6. ASSUME Len(reader[1].out) = l PROVE TakenForEnd(h) /\ Len(out) = l
      <4>1. k \in 0..m /\ k = l
        BY <3>2, <3>6 DEF HopInv
      <4> HIDE DEF m, l
      <4>2. k = m /\ m = l
        BY <1>1, <1>2, <4>1
      <4>3. Len(out) = m /\ reader[h].parts = << >>
        BY <2>1, <2>4, <3>2, <4>2
      <4> QED BY <2>2, <4>2, <4>3
    <3> QED BY <1>3, <3>4, <3>5, <3>6
  <2> QED BY <1>1, <2>3, <2>4
<1> QED BY <1>5, <1>6 DEF IsCutOff

\* A reader that is cut off behind an object ends.
LEMMA ReadToTheEndKeeps == ASSUME StreamInv, NEW h \in Hops, ReadToTheEnd(h) PROVE StreamInv'
<1>1. IsCutOff(h) /\ TakenForEnd(h) /\ Stops(h, [reader[h] EXCEPT !.state = "end"])
  BY DEF ReadToTheEnd
<1>2. stream.kind = "data" /\ reader[h].state = "reading"
  BY <1>1 DEF TakenForEnd, AtObject, IsCutOff
<1>3. Broken(h) \/ Len(reader[h].out) = Len(stream.items)
  BY <1>1, <1>2, CutOffIs
<1> DEFINE x == "end"
<1>4. x \in {"end", "error"} /\ x # "error"
  OBVIOUS
<1> QED BY <1>1, <1>2, <1>3, <1>4, StopKeeps

\* The same of one that fails.
LEMMA ReadFailsKeeps == ASSUME StreamInv, NEW h \in Hops, ReadFails(h) PROVE StreamInv'
<1>1. IsCutOff(h) /\ ~TakenForEnd(h) /\ Stops(h, [reader[h] EXCEPT !.state = "error"])
  BY DEF ReadFails
<1>2. reader[h].state = "reading"
  BY <1>1 DEF IsCutOff
<1>3. Broken(h) \/ Refused
  BY <1>1, CutOffIs
<1> DEFINE x == "error"
<1>4. x \in {"end", "error"} /\ x # "end"
  OBVIOUS
<1> QED BY <1>1, <1>2, <1>3, <1>4, StopKeeps

\* Nothing that this implementation reads of what it wrote is rubbish.
LEMMA NoRubbish == ASSUME StreamInv, NEW h \in Hops PROVE ~ReadRubbish(h)
<1> SUFFICES ASSUME ReadRubbish(h) PROVE FALSE
  OBVIOUS
<1> DEFINE r == WithBytes(h, reader[h], Need(h))
<1>1. CanRead(h) /\ (IsNoInt(h, r) \/ (IsComplete(h, r) /\ ~Item(h, r.parts).ok))
  BY DEF ReadRubbish
<1>2. PICK k \in 0..Writable(stream) : HopInv(stream, h, wire[h], reader[h], k)
  BY TwoHops
<1>3. ~IsNoInt(h, r)
  BY <1>1, <1>2, MoreIsRead DEF StreamInv
<1>4. IsComplete(h, r) => Item(h, r.parts).ok
  <2> SUFFICES ASSUME IsComplete(h, r) PROVE Item(h, r.parts).ok
    OBVIOUS
  <2> DEFINE y == Item(h, r.parts)
             x == Got(stream, h, Len(reader[h].out) + 1)
  <2>1. y = Parsed(x, << >>)
    BY <1>1, <1>2, ItemCompletes
  <2> HIDE DEF x, y
  <2>2. y.ok
    BY <2>1 DEF Parsed
  <2> QED BY <2>2 DEF y
<1> QED BY <1>1, <1>3, <1>4

\* Every step keeps the invariant.
LEMMA StreamStep == ASSUME StreamInv, [Next]_vars PROVE StreamInv'
<1>1. CASE UNCHANGED vars
  BY <1>1 DEF vars, StreamInv, Hops, SecondHas, EndInv, Broken, Refused, Complete
<1>2. CASE Write
  BY <1>2, WriteItemKeeps, RefuseItemKeeps, FinishKeeps DEF Write
<1>3. CASE Transport
  BY <1>3, ArriveByteKeeps, BreakOffKeeps DEF Transport
<1>4. CASE Read
  BY <1>4, ReadPartKeeps, ReadItemKeeps, NoRubbish, ReadToTheEndKeeps, ReadFailsKeeps DEF Read
<1>5. CASE Over
  BY <1>1, <1>5 DEF Over
<1> QED BY <1>1, <1>2, <1>3, <1>4, <1>5 DEF Next

----------------------------------------------------------------------------
(* The theorems *)

\* At first nothing is written, and every reader is before its first item.
LEMMA StreamStarts == ASSUME Init, Proper(stream) PROVE StreamInv
<1> DEFINE none == << >>
           m == Writable(stream)
           l == Len(stream.items)
<1>1. /\ stream \in Streams /\ written = 0
      /\ wire = [h \in Hops |-> [bytes |-> none, arrived |-> 0, end |-> "open"]]
      /\ reader = [h \in Hops |-> [state |-> "reading", used |-> 0, parts |-> none, part |-> none, out |-> none]]
  BY DEF Init, Reading
<1>2. /\ 1 \in Hops /\ (\A h \in Hops : h \in DOMAIN stream.readers)
      /\ m \in Nat /\ l \in Nat \ {0}
  <2>1. Hops = DOMAIN stream.readers
    BY DEF Hops
  <2> QED BY <1>1, <2>1, ProperHops, EncsTyped, ItemCount
<1>3. none \in Octets /\ none \in Seq(Octets) /\ none \in Seq(GotsOf(stream)) /\ Len(none) = 0
  BY EmptySeq, OctetFacts
<1> HIDE DEF none
<1>4. wire \in [Hops -> Wires] /\ reader \in [Hops -> ReadersOf(stream)]
  BY <1>1, <1>3 DEF Wires, ReadersOf
<1>5. ASSUME NEW h \in Hops PROVE HopInv(stream, h, wire[h], reader[h], 0)
  <2> DEFINE enc == Encs(stream, h)
             all == Whole(stream, h)
             r == reader[h]
             w == wire[h]
  <2>1. /\ enc \in Seq(Octets) /\ all \in Octets /\ all = FlattenSeq(enc)
    BY <1>1, <1>2, EncsTyped DEF Whole
  <2>2. Left(enc, 0) = all
    <3>1. Octets = Seq(Byte)
      BY DEF Octets
    <3> QED BY <2>1, <3>1, LeftStep
  <2>3. From(all, 0 + 1) = all
    <3> HIDE DEF all
    <3> QED BY <2>1, SubSeqFull DEF From, Octets
  <2>4. FlattenSeq(SubSeq(enc, 1, 0)) = << >>
    <3> HIDE DEF enc
    <3>1. SubSeq(enc, 1, 0) = << >>
      BY <2>1
    <3>2. FlattenSeq(<< >>) = << >>
      BY DEF FlattenSeq
    <3> QED BY <3>1, <3>2
  <2>5. /\ r.state = "reading" /\ r.used = 0 /\ r.parts = none /\ r.part = none /\ r.out = none
        /\ w.bytes = none /\ w.arrived = 0
        /\ r \in ReadersOf(stream) /\ w \in Wires
    BY <1>1, <1>4
  <2> HIDE DEF r, w, enc, all
  <2>6. Between(stream, h, r)
    BY <1>3, <2>2, <2>3, <2>5 DEF Between, enc, all, none
  <2>7. Reads(stream, h, r)
    <3>1. 0 < l
      <4> HIDE DEF l
      <4> QED BY <1>2
    <3> QED BY <1>3, <2>5, <2>6, <3>1 DEF Reads
  <2>8. 0 \in 0..m
    <3> HIDE DEF m
    <3> QED BY <1>2
  <2>9. HopInv(stream, h, w, r, 0)
    <3>1. w.bytes = FlattenSeq(SubSeq(Encs(stream, h), 1, 0))
      BY <2>4, <2>5 DEF none, enc
    <3>2. /\ Len(r.part) = 0 /\ Len(r.out) = 0 /\ Len(w.bytes) = 0 /\ w.arrived = 0 /\ r.used = 0
      BY <1>3, <2>5
    <3> QED BY <2>5, <2>7, <2>8, <3>1, <3>2 DEF HopInv
  <2> QED BY <2>9 DEF r, w
<1>6. \A h \in Hops : wire[h].end = "open" /\ reader[h].state = "reading" /\ Len(reader[h].out) = 0
  BY <1>1, <1>3
<1>7. 2 \in Hops => SecondHas(0)
  BY <1>5, <1>2, <1>6 DEF SecondHas
<1>8. \A h \in Hops : EndInv(h)
  BY <1>6 DEF EndInv
<1> QED BY <1>1, <1>2, <1>4, <1>5, <1>6, <1>7, <1>8 DEF StreamInv

\* What is written to a proper stream is read from it: the bytes of every stream
\* are those of its items, and every reader is between two of them or within one
\* (moqt-core/src/stream reads in pieces what moqt-core/src/wire writes at once).
THEOREM StreamInvariant == Spec => [](Proper(stream) => StreamInv)
<1>1. Init => (Proper(stream) => StreamInv)
  BY StreamStarts
<1>2. ASSUME Proper(stream) => StreamInv, [Next]_vars PROVE (Proper(stream) => StreamInv)'
  <2>1. stream' = stream
    BY <1>2 DEF Next, vars, Write, Transport, Read, Over, WriteItem, RefuseItem, Finish, ArriveByte,
                BreakOff, ReadPart, ReadItem, ReadRubbish, ReadToTheEnd, ReadFails, Stops
  <2> QED BY <1>2, <2>1, StreamStep
<1> QED BY <1>1, <1>2, PTL DEF Spec

\* A reader that reads knows what comes next.
LEMMA ReadsSomething ==
    ASSUME StreamInv, NEW h \in Hops, reader[h].state = "reading"
    PROVE  Plan(h, reader[h].parts) # Nothing
<1> DEFINE r == reader[h]
           n == Len(r.out)
           m == Writable(stream)
           c == Parts(stream, h, n + 1)
           l == Len(c)
<1>1. stream \in Streams /\ Proper(stream) /\ h \in DOMAIN stream.readers /\ m \in Nat
  BY TwoHops DEF StreamInv
<1>2. PICK k \in 0..m : HopInv(stream, h, wire[h], r, k)
  BY TwoHops
<1>3. Reads(stream, h, r) /\ r \in ReadersOf(stream) /\ n \in Nat
      /\ \A i \in 1..n : r.out[i] = Got(stream, h, i)
  BY <1>1, <1>2, BytesOfHop DEF HopInv
<1>4. CASE Between(stream, h, r)
  BY <1>4, FirstPlan DEF Between, AnInt, Nothing
<1>5. CASE ~Between(stream, h, r)
  <2>1. n < m
    BY <1>3, <1>5 DEF Reads
  <2>2. PICK j \in 0..(l - 1) : Within(stream, h, r, j)
    BY <1>3, <1>5 DEF Reads
  <2>3. n + 1 \in 1..m
    <3> HIDE DEF n, m
    <3> QED BY <1>1, <1>3, <2>1
  <2>4. At(h, n + 1)
    <3>1. (n + 1) - 1 = n
      BY <1>3
    <3>2. r.out \in Seq(GotsOf(stream))
      BY <1>3 DEF ReadersOf
    <3> QED BY <1>3, <3>1, <3>2 DEF At
  <2>5. c \in Seq(Octets) /\ l \in Nat \ {0}
    BY <1>1, <2>3, PartsTyped
  <2>6. \A i \in 0..l : PlanFits(Plan(h, SubSeq(c, 1, i)), c, i)
    BY <1>1, <2>3, <2>4, ItemIsRead
  <2>7. r.parts = SubSeq(c, 1, j)
    BY <2>2 DEF Within
  <2>8. j \in 0..l /\ j # l
    <3> HIDE DEF l
    <3> QED BY <2>2, <2>5
  <2>9. PlanFits(Plan(h, r.parts), c, j)
    BY <2>6, <2>7, <2>8
  <2> QED BY <2>8, <2>9 DEF PlanFits, Nothing, AnInt, Bytes
<1> QED BY <1>4, <1>5

\* Every reader of a proper stream is between two reads of an item that it has not
\* completed, and has used no byte that did not arrive (the read_exact calls of
\* read_message_frame, read_subgroup_header and read_object).
THEOREM StreamTypeCorrect == Spec => [](Proper(stream) => TypeOK)
<1>1. ASSUME StreamInv PROVE TypeOK
  <2>1. stream \in Streams /\ written \in 0..Len(stream.items)
    <3> DEFINE m == Writable(stream)
               l == Len(stream.items)
    <3>1. stream \in Streams /\ written \in 0..m /\ l \in Nat
      BY <1>1, TwoHops DEF StreamInv
    <3>2. m \in 0..l
      BY <1>1, WritableFacts DEF StreamInv
    <3> HIDE DEF m, l
    <3>3. written \in 0..l
      BY <3>1, <3>2
    <3> QED BY <3>1, <3>3 DEF l
  <2>2. ASSUME NEW h \in Hops
        PROVE  /\ wire[h].end \in {"open", "fin", "reset"}
               /\ wire[h].arrived <= Len(wire[h].bytes)
               /\ \A i \in DOMAIN wire[h].bytes : wire[h].bytes[i] \in Byte
               /\ ReaderOK(h)
    <3>1. PICK k \in 0..Writable(stream) : HopInv(stream, h, wire[h], reader[h], k)
      BY <1>1, TwoHops
    <3>2. wire[h] \in Wires /\ reader[h] \in ReadersOf(stream) /\ Len(reader[h].part) <= 1
          /\ reader[h].used <= wire[h].arrived /\ wire[h].arrived <= Len(wire[h].bytes)
      BY <3>1 DEF HopInv
    <3>3. wire[h].end \in {"open", "fin", "reset"} /\ wire[h].bytes \in Octets
          /\ reader[h].state \in {"reading", "end", "error"}
      BY <3>2 DEF Wires, ReadersOf
    <3>4. \A i \in DOMAIN wire[h].bytes : wire[h].bytes[i] \in Byte
      <4> DEFINE b == wire[h].bytes
      <4>1. b \in Octets
        BY <3>3
      <4> HIDE DEF b
      <4>2. \A i \in DOMAIN b : b[i] \in Byte
        BY <4>1 DEF Octets
      <4> QED BY <4>2 DEF b
    <3>5. ReaderOK(h)
      BY <1>1, <3>2, <3>3, ReadsSomething DEF ReaderOK
    <3> QED BY <3>2, <3>3, <3>4, <3>5
  <2> QED BY <2>1, <2>2 DEF TypeOK
<1> QED BY <1>1, StreamInvariant, PTL

\* A reader of a proper stream fails only if the stream broke off or its writer
\* gave up: the native decoders take all that the encoders write, at every length
\* of an integer and of a list, and no reader loses its place.
THEOREM NothingRefusedHolds == Spec => [](Proper(stream) => NothingRefused)
<1>1. StreamInv => NothingRefused
  BY DEF StreamInv, EndInv, NothingRefused
<1> QED BY <1>1, StreamInvariant, PTL

\* A reader of a proper stream that ends well has read all of it: read_object's
\* None never stands for an object that was on its way.
THEOREM EndsCompleteHolds == Spec => [](Proper(stream) => EndsComplete)
<1>1. StreamInv => EndsComplete
  BY DEF StreamInv, EndInv, EndsComplete
<1> QED BY <1>1, StreamInvariant, PTL

\* A SUBSCRIBE means the same to the publisher, but for its number.
LEMMA RelayedIsMeant ==
    ASSUME NEW h, Native(h), h = 2, NEW m \in Messages, m.type = MSG_SUBSCRIBE, m.fields[2] = U(0)
    PROVE  Meant(h, m).fields = Meant(h, RelaySubscribe(m)).fields
<1> DEFINE r == RelaySubscribe(m)
           f == m.fields
           g == r.fields
           none == << >>
           a == [[f EXCEPT ![5] = none] EXCEPT ![1] = RelayRequestId]
           b == [[g EXCEPT ![5] = none] EXCEPT ![1] = RelayRequestId]
<1>1. /\ r.type = MSG_SUBSCRIBE
      /\ r = [type |-> MSG_SUBSCRIBE, fields |-> g]
      /\ g = <<RelayRequestId, U(0), f[3], f[4], f[5]>>
      /\ m = [type |-> MSG_SUBSCRIBE, fields |-> f]
      /\ f \in FieldsOf(SubscribeFields) /\ Len(f) = 5
  BY RelayedSubscribe
<1>2. f \in Seq(UNION {FieldValue(kind) : kind \in Kinds})
  BY <1>1 DEF FieldsOf
<1> HIDE DEF r, f, g, none
<1>3. DOMAIN f = 1..5 /\ f = [i \in 1..5 |-> f[i]]
  BY <1>1, <1>2
<1>4. DOMAIN g = 1..5 /\ g = [i \in 1..5 |-> g[i]]
      /\ g[1] = RelayRequestId /\ g[2] = U(0) /\ g[3] = f[3] /\ g[4] = f[4] /\ g[5] = f[5]
  BY <1>1
<1>5. a = [i \in 1..5 |-> IF i = 1 THEN RelayRequestId ELSE IF i = 5 THEN none ELSE f[i]]
  BY <1>3
<1>6. b = [i \in 1..5 |-> IF i = 1 THEN RelayRequestId ELSE IF i = 5 THEN none ELSE g[i]]
  BY <1>4
<1>7. \A i \in 1..5 : i # 1 /\ i # 5 => f[i] = g[i]
  <2>1. f[2] = U(0)
    BY DEF f
  <2> QED BY <1>4, <2>1
<1>8. a = b
  <2> HIDE DEF a, b
  <2> QED BY <1>5, <1>6, <1>7
<1>9. Meant(h, m).fields = a
  <2>1. WithoutParameters(m) = [m EXCEPT !.fields[5] = none]
    BY DEF WithoutParameters, HasParameters, none
  <2>0. HasParameters(m)
    BY DEF HasParameters
  <2> DEFINE e == [f EXCEPT ![5] = none]
  <2>2. [m EXCEPT !.fields[5] = none] = [type |-> MSG_SUBSCRIBE, fields |-> e]
    BY <1>1
  <2>3. Meant(h, m) = [WithoutParameters(m) EXCEPT !.fields[1] = RelayRequestId]
    BY <2>0 DEF Meant
  <2> DEFINE w == WithoutParameters(m)
  <2> HIDE DEF e, w
  <2>4. w = [type |-> MSG_SUBSCRIBE, fields |-> e]
    BY <2>1, <2>2 DEF w
  <2>5. Meant(h, m) = [w EXCEPT !.fields[1] = RelayRequestId]
    BY <2>3 DEF w
  <2>6. Meant(h, m).fields = [e EXCEPT ![1] = RelayRequestId]
    BY <2>4, <2>5
  <2> QED BY <2>6 DEF e
<1>10. Meant(h, r).fields = b
  <2>1. WithoutParameters(r) = [r EXCEPT !.fields[5] = none]
    BY <1>1 DEF WithoutParameters, HasParameters, none
  <2>0. HasParameters(r)
    BY <1>1 DEF HasParameters
  <2> DEFINE e == [g EXCEPT ![5] = none]
  <2>2. [r EXCEPT !.fields[5] = none] = [type |-> MSG_SUBSCRIBE, fields |-> e]
    BY <1>1
  <2>3. Meant(h, r) = [WithoutParameters(r) EXCEPT !.fields[1] = RelayRequestId]
    BY <2>0 DEF Meant
  <2> DEFINE w == WithoutParameters(r)
  <2> HIDE DEF e, w
  <2>4. w = [type |-> MSG_SUBSCRIBE, fields |-> e]
    BY <2>1, <2>2 DEF w
  <2>5. Meant(h, r) = [w EXCEPT !.fields[1] = RelayRequestId]
    BY <2>3 DEF w
  <2>6. Meant(h, r).fields = [e EXCEPT ![1] = RelayRequestId]
    BY <2>4, <2>5
  <2> QED BY <2>6 DEF e
<1> QED BY <1>8, <1>9, <1>10 DEF r

\* A header is the same but for the bit of its first object.
LEMMA UnsaidIsSame ==
    ASSUME NEW x \in Headers
    PROVE  x = Unsaid(x) \/ x = FirstObject(Unsaid(x))
<1> DEFINE u == Unsaid(x)
<1>1. u = [properties |-> x.properties, firstObject |-> FALSE, endOfGroup |-> x.endOfGroup,
           alias |-> x.alias, group |-> x.group, subgroup |-> x.subgroup, priority |-> x.priority]
  BY DEF Unsaid
<1>2. /\ x = [properties |-> x.properties, firstObject |-> x.firstObject, endOfGroup |-> x.endOfGroup,
              alias |-> x.alias, group |-> x.group, subgroup |-> x.subgroup, priority |-> x.priority]
      /\ x.firstObject \in BOOLEAN
  BY DEF Headers
<1> HIDE DEF u
<1>3. FirstObject(u) = [properties |-> x.properties, firstObject |-> TRUE, endOfGroup |-> x.endOfGroup,
              alias |-> x.alias, group |-> x.group, subgroup |-> x.subgroup, priority |-> x.priority]
  <2>1. "firstObject" \in DOMAIN u
    BY <1>1
  <2>2. FirstObject(u) = [u EXCEPT !.firstObject = TRUE]
    BY <2>1 DEF FirstObject
  <2> QED BY <1>1, <2>2
<1>4. CASE x.firstObject = TRUE
  BY <1>2, <1>3, <1>4 DEF u
<1>5. CASE x.firstObject = FALSE
  BY <1>1, <1>2, <1>5 DEF u
<1> QED BY <1>2, <1>4, <1>5

\* What is read of an item is what it says.
LEMMA GotIsSame ==
    ASSUME StreamInv, NEW h \in Hops, NEW i \in 1..Writable(stream)
    PROVE  SameItem(h, stream.items[i], Got(stream, h, i))
<1> DEFINE x == stream.items[i]
           g == Got(stream, h, i)
<1>1. /\ stream \in Streams /\ Proper(stream) /\ h \in {1, 2} /\ Native(h) /\ h \in DOMAIN stream.readers
      /\ stream.kind = "request" \/ stream.kind = "data"
  <2>1. stream.kind = "request" \/ stream.kind = "data"
    BY TwoHops
  <2> QED BY <2>1, TwoHops DEF StreamInv
<1>2. i \in 1..Len(stream.items) /\ ~GivesUp(stream, i)
  <2> DEFINE m == Writable(stream)
             l == Len(stream.items)
  <2>1. m \in 0..l /\ \A j \in 1..m : ~GivesUp(stream, j)
    BY <1>1, WritableFacts
  <2>2. l \in Nat
    BY <1>1, ItemCount
  <2> HIDE DEF m, l
  <2>3. i \in 1..m
    BY DEF m
  <2>4. i \in 1..l
    BY <2>1, <2>2, <2>3
  <2> QED BY <2>1, <2>3, <2>4 DEF l
<1>3. CASE stream.kind = "request"
  <2>1. RequestStream(stream)
    BY <1>1, <1>3 DEF Proper, DataStream
  <2>2. x \in Messages /\ Encodable(x)
    BY <1>2, <1>3, <2>1 DEF RequestStream, GivesUp
  <2>3. CASE h = 2 /\ x.type = MSG_SUBSCRIBE
    <3>1. g = RelaySubscribe(x)
      BY <1>3, <2>3 DEF Got
    <3>2. Len(stream.readers) = 2
      <4>1. stream.readers \in {<<"native">>, <<"native", "native">>}
        BY <1>1 DEF Proper
      <4> QED BY <1>1, <2>3, <4>1
    <3>3. x.fields[2] = U(0)
      BY <1>2, <2>1, <2>2, <2>3, <3>2 DEF RequestStream
    <3>4. g.type = x.type
      BY <2>2, <2>3, <3>1, RelayedSubscribe
    <3>5. Meant(h, x).fields = Meant(h, g).fields
      BY <1>1, <2>2, <2>3, <3>1, <3>3, RelayedIsMeant
    <3> QED BY <1>3, <3>4, <3>5 DEF SameItem
  <2>4. CASE ~(h = 2 /\ x.type = MSG_SUBSCRIBE)
    <3>1. g = x
      BY <1>3, <2>4 DEF Got
    <3> HIDE DEF g, x
    <3> QED BY <1>3, <3>1 DEF SameItem, g, x
  <2> QED BY <2>3, <2>4
<1>4. CASE stream.kind = "data"
  <2>1. stream.kind # "request"
    BY <1>4
  <2>2. DataStream(stream)
    BY <1>1, <1>4 DEF Proper, RequestStream
  <2>3. CASE i = 1
    <3>1. x \in Headers /\ g = Unsaid(x)
      BY <2>1, <2>2, <2>3 DEF DataStream, Got
    <3>2. x \in {g, FirstObject(g)}
      BY <3>1, UnsaidIsSame
    <3> HIDE DEF x, g
    <3>3. MeantData(h, x) \in {MeantData(h, g), MeantData(h, FirstObject(g))}
      BY <3>2
    <3> QED BY <2>1, <3>3 DEF SameItem, x, g
  <2>4. CASE i # 1
    <3>1. g = x
      BY <2>1, <2>4 DEF Got
    <3> HIDE DEF x, g
    <3>2. MeantData(h, x) \in {MeantData(h, g), MeantData(h, FirstObject(g))}
      BY <3>1
    <3> QED BY <2>1, <3>2 DEF SameItem, x, g
  <2> QED BY <2>3, <2>4
<1> QED BY <1>1, <1>3, <1>4

\* No reader has more items than were written.
LEMMA ReadIsWritten ==
    ASSUME StreamInv, NEW h \in Hops, NEW i \in DOMAIN reader[h].out
    PROVE  i <= written /\ i \in 1..Writable(stream) /\ reader[h].out[i] = Got(stream, h, i)
<1> DEFINE s == stream
           out == reader[h].out
           n == Len(out)
           m == Writable(s)
<1>1. PICK k \in 0..m : HopInv(s, h, wire[h], reader[h], k)
  BY TwoHops
<1>2. /\ s \in Streams /\ Proper(s) /\ h \in {1, 2} /\ h \in DOMAIN s.readers /\ m \in Nat
      /\ written \in 0..m /\ 1 \in DOMAIN s.readers
  BY TwoHops DEF StreamInv
<1>3. n \in Nat /\ n <= m /\ \A j \in 1..n : out[j] = Got(s, h, j)
  <2>1. n \in Nat
    BY <1>1, <1>2, BytesOfHop
  <2>2. n <= k /\ \A j \in 1..n : out[j] = Got(s, h, j)
    BY <1>1 DEF HopInv
  <2> HIDE DEF m, n
  <2> QED BY <1>1, <1>2, <2>1, <2>2
<1>4. i \in 1..n
  <2>1. out \in Seq(GotsOf(s))
    BY <1>1 DEF HopInv, ReadersOf
  <2> QED BY <2>1, LenProperties
<1>5. n <= written
  <2>1. Len(reader[1].out) <= written /\ Len(reader[1].out) \in Nat
    BY TwoHops DEF StreamInv, HopInv
  <2>2. CASE h = 1
    BY <2>1, <2>2
  <2>3. CASE h = 2
    <3>1. PICK j \in 0..Len(reader[1].out) : SecondHas(j)
      BY <2>3 DEF StreamInv
    <3>2. n <= j
      BY <2>3, <3>1 DEF SecondHas, HopInv
    <3> DEFINE a == Len(reader[1].out)
    <3>3. a \in Nat /\ a <= written /\ j \in 0..a
      BY <2>1, <3>1
    <3> HIDE DEF n, a, m
    <3> QED BY <1>2, <1>3, <3>2, <3>3
  <2> QED BY <1>2, <2>2, <2>3
<1>6. i <= written /\ i \in 1..m
  <2> HIDE DEF n, m
  <2> QED BY <1>2, <1>3, <1>4, <1>5
<1> QED BY <1>3, <1>4, <1>6

\* Whatever the pieces a proper stream arrives in and wherever it breaks off, what
\* its readers hand out is a prefix of what was written, item by item, also behind
\* the relay, which reads it and writes it again.
THEOREM ReadAsWrittenHolds == Spec => [](Proper(stream) => ReadAsWritten)
<1>1. StreamInv => ReadAsWritten
  BY GotIsSame, ReadIsWritten DEF ReadAsWritten
<1> QED BY <1>1, StreamInvariant, PTL

\* Nothing is left out of parameters that this implementation knows.
LEMMA KeepsAll == ASSUME NEW ps \in ParameterLists PROVE ParametersKept(ps) = ps
<1> DEFINE n == Len(ps)
           f == [i \in 0..n |-> SubSeq(ps, 1, i)]
           Step(g, i) == IF i = 0 THEN << >>
                         ELSE IF ps[i].type \in {9, 16, 33} THEN Append(g[i - 1], ps[i]) ELSE g[i - 1]
           c == CHOOSE g : g = [i \in 0..n |-> Step(g, i)]
<1>1. ps \in Seq(KeptParameter) /\ n \in Nat /\ \A i \in 1..n : ps[i] \in KeptParameter
  BY ElementOfSeq DEF ParameterLists
<1>2. \A i \in 1..n : ps[i].type \in {9, 16, 33}
  BY <1>1 DEF KeptParameter, PARAM_SUBSCRIPTION_FILTER, PARAM_LARGEST_OBJECT, PARAM_FORWARD
<1>3. ParametersKept(ps) = c[n]
  BY DEF ParametersKept
<1>4. ASSUME NEW i \in 1..n PROVE SubSeq(ps, 1, i) = Append(SubSeq(ps, 1, i - 1), ps[i])
  BY <1>1
<1>5. f = [i \in 0..n |-> Step(f, i)]
  <2>1. ASSUME NEW i \in 0..n PROVE f[i] = Step(f, i)
    <3>1. CASE i = 0
      BY <1>1, <3>1
    <3>2. CASE i # 0
      <4>1. i \in 1..n /\ i - 1 \in 0..n
        BY <1>1, <3>2
      <4> QED BY <1>2, <1>4, <3>2, <4>1
    <3> QED BY <3>1, <3>2
  <2> QED BY <2>1
<1>6. c = [i \in 0..n |-> Step(c, i)]
  <2> HIDE DEF f
  <2> QED BY <1>5
<1> HIDE DEF c, f
<1>7. c[0] = f[0]
  BY <1>1, <1>5, <1>6
<1>8. \A i \in 1..n : c[i - 1] = f[i - 1] => c[i] = f[i]
  <2> TAKE i \in 1..n
  <2> HAVE c[i - 1] = f[i - 1]
  <2>1. i \in 0..n /\ i # 0
    BY <1>1
  <2>2. c[i] = Step(c, i) /\ f[i] = Step(f, i)
    BY <1>5, <1>6, <2>1
  <2> QED BY <2>1, <2>2
<1>9. c[n] = f[n]
  BY <1>1, <1>7, <1>8, AgreeAtTheEnd
<1>10. f[n] = ps
  <2>1. f[n] = SubSeq(ps, 1, n)
    BY <1>1 DEF f
  <2> QED BY <1>1, <2>1, SubSeqFull
<1> QED BY <1>3, <1>9, <1>10

\* The parameters of what is read are those of what was written (encode_parameters and
\* decode_parameters).
THEOREM ParametersSurviveHolds == Spec => [](Proper(stream) => ParametersSurvive)
<1>1. ASSUME StreamInv, NEW i \in DOMAIN reader[1].out, stream.kind = "request",
             HasParameters(reader[1].out[i])
      PROVE  ParametersOf(reader[1].out[i]) = ParametersKept(ParametersOf(stream.items[i]))
  <2> DEFINE x == stream.items[i]
             g == reader[1].out[i]
  <2>1. /\ g = Got(stream, 1, i) /\ i \in 1..Writable(stream)
        /\ stream \in Streams /\ Proper(stream)
    <3>1. 1 \in Hops
      BY <1>1, TwoHops
    <3> QED BY <1>1, <3>1, ReadIsWritten DEF StreamInv
  <2>2. x \in Messages
    <3>1. Writable(stream) \in 0..Len(stream.items) /\ Len(stream.items) \in Nat
      BY <2>1, ItemCount, WritableFacts
    <3>2. i \in 1..Len(stream.items)
      <4> DEFINE m == Writable(stream)
                 l == Len(stream.items)
      <4>1. i \in 1..m /\ m \in 0..l /\ l \in Nat
        BY <2>1, <3>1
      <4> HIDE DEF m, l
      <4>2. i \in 1..l
        BY <4>1
      <4> QED BY <4>2 DEF l
    <3>3. RequestStream(stream)
      BY <1>1, <2>1 DEF Proper, DataStream
    <3> QED BY <3>2, <3>3 DEF RequestStream
  <2>3. g = x
    BY <1>1, <2>1 DEF Got
  <2>4. ParametersOf(x) \in ParameterLists
    <3>1. x.type \in {MSG_SUBSCRIBE, MSG_SUBSCRIBE_OK}
      BY <1>1, <2>3 DEF HasParameters
    <3>2. PICK type \in MessageTypes : \E fields \in FieldsOf(Fields(type)) : x = Message(type, fields)
      BY <2>2 DEF Messages
    <3>3. x.type = type /\ x.fields \in FieldsOf(Fields(type))
      BY <3>2 DEF Message
    <3>4. CASE type = MSG_SUBSCRIBE
      <4>1. Fields(type) = <<"int", "int", "namespace", "bytes", "parameters">>
        BY <3>4 DEF Fields, SubscribeFields, MSG_SUBSCRIBE, MSG_SUBSCRIBE_OK, MSG_REQUEST_ERROR,
           MSG_PUBLISH_NAMESPACE, MSG_REQUEST_OK, MSG_PUBLISH_DONE, MSG_SETUP
      <4>2. x.fields[5] \in FieldValue("parameters")
        BY <3>3, <4>1 DEF FieldsOf
      <4> QED BY <3>3, <3>4, <4>2 DEF ParametersOf, FieldValue
    <3>5. CASE type = MSG_SUBSCRIBE_OK
      <4>1. Fields(type) = <<"int", "parameters", "bytes">>
        BY <3>5 DEF Fields, SubscribeOkFields, MSG_SUBSCRIBE, MSG_SUBSCRIBE_OK, MSG_REQUEST_ERROR,
           MSG_PUBLISH_NAMESPACE, MSG_REQUEST_OK, MSG_PUBLISH_DONE, MSG_SETUP
      <4>2. x.fields[2] \in FieldValue("parameters")
        BY <3>3, <4>1 DEF FieldsOf
      <4>3. x.type # MSG_SUBSCRIBE
        BY <3>3, <3>5 DEF MSG_SUBSCRIBE, MSG_SUBSCRIBE_OK
      <4> QED BY <4>2, <4>3 DEF ParametersOf, FieldValue
    <3> QED BY <3>1, <3>3, <3>4, <3>5
  <2> QED BY <2>3, <2>4, KeepsAll
<1>2. StreamInv => ParametersSurvive
  BY <1>1 DEF ParametersSurvive
<1> QED BY <1>2, StreamInvariant, PTL
=============================================================================
