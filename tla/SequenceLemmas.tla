---------------------------- MODULE SequenceLemmas ----------------------------
(***************************************************************************)
(* Numbers and sequences: the least of a set of numbers, which stands in   *)
(* for induction where a statement is about all the elements of a          *)
(* sequence, and what FlattenSeq of the community modules computes.        *)
(***************************************************************************)
EXTENDS SequencesExt, WellFoundedInduction, TLAPS

\* A set of numbers that is not empty has a least one.
LEMMA LeastNumber ==
    ASSUME NEW S \in SUBSET Nat, S # {}
    PROVE  \E n \in S : \A m \in S : n <= m
<1>1. PICK R : IsWellFoundedOn(R, Nat) /\ R = OpToRel(<, Nat)
  BY NatLessThanWellFounded
<1>2. \A x, y \in Nat : x < y => <<x, y>> \in R
  BY <1>1 DEF OpToRel
<1>3. PICK n \in S : \A m \in S : <<m, n>> \notin R
  BY <1>1, WFMin
<1>4. n \in Nat
  OBVIOUS
<1>5. ASSUME NEW m \in S PROVE n <= m
  <2>1. m \in Nat /\ ~(m < n)
    BY <1>2, <1>3, <1>4
  <2> QED BY <2>1, <1>4
<1> QED BY <1>5

\* One of numbers that are bounded is the greatest.
LEMMA GreatestNumber ==
    ASSUME NEW n \in Nat, NEW S \in SUBSET (0..n), S # {}
    PROVE  \E k \in S : \A j \in S : j <= k
<1> DEFINE T == {n - k : k \in S}
<1>1. T \in SUBSET Nat /\ T # {}
  <2>1. \A k \in 0..n : n - k \in Nat
    OBVIOUS
  <2>2. \A k \in S : n - k \in Nat
    BY <2>1
  <2> QED BY <2>2
<1>2. PICK d \in T : \A e \in T : d <= e
  <2> HIDE DEF T
  <2> QED BY <1>1, LeastNumber
<1>3. PICK k \in S : d = n - k
  OBVIOUS
<1>4. \A j \in S : n - k <= n - j
  BY <1>2, <1>3
<1>5. ASSUME NEW j \in S PROVE j <= k
  <2>1. j \in Nat /\ k \in Nat /\ n - k <= n - j
    BY <1>4
  <2> QED BY <2>1
<1> QED BY <1>5

----------------------------------------------------------------------------
\* f is the function FlattenSeq defines to flatten the first n of seqs.
Flattens(f, seqs, n) ==
    f = [i \in 1..n |-> IF i = 1 THEN seqs[i] ELSE f[i - 1] \o seqs[i]]

\* There is such a function.
LEMMA FlatExists ==
    ASSUME NEW seqs, NEW n \in Nat
    PROVE  \E f : Flattens(f, seqs, n)
<1> DEFINE Bad == {k \in 0..n : ~ \E f : Flattens(f, seqs, k)}
<1>1. SUFFICES Bad = {}
  OBVIOUS
<1>2. ASSUME Bad # {} PROVE FALSE
  <2>1. PICK k \in Bad : \A m \in Bad : k <= m
    <3> HIDE DEF Bad
    <3>1. Bad \in SUBSET Nat
      BY DEF Bad
    <3> QED BY <1>2, <3>1, LeastNumber
  <2>2. k \in 0..n
    OBVIOUS
  <2>3. CASE k = 0
    <3>1. Flattens(<< >>, seqs, 0)
      BY DEF Flattens
    <3> QED BY <2>3, <3>1
  <2>4. CASE k # 0
    <3>1. k - 1 \in 0..n /\ k - 1 \notin Bad
      BY <2>1, <2>2, <2>4
    <3>2. PICK f : Flattens(f, seqs, k - 1)
      BY <3>1
    <3> DEFINE g == [i \in 1..k |-> IF i = k
                                      THEN IF i = 1 THEN seqs[i] ELSE f[i - 1] \o seqs[i]
                                      ELSE f[i]]
    <3>3. \A i \in 1..(k - 1) : f[i] = IF i = 1 THEN seqs[i] ELSE f[i - 1] \o seqs[i]
      BY <3>2 DEF Flattens
    <3>4. ASSUME NEW i \in 1..k
          PROVE  g[i] = IF i = 1 THEN seqs[i] ELSE g[i - 1] \o seqs[i]
      BY <2>2, <3>3
    <3>5. Flattens(g, seqs, k)
      BY <3>4 DEF Flattens
    <3> QED BY <3>5
  <2> QED BY <2>3, <2>4
<1> QED BY <1>2

\* There is only one.
LEMMA FlatUnique ==
    ASSUME NEW seqs, NEW n \in Nat, NEW f, NEW g,
           Flattens(f, seqs, n), Flattens(g, seqs, n)
    PROVE  f = g
<1> DEFINE Bad == {k \in 1..n : f[k] # g[k]}
<1>1. ASSUME Bad # {} PROVE FALSE
  <2>1. PICK k \in Bad : \A m \in Bad : k <= m
    <3> HIDE DEF Bad
    <3>1. Bad \in SUBSET Nat
      BY DEF Bad
    <3> QED BY <1>1, <3>1, LeastNumber
  <2>2. k \in 1..n /\ f[k] # g[k]
    OBVIOUS
  <2>3. k # 1 => k - 1 \in 1..n /\ f[k - 1] = g[k - 1]
    BY <2>1, <2>2
  <2>4. /\ f[k] = IF k = 1 THEN seqs[k] ELSE f[k - 1] \o seqs[k]
        /\ g[k] = IF k = 1 THEN seqs[k] ELSE g[k - 1] \o seqs[k]
    BY <2>2 DEF Flattens
  <2> QED BY <2>2, <2>3, <2>4
<1>2. \A k \in 1..n : f[k] = g[k]
  BY <1>1
<1>3. f = [i \in 1..n |-> f[i]] /\ g = [i \in 1..n |-> g[i]]
  BY DEF Flattens
<1> QED BY <1>2, <1>3

\* And FlattenSeq takes its last value.
LEMMA FlatValue ==
    ASSUME NEW seqs, Len(seqs) \in Nat \ {0}, NEW f, Flattens(f, seqs, Len(seqs))
    PROVE  FlattenSeq(seqs) = f[Len(seqs)]
<1> DEFINE c == CHOOSE flatten : flatten = [i \in 1..Len(seqs) |->
                   IF i = 1 THEN seqs[i] ELSE flatten[i - 1] \o seqs[i]]
<1>1. FlattenSeq(seqs) = c[Len(seqs)]
  BY DEF FlattenSeq
<1>2. Flattens(c, seqs, Len(seqs))
  BY DEF Flattens
<1> HIDE DEF c
<1>3. c = f
  BY <1>2, FlatUnique
<1> QED BY <1>1, <1>3

\* The flattening of a sequence with one more element.
LEMMA FlattenAppend ==
    ASSUME NEW S, NEW seqs \in Seq(Seq(S)), NEW s \in Seq(S)
    PROVE  FlattenSeq(Append(seqs, s)) = FlattenSeq(seqs) \o s
<1> DEFINE n == Len(seqs)
           all == Append(seqs, s)
<1>1. n \in Nat /\ Len(all) = n + 1 /\ all[n + 1] = s /\ \A i \in 1..n : all[i] = seqs[i]
  OBVIOUS
<1> HIDE DEF n, all
<1>2. PICK f : Flattens(f, all, n + 1)
  BY <1>1, FlatExists
<1>3. \A i \in 1..(n + 1) : f[i] = IF i = 1 THEN all[i] ELSE f[i - 1] \o all[i]
  BY <1>2 DEF Flattens
<1>4. FlattenSeq(all) = f[n + 1]
  BY <1>1, <1>2, FlatValue
<1>5. CASE n = 0
  <2>1. seqs = << >>
    BY <1>5 DEF n
  <2>2. FlattenSeq(seqs) = << >>
    BY <2>1 DEF FlattenSeq
  <2>3. f[n + 1] = s
    BY <1>1, <1>3, <1>5
  <2> QED BY <1>4, <2>2, <2>3 DEF all
<1>6. CASE n # 0
  <2> DEFINE g == [i \in 1..n |-> f[i]]
  <2>1. ASSUME NEW i \in 1..n
        PROVE  g[i] = IF i = 1 THEN seqs[i] ELSE g[i - 1] \o seqs[i]
    BY <1>1, <1>3
  <2>2. Flattens(g, seqs, n)
    BY <2>1 DEF Flattens
  <2>3. g[n] = f[n]
    BY <1>1, <1>6
  <2> HIDE DEF g
  <2>4. FlattenSeq(seqs) = g[n]
    BY <1>1, <1>6, <2>2, FlatValue DEF n
  <2>5. f[n + 1] = f[n] \o s
    <3>1. n + 1 \in 1..(n + 1) /\ n + 1 # 1 /\ (n + 1) - 1 = n
      BY <1>1, <1>6
    <3>2. f[n + 1] = f[(n + 1) - 1] \o all[n + 1]
      BY <1>3, <3>1
    <3> QED BY <1>1, <3>1, <3>2
  <2> QED BY <1>4, <2>3, <2>4, <2>5 DEF all
<1> QED BY <1>1, <1>5, <1>6

\* Flattening sequences over S gives one.
LEMMA FlatTyped ==
    ASSUME NEW S, NEW seqs \in Seq(Seq(S))
    PROVE  FlattenSeq(seqs) \in Seq(S)
<1> DEFINE n == Len(seqs)
<1>1. n \in Nat /\ \A i \in 1..n : seqs[i] \in Seq(S)
  OBVIOUS
<1>2. CASE n = 0
  <2>1. seqs = << >>
    BY <1>2
  <2>2. FlattenSeq(seqs) = << >>
    BY <2>1 DEF FlattenSeq
  <2> QED BY <2>2
<1>3. CASE n # 0
  <2> HIDE DEF n
  <2>1. PICK f : Flattens(f, seqs, n)
    BY <1>1, FlatExists
  <2>2. \A i \in 1..n : f[i] = IF i = 1 THEN seqs[i] ELSE f[i - 1] \o seqs[i]
    BY <2>1 DEF Flattens
  <2> DEFINE Bad == {i \in 1..n : f[i] \notin Seq(S)}
  <2>3. ASSUME Bad # {} PROVE FALSE
    <3>1. PICK k \in Bad : \A m \in Bad : k <= m
      <4> HIDE DEF Bad
      <4>1. Bad \in SUBSET Nat
        BY DEF Bad
      <4> QED BY <2>3, <4>1, LeastNumber
    <3>2. k \in 1..n /\ f[k] \notin Seq(S)
      OBVIOUS
    <3>3. k # 1 => k - 1 \in 1..n /\ f[k - 1] \in Seq(S)
      BY <1>1, <3>1, <3>2
    <3>4. f[k] = IF k = 1 THEN seqs[k] ELSE f[k - 1] \o seqs[k]
      BY <2>2, <3>2
    <3>5. seqs[k] \in Seq(S)
      BY <1>1, <3>2
    <3>6. k # 1 => f[k - 1] \o seqs[k] \in Seq(S)
      BY <3>3, <3>5
    <3> QED BY <3>2, <3>4, <3>5, <3>6
  <2>4. f[n] \in Seq(S)
    BY <1>1, <1>3, <2>3
  <2>5. FlattenSeq(seqs) = f[n]
    BY <1>1, <1>3, <2>1, FlatValue DEF n
  <2> QED BY <2>4, <2>5
<1> QED BY <1>2, <1>3
=============================================================================
