--------------------------- MODULE RecursionLemmas ---------------------------
(***************************************************************************)
(* Induction over sets of numbers, the functions that are defined by        *)
(* recursion on a number, and what they compute: text put together from a   *)
(* sequence of texts.                                                       *)
(***************************************************************************)
EXTENDS Integers, Sequences, SequencesExt, SequenceTheorems, WellFoundedInduction, TLAPS

-----------------------------------------------------------------------------
(* Numbers                                                                 *)

\* A set of natural numbers that is not empty has a least one.
LEMMA LeastExists ==
  ASSUME NEW S \in SUBSET Nat, S # {}
  PROVE  \E m \in S : \A n \in S : m <= n
<1>1. PICK m \in S : \A n \in S : ~(<<n, m>> \in OpToRel(<, Nat))
  BY NatLessThanWellFounded, WFMin
<1>2. \A n \in S : ~(n < m)
  BY <1>1 DEF OpToRel
<1>. QED BY <1>2

\* Induction: a set with 0 and with what comes after each of its members up to n
\* has all numbers up to n.
LEMMA InductionUpTo ==
  ASSUME NEW n \in Nat, NEW T, 0 \in T, \A i \in 0..(n - 1) : i \in T => i + 1 \in T
  PROVE  0..n \subseteq T
<1>. DEFINE S == {i \in 0..n : i \notin T}
<1>. SUFFICES ASSUME S # {} PROVE FALSE
  OBVIOUS
<1>1. PICK m \in S : \A i \in S : m <= i
  <2>1. S \in SUBSET Nat
    OBVIOUS
  <2>. HIDE DEF S
  <2>. QED BY <2>1, LeastExists
<1>2. m \in 0..n /\ m \notin T
  BY <1>1
<1>3. m # 0
  BY <1>2
<1>4. m - 1 \in 0..(n - 1) /\ (m - 1) + 1 = m
  BY <1>2, <1>3
<1>5. m - 1 \notin T
  BY <1>2, <1>4
<1>6. m - 1 \in S
  BY <1>4, <1>5
<1>7. m <= m - 1
  BY <1>1, <1>6
<1>. QED BY <1>2, <1>7

\* A function that begins with b and whose values come each from the one before it
FromEachToNext(f, n, b, G) == f[0] = b /\ \A i \in 1..n : f[i] = G[<<i, f[i - 1]>>]

\* Recursion: there is one.
LEMMA RecursionUpTo ==
  ASSUME NEW V, NEW b \in V, NEW n \in Nat, NEW G \in [(1..n) \X V -> V]
  PROVE  \E f \in [0..n -> V] : FromEachToNext(f, n, b, G)
<1>. DEFINE R(m, f) == f[0] = b /\ \A i \in 1..m : f[i] = G[<<i, f[i - 1]>>]
            T == {m \in 0..n : \E f \in [0..m -> V] : R(m, f)}
<1>1. 0 \in T
  <2>1. PICK f : f = [i \in 0..0 |-> b]
    OBVIOUS
  <2>2. f \in [0..0 -> V] /\ f[0] = b /\ 1..0 = {}
    BY <2>1
  <2>. QED BY <2>2
<1>2. ASSUME NEW m \in 0..(n - 1), m \in T PROVE m + 1 \in T
  <2>1. PICK f \in [0..m -> V] : R(m, f)
    BY <1>2
  <2>2. f[m] \in V /\ m + 1 \in 1..n
    BY <1>2
  <2>3. PICK v \in V : v = G[<<m + 1, f[m]>>]
    BY <2>2
  <2>4. PICK g : g = [i \in 0..(m + 1) |-> IF i = m + 1 THEN v ELSE f[i]]
    OBVIOUS
  <2>5. g \in [0..(m + 1) -> V]
    <3>1. \A i \in 0..(m + 1) : i # m + 1 => i \in 0..m
      BY <1>2
    <3>. QED BY <2>4, <3>1
  <2>6. g[0] = b
    BY <1>2, <2>1, <2>4
  <2>7. ASSUME NEW i \in 1..(m + 1) PROVE g[i] = G[<<i, g[i - 1]>>]
    <3>1. i - 1 \in 0..m /\ i - 1 # m + 1 /\ i \in 0..(m + 1) /\ i - 1 \in 0..(m + 1)
      BY <1>2
    <3>2. g[i - 1] = f[i - 1]
      BY <2>4, <3>1
    <3>3. CASE i = m + 1
      <4>1. i - 1 = m
        BY <3>3, <1>2
      <4>. QED BY <2>3, <2>4, <3>1, <3>2, <3>3, <4>1
    <3>4. CASE i # m + 1
      <4>1. i \in 1..m
        BY <1>2, <3>4
      <4>. QED BY <2>1, <2>4, <3>1, <3>2, <3>4, <4>1
    <3>. QED BY <3>3, <3>4
  <2>. QED BY <1>2, <2>2, <2>5, <2>6, <2>7
<1>. HIDE DEF T
<1>3. 0..n \subseteq T
  BY <1>1, <1>2, InductionUpTo
<1>4. n \in T
  BY <1>3
<1>. QED BY <1>4 DEF T, FromEachToNext

-----------------------------------------------------------------------------
(* Texts put together                                                      *)

\* Two texts, one after the other; the proofs about several of them need only
\* these facts about it.
Then(s, t) == s \o t

\* Two texts together are as long as the two.
LEMMA ThenType ==
  ASSUME NEW S, NEW s, NEW t, s \in Seq(S), t \in Seq(S)
  PROVE  Then(s, t) \in Seq(S) /\ Len(Then(s, t)) = Len(s) + Len(t)
BY ConcatProperties DEF Then

\* Nothing adds nothing.
LEMMA ThenNothing ==
  ASSUME NEW S, NEW s, s \in Seq(S)
  PROVE  Then(s, <<>>) = s /\ Then(<<>>, s) = s
BY ConcatEmptySeq DEF Then

\* Three texts are the same however they are grouped.
LEMMA ThenGroups ==
  ASSUME NEW S, NEW s, NEW t, NEW u, s \in Seq(S), t \in Seq(S), u \in Seq(S)
  PROVE  Then(s, Then(t, u)) = Then(Then(s, t), u)
BY ConcatAssociative DEF Then

\* The pieces of ss up to i, one after the other
PutTogether(f, n, ss) == \A i \in 1..n : f[i] = IF i = 1 THEN ss[i] ELSE f[i - 1] \o ss[i]

\* FlattenSeq puts its texts together one by one.
LEMMA Flattened ==
  ASSUME NEW S, NEW ss \in Seq(Seq(S)), NEW n \in Nat, n = Len(ss), n # 0
  PROVE  \E f \in [1..n -> Seq(S)] : FlattenSeq(ss) = f[n] /\ PutTogether(f, n, ss)
<1>. DEFINE Eq(f) == f = [i \in 1..n |-> IF i = 1 THEN ss[i] ELSE f[i - 1] \o ss[i]]
<1>1. n \in Nat /\ 1 \in 1..n /\ n \in 1..n /\ \A i \in 1..n : ss[i] \in Seq(S)
  BY ElementOfSeq
<1>2. PICK G : G = [p \in (1..n) \X Seq(S) |-> p[2] \o ss[p[1]]]
  OBVIOUS
<1>3. G \in [(1..n) \X Seq(S) -> Seq(S)]
  BY <1>1, <1>2, ConcatProperties
<1>4. PICK g \in [0..n -> Seq(S)] : FromEachToNext(g, n, <<>>, G)
  <2>1. <<>> \in Seq(S)
    BY EmptySeq
  <2>. QED BY <1>1, <1>3, <2>1, RecursionUpTo
<1>5. ASSUME NEW i \in 1..n PROVE g[i] = g[i - 1] \o ss[i] /\ g[i - 1] \in Seq(S)
  <2>1. i - 1 \in 0..n /\ i \in 0..n
    BY <1>1
  <2>. QED BY <1>2, <1>4, <2>1 DEF FromEachToNext
<1>6. PICK h : h = [i \in 1..n |-> g[i]]
  OBVIOUS
<1>7. ASSUME NEW i \in 1..n PROVE h[i] = IF i = 1 THEN ss[i] ELSE h[i - 1] \o ss[i]
  <2>1. CASE i = 1
    <3>1. g[i] = g[i - 1] \o ss[i]
      BY <1>5
    <3>2. g[i - 1] = <<>>
      <4>1. i - 1 = 0
        BY <2>1
      <4>. QED BY <1>4, <4>1 DEF FromEachToNext
    <3>. QED BY <1>1, <1>6, <2>1, <3>1, <3>2, ConcatEmptySeq
  <2>2. CASE i # 1
    <3>1. i - 1 \in 1..n
      BY <1>1, <2>2
    <3>. QED BY <1>5, <1>6, <2>2, <3>1
  <2>. QED BY <2>1, <2>2
<1>8. Eq(h)
  BY <1>6, <1>7
<1>9. PICK f : f = CHOOSE x : Eq(x)
  OBVIOUS
<1>10. Eq(f)
  BY <1>8, <1>9
<1>11. \A i \in 1..n : f[i] = IF i = 1 THEN ss[i] ELSE f[i - 1] \o ss[i]
  BY <1>10
<1>12. FlattenSeq(ss) = f[n]
  BY <1>9 DEF FlattenSeq
<1>13. \A i \in 1..n : f[i] \in Seq(S)
  <2>. DEFINE T == {i \in 0..n : i = 0 \/ f[i] \in Seq(S)}
  <2>1. 0 \in T
    BY <1>1
  <2>2. ASSUME NEW i \in 0..(n - 1), i \in T PROVE i + 1 \in T
    <3>1. i + 1 \in 1..n /\ i + 1 \in 0..n /\ (i + 1) - 1 = i /\ (i + 1 = 1 <=> i = 0)
      BY <1>1
    <3>2. f[i + 1] = IF i = 0 THEN ss[i + 1] ELSE f[i] \o ss[i + 1]
      BY <1>11, <3>1
    <3>3. i # 0 => f[i] \in Seq(S)
      BY <2>2
    <3>4. f[i + 1] \in Seq(S)
      BY <1>1, <3>1, <3>2, <3>3, ConcatProperties
    <3>. QED BY <3>1, <3>4
  <2>. HIDE DEF T
  <2>3. 0..n \subseteq T
    BY <1>1, <2>1, <2>2, InductionUpTo
  <2>4. \A i \in 1..n : i \in 0..n /\ i # 0
    OBVIOUS
  <2>. QED BY <2>3, <2>4 DEF T
<1>14. f \in [1..n -> Seq(S)]
  BY <1>10, <1>13
<1>. QED BY <1>11, <1>12, <1>14 DEF PutTogether

\* Of no texts there is nothing.
LEMMA FlattenNothing == FlattenSeq(<<>>) = <<>>
BY EmptySeq DEF FlattenSeq

\* Pieces one after the other are a text.
LEMMA FlattenType ==
  ASSUME NEW S, NEW ss \in Seq(Seq(S))
  PROVE  FlattenSeq(ss) \in Seq(S)
<1>1. Len(ss) \in Nat
  BY LenProperties
<1>2. CASE Len(ss) = 0
  <2>1. ss = <<>>
    BY <1>2, EmptySeq
  <2>. QED BY <2>1, FlattenNothing, EmptySeq
<1>3. CASE Len(ss) # 0
  <2>1. PICK f \in [1..Len(ss) -> Seq(S)] : FlattenSeq(ss) = f[Len(ss)]
    BY <1>1, <1>3, Flattened
  <2>2. Len(ss) \in 1..Len(ss)
    BY <1>1, <1>3
  <2>. QED BY <2>1, <2>2
<1>. QED BY <1>2, <1>3

\* One more piece comes at the end.
LEMMA FlattenAppend ==
  ASSUME NEW S, NEW ss \in Seq(Seq(S)), NEW x \in Seq(S)
  PROVE  FlattenSeq(Append(ss, x)) = FlattenSeq(ss) \o x
<1>1. PICK n \in Nat : n = Len(ss)
  BY LenProperties
<1>2. PICK tt \in Seq(Seq(S)) : tt = Append(ss, x)
  BY AppendProperties
<1>3. /\ Len(tt) = n + 1 /\ tt[n + 1] = x /\ \A i \in 1..n : tt[i] = ss[i]
  BY <1>1, <1>2, AppendProperties
<1>4. PICK f \in [1..(n + 1) -> Seq(S)] :
        FlattenSeq(tt) = f[n + 1] /\ PutTogether(f, n + 1, tt)
  <2>1. n + 1 \in Nat /\ n + 1 # 0
    OBVIOUS
  <2>2. PICK m \in Nat : m = n + 1
    BY <2>1
  <2>3. \E f \in [1..m -> Seq(S)] : FlattenSeq(tt) = f[m] /\ PutTogether(f, m, tt)
    BY <1>3, <2>1, <2>2, Flattened
  <2>. QED BY <2>2, <2>3
<1>5. CASE n = 0
  <2>1. ss = <<>>
    BY <1>1, <1>5, EmptySeq
  <2>2. FlattenSeq(tt) = x
    <3>1. n + 1 = 1 /\ n + 1 \in 1..(n + 1)
      BY <1>5
    <3>. QED BY <1>3, <1>4, <3>1 DEF PutTogether
  <2>3. FlattenSeq(ss) \o x = x
    BY <2>1, FlattenNothing, ConcatEmptySeq
  <2>. QED BY <1>2, <2>2, <2>3
<1>6. CASE n # 0
  <2>1. PICK g \in [1..n -> Seq(S)] :
          FlattenSeq(ss) = g[n] /\ PutTogether(g, n, ss)
    BY <1>1, <1>6, Flattened
  <2>. DEFINE T == {i \in 0..n : i = 0 \/ f[i] = g[i]}
  <2>2. 0 \in T
    OBVIOUS
  <2>3. ASSUME NEW i \in 0..(n - 1), i \in T PROVE i + 1 \in T
    <3>1. /\ i + 1 \in 1..n /\ i + 1 \in 1..(n + 1) /\ i + 1 \in 0..n
          /\ (i + 1) - 1 = i /\ (i + 1 = 1 <=> i = 0)
      OBVIOUS
    <3>2. f[i + 1] = IF i = 0 THEN ss[i + 1] ELSE f[i] \o ss[i + 1]
      BY <1>3, <1>4, <3>1 DEF PutTogether
    <3>3. g[i + 1] = IF i = 0 THEN ss[i + 1] ELSE g[i] \o ss[i + 1]
      BY <2>1, <3>1 DEF PutTogether
    <3>4. i # 0 => f[i] = g[i]
      BY <2>3
    <3>5. f[i + 1] = g[i + 1]
      BY <3>2, <3>3, <3>4
    <3>. QED BY <3>1, <3>5
  <2>. HIDE DEF T
  <2>4. 0..n \subseteq T
    BY <2>2, <2>3, InductionUpTo
  <2>5. f[n] = g[n]
    BY <1>6, <2>4 DEF T
  <2>6. n + 1 \in 1..(n + 1) /\ n + 1 # 1 /\ (n + 1) - 1 = n
    BY <1>6
  <2>7. f[n + 1] = f[n] \o x
    BY <1>3, <1>4, <2>6 DEF PutTogether
  <2>. QED BY <1>2, <1>4, <2>1, <2>5, <2>7
<1>. QED BY <1>5, <1>6

\* Two texts together begin with the first.
LEMMA FrontOfTwo ==
  ASSUME NEW S, NEW s, NEW t, s \in Seq(S), t \in Seq(S)
  PROVE  SubSeq(Then(s, t), 1, Len(s)) = s
<1>1. Len(s) \in Nat /\ Len(t) \in Nat
  BY LenProperties
<1>2. CASE Len(s) = 0
  <2>1. s = <<>>
    BY <1>2, EmptySeq
  <2>. QED BY <1>2, <2>1, SubSeqEmpty
<1>3. CASE Len(s) # 0
  <2>1. Len(s) \in 1..Len(s) /\ 1 \in 1..Len(s)
    BY <1>1, <1>3
  <2>2. SubSeq(Then(s, t), 1, Len(s)) = SubSeq(s, 1, Len(s))
    BY <2>1, SubSeqOfConcat1 DEF Then
  <2>. QED BY <2>2, SubSeqFull
<1>. QED BY <1>2, <1>3

\* And end with the second.
LEMMA BackOfTwo ==
  ASSUME NEW S, NEW s, NEW t, s \in Seq(S), t \in Seq(S)
  PROVE  SubSeq(Then(s, t), Len(s) + 1, Len(Then(s, t))) = t
<1>1. Len(s) \in Nat /\ Len(t) \in Nat /\ Len(Then(s, t)) = Len(s) + Len(t)
  BY LenProperties, ThenType
<1>2. CASE Len(t) = 0
  <2>1. t = <<>>
    BY <1>2, EmptySeq
  <2>. QED BY <1>1, <1>2, <2>1, SubSeqEmpty
<1>3. CASE Len(t) # 0
  <2>1. PICK m, n : m = Len(s) + 1 /\ n = Len(s) + Len(t)
    OBVIOUS
  <2>2. m \in Len(s) + 1 .. Len(s) + Len(t) /\ n \in Len(s) + 1 .. Len(s) + Len(t)
    BY <1>1, <1>3, <2>1
  <2>3. SubSeq(Then(s, t), m, n) = SubSeq(t, m - Len(s), n - Len(s))
    BY <2>2, SubSeqOfConcat2 DEF Then
  <2>4. m - Len(s) = 1 /\ n - Len(s) = Len(t)
    BY <1>1, <2>1
  <2>. QED BY <1>1, <2>1, <2>3, <2>4, SubSeqFull
<1>. QED BY <1>2, <1>3

\* The first i texts are the i - 1 before, and the next.
LEMMA FlattenPrefix ==
  ASSUME NEW S, NEW ss, ss \in Seq(Seq(S)), NEW i \in 1..Len(ss)
  PROVE  /\ FlattenSeq(SubSeq(ss, 1, i - 1)) \in Seq(S) /\ ss[i] \in Seq(S)
         /\ FlattenSeq(SubSeq(ss, 1, i)) = Then(FlattenSeq(SubSeq(ss, 1, i - 1)), ss[i])
<1>1. i \in Nat \ {0} /\ i - 1 \in Nat /\ Len(ss) \in Nat /\ i <= Len(ss)
  BY LenProperties
<1>2. \A j \in 1..(i - 1) : j \in 1..Len(ss)
  BY <1>1
<1>3. ss[i] \in Seq(S) /\ \A j \in 1..(i - 1) : ss[j] \in Seq(S)
  BY <1>2, ElementOfSeq
<1>4. SubSeq(ss, 1, i - 1) \in Seq(Seq(S))
  BY <1>1, <1>3, SubSeqProperties
<1>5. SubSeq(ss, 1, i) = Append(SubSeq(ss, 1, i - 1), ss[i])
  BY <1>1
<1>. QED BY <1>3, <1>4, <1>5, FlattenType, FlattenAppend DEF Then

\* The length of a text and the texts over S, by names the solver leaves alone.
Size(s) == Len(s)
Texts(S) == Seq(S)

\* A length is a natural number.
LEMMA SizeType ==
  ASSUME NEW S, NEW s, s \in Texts(S)
  PROVE  Size(s) \in Nat
BY LenProperties DEF Size, Texts

\* ThenType, with Size.
LEMMA SizedThen ==
  ASSUME NEW S, NEW s, NEW t, s \in Texts(S), t \in Texts(S)
  PROVE  Then(s, t) \in Texts(S) /\ Size(Then(s, t)) = Size(s) + Size(t)
BY ThenType DEF Size, Texts

\* ThenGroups, with Texts.
LEMMA ThenInGroups ==
  ASSUME NEW S, NEW s, NEW t, NEW u, s \in Texts(S), t \in Texts(S), u \in Texts(S)
  PROVE  Then(s, Then(t, u)) = Then(Then(s, t), u)
BY ThenGroups DEF Texts
=============================================================================
