---------------------------- MODULE FSFileProofs ----------------------------
(***************************************************************************)
(* Proofs about FSFile, for any file, chunk and calls.  Text is cut at the  *)
(* first place of a separator, which exists because a set of numbers has a  *)
(* least one; what is cut from whole characters are whole characters.  With *)
(* separators of one byte it makes no difference that the buffer and the    *)
(* chunks are searched one by one: the reader is a source of lines.         *)
(***************************************************************************)
EXTENDS FSFile, RecursionLemmas, SequenceTheorems, FiniteSetTheorems, TLAPS

-----------------------------------------------------------------------------
(* Cutting text                                                            *)

\* The bytes of t after the first n.
LEMMA Rest ==
  ASSUME NEW t \in Seq(Byte), NEW n \in Nat
  PROVE  /\ LS!From(t, n) \in Seq(Byte)
         /\ Len(LS!From(t, n)) = IF n < Len(t) THEN Len(t) - n ELSE 0
         /\ \A i \in 1..(Len(t) - n) : LS!From(t, n)[i] = t[n + i]
<1>1. n + 1 \in Int /\ Len(t) \in Int /\ Len(t) \in Nat
  BY LenProperties
<1>2. \A i \in (n + 1)..Len(t) : t[i] \in Byte
  BY <1>1, ElementOfSeq
<1>3. PICK u : u = LS!From(t, n)
  OBVIOUS
<1>4. u = SubSeq(t, n + 1, Len(t))
  BY <1>3 DEF LS!From
<1>5. /\ u \in Seq(Byte)
      /\ Len(u) = IF n + 1 <= Len(t) THEN Len(t) - (n + 1) + 1 ELSE 0
      /\ \A i \in 1..(Len(t) - (n + 1) + 1) : u[i] = t[n + 1 + i - 1]
  BY <1>1, <1>2, <1>4, SubSeqProperties
<1>6. Len(u) = IF n < Len(t) THEN Len(t) - n ELSE 0
  BY <1>1, <1>5
<1>7. \A i \in 1..(Len(t) - n) : u[i] = t[n + i]
  BY <1>1, <1>5
<1>. QED BY <1>3, <1>5, <1>6, <1>7

\* The first n bytes of t.
LEMMA Start ==
  ASSUME NEW t \in Seq(Byte), NEW n \in 0..Len(t)
  PROVE  /\ SubSeq(t, 1, n) \in Seq(Byte)
         /\ Len(SubSeq(t, 1, n)) = n
         /\ \A i \in 1..n : SubSeq(t, 1, n)[i] = t[i]
<1>1. Len(t) \in Nat /\ n \in Nat
  BY LenProperties
<1>2. \A i \in 1..n : t[i] \in Byte
  BY <1>1, ElementOfSeq
<1>3. PICK u : u = SubSeq(t, 1, n)
  OBVIOUS
<1>4. /\ u \in Seq(Byte)
      /\ Len(u) = IF 1 <= n THEN n - 1 + 1 ELSE 0
      /\ \A i \in 1..(n - 1 + 1) : u[i] = t[1 + i - 1]
  BY <1>1, <1>2, <1>3, SubSeqProperties
<1>5. Len(u) = n
  BY <1>1, <1>4
<1>6. \A i \in 1..n : u[i] = t[i]
  BY <1>1, <1>4
<1>. QED BY <1>3, <1>4, <1>5, <1>6

\* A byte of t.
LEMMA OneByte ==
  ASSUME NEW t \in Seq(Byte), NEW i \in 1..Len(t)
  PROVE  /\ SubSeq(t, i, i) \in Seq(Byte) /\ Len(SubSeq(t, i, i)) = 1
         /\ SubSeq(t, i, i)[1] = t[i]
<1>1. i \in Int /\ i <= i /\ i - i + 1 = 1 /\ i + 1 - 1 = i
  BY LenProperties
<1>2. \A j \in i..i : t[j] \in Byte
  BY <1>1, ElementOfSeq
<1>3. PICK u : u = SubSeq(t, i, i)
  OBVIOUS
<1>4. /\ u \in Seq(Byte)
      /\ Len(u) = IF i <= i THEN i - i + 1 ELSE 0
      /\ \A j \in 1..(i - i + 1) : u[j] = t[i + j - 1]
  BY <1>1, <1>2, <1>3, SubSeqProperties
<1>5. Len(u) = 1
  BY <1>1, <1>4
<1>6. u[1] = t[i]
  <2>1. 1 \in 1..(i - i + 1)
    BY <1>1
  <2>. QED BY <1>1, <1>4, <2>1
<1>. QED BY <1>3, <1>4, <1>5, <1>6

\* The first place of s in t is one, and no other comes before it.
LEMMA FirstIsPlace ==
  ASSUME NEW s \in Seq(Byte), s # <<>>, NEW t \in Seq(Byte), LS!Places(s, t) # {}
  PROVE  /\ LS!FirstPlace(s, t) \in LS!Places(s, t)
         /\ \A j \in LS!Places(s, t) : LS!FirstPlace(s, t) <= j
<1>1. Len(s) \in Nat \ {0} /\ Len(t) \in Nat
  BY LenProperties, EmptySeq
<1>2. LS!Places(s, t) \in SUBSET Nat
  BY <1>1 DEF LS!Places
<1>3. \E i \in LS!Places(s, t) : \A j \in LS!Places(s, t) : i <= j
  BY <1>2, LeastExists
<1>. QED BY <1>3 DEF LS!FirstPlace

\* A place of s in t: the bytes there are those of s.
LEMMA PlaceBytes ==
  ASSUME NEW s \in Seq(Byte), s # <<>>, NEW t \in Seq(Byte), NEW i \in LS!Places(s, t)
  PROVE  /\ i \in Nat \ {0} /\ Len(s) \in Nat \ {0} /\ Len(t) \in Nat
         /\ i + Len(s) - 1 <= Len(t)
         /\ \A j \in 1..Len(s) : t[i + j - 1] = s[j]
<1>1. Len(s) \in Nat \ {0} /\ Len(t) \in Nat
  BY LenProperties, EmptySeq
<1>2. i \in 1..(Len(t) - Len(s) + 1) /\ SubSeq(t, i, i + Len(s) - 1) = s
  BY DEF LS!Places
<1>3. i \in Int /\ i + Len(s) - 1 \in Int /\ i \in Nat \ {0} /\ i + Len(s) - 1 <= Len(t)
  BY <1>1, <1>2
<1>4. \A j \in i..(i + Len(s) - 1) : t[j] \in Byte
  BY <1>1, <1>3, ElementOfSeq
<1>5. \A j \in 1..(i + Len(s) - 1 - i + 1) : s[j] = t[i + j - 1]
  BY <1>2, <1>3, <1>4, SubSeqProperties
<1>. QED BY <1>1, <1>3, <1>5

\* What is before and after the first place of s.
LEMMA Cut ==
  ASSUME NEW s \in Seq(Byte), s # <<>>, NEW t \in Seq(Byte), LS!Places(s, t) # {}
  PROVE  \E i \in LS!Places(s, t) :
           /\ i = LS!FirstPlace(s, t)
           /\ LS!Before(s, t) \in Seq(Byte) /\ Len(LS!Before(s, t)) = i - 1
           /\ \A j \in 1..(i - 1) : LS!Before(s, t)[j] = t[j]
           /\ LS!After(s, t) \in Seq(Byte)
           /\ Len(LS!After(s, t)) = Len(t) - (i + Len(s) - 1)
           /\ \A j \in 1..(Len(t) - (i + Len(s) - 1)) :
                LS!After(s, t)[j] = t[i + Len(s) - 1 + j]
<1>1. PICK i \in LS!Places(s, t) : i = LS!FirstPlace(s, t)
  BY FirstIsPlace
<1>2. /\ i \in Nat \ {0} /\ Len(s) \in Nat \ {0} /\ Len(t) \in Nat
      /\ i + Len(s) - 1 <= Len(t)
  BY PlaceBytes
<1>3. PICK n : n = i + Len(s) - 1
  OBVIOUS
<1>4. n \in Nat /\ n <= Len(t) /\ i - 1 \in 0..Len(t) /\ i + Len(s) = n + 1
  BY <1>2, <1>3
<1>5. LS!Before(s, t) = SubSeq(t, 1, i - 1) /\ LS!After(s, t) = LS!From(t, n)
  BY <1>1, <1>4 DEF LS!Before, LS!After, LS!From
<1>6. /\ LS!Before(s, t) \in Seq(Byte) /\ Len(LS!Before(s, t)) = i - 1
      /\ \A j \in 1..(i - 1) : LS!Before(s, t)[j] = t[j]
  BY <1>4, <1>5, Start
<1>7. /\ LS!After(s, t) \in Seq(Byte)
      /\ Len(LS!After(s, t)) = Len(t) - n
      /\ \A j \in 1..(Len(t) - n) : LS!After(s, t)[j] = t[n + j]
  <2>1. PICK v : v = LS!After(s, t)
    OBVIOUS
  <2>2. /\ v \in Seq(Byte)
        /\ Len(v) = IF n < Len(t) THEN Len(t) - n ELSE 0
        /\ \A j \in 1..(Len(t) - n) : v[j] = t[n + j]
    <3>1. v = LS!From(t, n)
      BY <1>5, <2>1
    <3>. QED BY <1>4, <3>1, Rest
  <2>3. Len(v) = Len(t) - n
    BY <1>2, <1>4, <2>2
  <2>. QED BY <2>1, <2>2, <2>3
<1>. QED BY <1>1, <1>3, <1>6, <1>7

\* Text after text.
LEMMA Joins ==
  ASSUME NEW t \in Seq(Byte), NEW u \in Seq(Byte), NEW v \in Seq(Byte)
  PROVE  /\ t \o u \in Seq(Byte) /\ Len(t \o u) = Len(t) + Len(u)
         /\ t \o (u \o v) = (t \o u) \o v
<1>1. t \o u \in Seq(Byte) /\ Len(t \o u) = Len(t) + Len(u)
  BY ConcatProperties
<1>2. (t \o u) \o v = t \o (u \o v)
  BY ConcatAssociative
<1>. QED BY <1>1, <1>2

-----------------------------------------------------------------------------
(* Whole characters                                                        *)

LEMMA NothingIsUTF8 == IsUTF8(<<>>)
BY DEF IsUTF8

\* Whole characters after whole characters.
LEMMA ConcatUTF8 ==
  ASSUME NEW t \in Seq(Byte), NEW u \in Seq(Byte), IsUTF8(t), IsUTF8(u)
  PROVE  IsUTF8(t \o u)
<1>1. Len(t) \in Nat /\ Len(u) \in Nat
  BY LenProperties
<1>2. PICK v : v = t \o u
  OBVIOUS
<1>3. /\ Len(v) = Len(t) + Len(u)
      /\ \A i \in 1..(Len(t) + Len(u)) : v[i] = IF i <= Len(t) THEN t[i] ELSE u[i - Len(t)]
  BY <1>2, ConcatProperties
<1>4. ASSUME NEW i \in 1..Len(v)
      PROVE  /\ v[i] = Lead => i < Len(v) /\ v[i + 1] = Cont
             /\ v[i] = Cont => i > 1 /\ v[i - 1] = Lead
  <2>1. i \in Nat /\ 1 <= i /\ i <= Len(t) + Len(u)
    BY <1>1, <1>3
  <2>2. CASE i <= Len(t)
    <3>1. i \in 1..Len(t) /\ v[i] = t[i]
      BY <1>1, <1>3, <2>1, <2>2
    <3>2. t[i] = Lead => i < Len(t) /\ t[i + 1] = Cont
      BY <3>1 DEF IsUTF8
    <3>3. t[i] = Cont => i > 1 /\ t[i - 1] = Lead
      BY <3>1 DEF IsUTF8
    <3>4. i < Len(t) => v[i + 1] = t[i + 1]
      BY <1>1, <1>3, <2>1
    <3>5. i > 1 => v[i - 1] = t[i - 1]
      BY <1>1, <1>3, <2>1, <2>2
    <3>. QED BY <1>1, <1>3, <2>1, <3>1, <3>2, <3>3, <3>4, <3>5
  <2>3. CASE ~(i <= Len(t))
    <3>1. PICK k \in 1..Len(u) : k = i - Len(t)
      BY <1>1, <2>1, <2>3
    <3>2. v[i] = u[k]
      BY <1>1, <1>3, <2>1, <2>3, <3>1
    <3>3. /\ u[k] = Lead => k < Len(u) /\ u[k + 1] = Cont
          /\ u[k] = Cont => k > 1 /\ u[k - 1] = Lead
      BY DEF IsUTF8
    <3>4. k < Len(u) => i < Len(v) /\ v[i + 1] = u[k + 1]
      <4>. SUFFICES ASSUME k < Len(u) PROVE i < Len(v) /\ v[i + 1] = u[k + 1]
        OBVIOUS
      <4>1. i + 1 \in 1..(Len(t) + Len(u)) /\ ~(i + 1 <= Len(t)) /\ i + 1 - Len(t) = k + 1
        BY <1>1, <2>1, <2>3, <3>1
      <4>. QED BY <1>1, <1>3, <2>1, <3>1, <4>1
    <3>5. k > 1 => i > 1 /\ v[i - 1] = u[k - 1]
      <4>. SUFFICES ASSUME k > 1 PROVE i > 1 /\ v[i - 1] = u[k - 1]
        OBVIOUS
      <4>1. i - 1 \in 1..(Len(t) + Len(u)) /\ ~(i - 1 <= Len(t)) /\ i - 1 - Len(t) = k - 1
        BY <1>1, <2>1, <2>3, <3>1
      <4>. QED BY <1>1, <1>3, <2>1, <3>1, <4>1
    <3>. QED BY <3>2, <3>3, <3>4, <3>5
  <2>. QED BY <2>2, <2>3
<1>. QED BY <1>2, <1>4 DEF IsUTF8

\* What is after a separator, which is whole characters itself.
LEMMA CutUTF8 ==
  ASSUME NEW s \in Sep, NEW t \in Seq(Byte), IsUTF8(t), LS!Places(s, t) # {}
  PROVE  IsUTF8(LS!After(s, t))
<1>1. s \in Seq(Byte) /\ s # <<>> /\ IsUTF8(s)
  BY FSFileAssumption
<1>2. PICK i \in LS!Places(s, t) :
        /\ Len(LS!After(s, t)) = Len(t) - (i + Len(s) - 1)
        /\ \A j \in 1..(Len(t) - (i + Len(s) - 1)) :
             LS!After(s, t)[j] = t[i + Len(s) - 1 + j]
  BY <1>1, Cut
<1>3. /\ i \in Nat \ {0} /\ Len(s) \in Nat \ {0} /\ Len(t) \in Nat
      /\ i + Len(s) - 1 <= Len(t)
      /\ \A j \in 1..Len(s) : t[i + j - 1] = s[j]
  BY <1>1, PlaceBytes
<1>4. PICK n : n = i + Len(s) - 1
  OBVIOUS
<1>5. PICK v : v = LS!After(s, t)
  OBVIOUS
<1>6. n \in Nat \ {0} /\ n <= Len(t) /\ Len(v) = Len(t) - n
      /\ \A j \in 1..(Len(t) - n) : v[j] = t[n + j]
  BY <1>2, <1>3, <1>4, <1>5
<1>7. t[n] = s[Len(s)]
  BY <1>3, <1>4
<1>8. s[Len(s)] # Lead
  BY <1>1, <1>3 DEF IsUTF8
<1>9. ASSUME NEW j \in 1..Len(v)
      PROVE  /\ v[j] = Lead => j < Len(v) /\ v[j + 1] = Cont
             /\ v[j] = Cont => j > 1 /\ v[j - 1] = Lead
  <2>1. n + j \in 1..Len(t) /\ v[j] = t[n + j] /\ j \in Nat /\ j >= 1 /\ j <= Len(t) - n
    BY <1>3, <1>6
  <2>2. /\ t[n + j] = Lead => n + j < Len(t) /\ t[n + j + 1] = Cont
        /\ t[n + j] = Cont => t[n + j - 1] = Lead
    <3>1. PICK k \in 1..Len(t) : k = n + j
      BY <2>1
    <3>2. /\ t[k] = Lead => k < Len(t) /\ t[k + 1] = Cont
          /\ t[k] = Cont => k > 1 /\ t[k - 1] = Lead
      BY DEF IsUTF8
    <3>. QED BY <1>3, <1>6, <2>1, <3>1, <3>2
  <2>3. n + j < Len(t) => j < Len(v) /\ v[j + 1] = t[n + j + 1]
    <3>. SUFFICES ASSUME n + j < Len(t) PROVE j < Len(v) /\ v[j + 1] = t[n + j + 1]
      OBVIOUS
    <3>1. j < Len(v) /\ j + 1 \in 1..(Len(t) - n) /\ n + (j + 1) = n + j + 1
      BY <1>3, <1>6, <2>1
    <3>2. v[j + 1] = t[n + (j + 1)]
      BY <1>6, <3>1
    <3>. QED BY <3>1, <3>2
  <2>4. j > 1 => v[j - 1] = t[n + j - 1]
    <3>. SUFFICES ASSUME j > 1 PROVE v[j - 1] = t[n + j - 1]
      OBVIOUS
    <3>1. j - 1 \in 1..(Len(t) - n) /\ n + (j - 1) = n + j - 1
      BY <1>3, <1>6, <2>1
    <3>2. v[j - 1] = t[n + (j - 1)]
      BY <1>6, <3>1
    <3>. QED BY <3>1, <3>2
  <2>5. j = 1 => t[n + j - 1] # Lead
    BY <1>6, <1>7, <1>8
  <2>. QED BY <1>6, <2>1, <2>2, <2>3, <2>4, <2>5
<1>. QED BY <1>5, <1>9 DEF IsUTF8

-----------------------------------------------------------------------------
(* Types                                                                   *)

\* Whatever is on disk: what is left of it to read, and what a write makes of it.
LEMMA UnreadType ==
  ASSUME FileTypeOK, data # Nil
  PROVE  /\ data \in Seq(Byte) /\ offset \in 0..Len(data) /\ Len(data) \in Nat
         /\ Unread = LS!From(data, offset) /\ Unread \in Seq(Byte)
         /\ Len(Unread) = Len(data) - offset
<1>1. data \in Seq(Byte) /\ offset \in 0..Len(data) /\ Len(data) \in Nat /\ offset \in Nat
  BY LenProperties DEF FileTypeOK
<1>2. Unread = LS!From(data, offset)
  BY DEF Unread, LS!From
<1>3. PICK u : u = LS!From(data, offset)
  OBVIOUS
<1>4. u \in Seq(Byte) /\ Len(u) = IF offset < Len(data) THEN Len(data) - offset ELSE 0
  BY <1>1, <1>3, Rest
<1>. QED BY <1>1, <1>2, <1>3, <1>4

LEMMA WriteType ==
  ASSUME NEW t \in Seq(Byte), NEW n \in 0..Len(t), NEW w \in Seq(Byte)
  PROVE  LET d == SubSeq(t, 1, n) \o w \o LS!From(t, n + Len(w)) IN
         /\ d \in Seq(Byte) /\ n + Len(w) \in 0..Len(d)
         /\ LS!From(d, n + Len(w)) = LS!From(t, n + Len(w))
<1>1. PICK m \in Nat : m = n + Len(w)
  BY LenProperties
<1>2. PICK a \in Seq(Byte) : a = SubSeq(t, 1, n) /\ Len(a) = n
  BY Start
<1>3. PICK z \in Seq(Byte) : z = LS!From(t, m)
  BY Rest
<1>4. PICK b \in Seq(Byte) : b = a \o w /\ Len(b) = m
  <2>1. a \o w \in Seq(Byte) /\ Len(a \o w) = Len(a) + Len(w)
    BY ConcatProperties
  <2>. QED BY <1>1, <1>2, <2>1
<1>5. PICK d \in Seq(Byte) :
        /\ d = b \o z /\ Len(d) = m + Len(z)
        /\ \A i \in 1..(m + Len(z)) : d[i] = IF i <= m THEN b[i] ELSE z[i - m]
  <2>1. /\ b \o z \in Seq(Byte) /\ Len(b \o z) = Len(b) + Len(z)
        /\ \A i \in 1..(Len(b) + Len(z)) :
             (b \o z)[i] = IF i <= Len(b) THEN b[i] ELSE z[i - Len(b)]
    BY ConcatProperties
  <2>. QED BY <1>4, <2>1
<1>6. Len(z) \in Nat /\ Len(d) \in Nat
  BY LenProperties
<1>7. PICK v \in Seq(Byte) :
        /\ v = LS!From(d, m)
        /\ Len(v) = IF m < Len(d) THEN Len(d) - m ELSE 0
        /\ \A i \in 1..(Len(d) - m) : v[i] = d[m + i]
  BY Rest
<1>8. Len(v) = Len(z)
  BY <1>5, <1>6, <1>7
<1>9. \A i \in 1..Len(v) : v[i] = z[i]
  <2>. SUFFICES ASSUME NEW i \in 1..Len(v) PROVE v[i] = z[i]
    OBVIOUS
  <2>1. i \in 1..(Len(d) - m) /\ m + i \in 1..(m + Len(z)) /\ ~(m + i <= m) /\ m + i - m = i
    BY <1>5, <1>6, <1>8
  <2>2. v[i] = d[m + i] /\ d[m + i] = z[m + i - m]
    BY <1>5, <1>7, <2>1
  <2>. QED BY <2>1, <2>2
<1>10. v = z
  BY <1>8, <1>9, SeqEqual
<1>11. m \in 0..Len(d)
  BY <1>5, <1>6
<1>. QED BY <1>1, <1>2, <1>3, <1>4, <1>5, <1>7, <1>10, <1>11

\* The bytes that a chunk has for C.
LEMMA CStringType ==
  ASSUME NEW t \in Seq(Byte)
  PROVE  CString(t) \in Seq(Byte)
<1>1. CASE LS!Places(<<Nul>>, t) = {}
  BY <1>1 DEF CString
<1>2. CASE LS!Places(<<Nul>>, t) # {}
  <2>1. PICK i \in LS!Places(<<Nul>>, t) : TRUE
    BY <1>2
  <2>2. Len(t) \in Nat /\ i \in 1..Len(t) /\ SubSeq(t, i, i) = <<Nul>>
    BY <2>1, LenProperties DEF LS!Places
  <2>3. SubSeq(t, i, i) \in Seq(Byte)
    BY <2>2, OneByte
  <2>4. <<Nul>> \in Seq(Byte) /\ <<Nul>> # <<>>
    BY <2>2, <2>3
  <2>5. LS!Before(<<Nul>>, t) \in Seq(Byte)
    BY <1>2, <2>4, Cut
  <2>. QED BY <1>2, <2>5 DEF CString
<1>. QED BY <1>1, <1>2

\* A chunk is the next bytes, whether all of them or not.
LEMMA ChunkType ==
  ASSUME FileTypeOK, data # Nil
  PROVE  /\ Min2(Chunk, Len(Unread)) \in 0..Len(Unread)
         /\ SubSeq(Unread, 1, Min2(Chunk, Len(Unread))) \in Seq(Byte)
<1>1. Unread \in Seq(Byte)
  BY UnreadType
<1>2. PICK n : n = Min2(Chunk, Len(Unread))
  OBVIOUS
<1>3. n \in 0..Len(Unread)
  BY <1>1, <1>2, LenProperties, FSFileAssumption DEF Min2
<1>4. SubSeq(Unread, 1, n) \in Seq(Byte)
  BY <1>1, <1>3, Start
<1>. QED BY <1>2, <1>3, <1>4

\* A line that is returned, or nil.
LEMMA ReturnType ==
  ASSUME FileTypeOK, NEW l \in Seq(Byte) \cup {Nil}, Return(l)
  PROVE  /\ line' \in Seq(Byte) \cup {Nil}
         /\ lines' \in Seq(Seq(Byte)) \cup {Nil}
         /\ pc' \in {"idle", "buffer"}
<1>1. lines # Nil /\ l # Nil => Append(lines, l) \in Seq(Seq(Byte))
  BY AppendProperties DEF FileTypeOK
<1>. QED BY <1>1 DEF Return, FileTypeOK

\* The buffer is searched.
LEMMA SearchType == FileTypeOK /\ SearchBuffer => FileTypeOK'
<1>. SUFFICES ASSUME FileTypeOK, SearchBuffer PROVE FileTypeOK'
  OBVIOUS
<1>1. CanRead /\ sep \in Sep /\ sustainBuffer \in Seq(Byte) /\ IsUTF8(sustainBuffer)
  BY DEF FileTypeOK, SearchBuffer
<1>2. CASE LS!Places(sep, sustainBuffer) # {}
  <2>1. PICK l : l = LS!Before(sep, sustainBuffer)
    OBVIOUS
  <2>2. PICK b : b = LS!After(sep, sustainBuffer)
    OBVIOUS
  <2>3. l \in Seq(Byte) /\ b \in Seq(Byte)
    BY <1>1, <1>2, <2>1, <2>2, Cut, FSFileAssumption
  <2>4. IsUTF8(b)
    BY <1>1, <1>2, <2>2, CutUTF8
  <2>5. Return(l) /\ sustainBuffer' = b
    BY <1>2, <2>1, <2>2 DEF SearchBuffer
  <2>. QED BY <1>1, <2>3, <2>4, <2>5, ReturnType DEF SearchBuffer, FileTypeOK, CanRead
<1>3. CASE LS!Places(sep, sustainBuffer) = {}
  BY <1>1, <1>3 DEF SearchBuffer, FileTypeOK, CanRead
<1>. QED BY <1>2, <1>3

\* What is taken to be behind a separator is text.
LEMMA BehindType ==
  ASSUME NEW s \in Seq(Byte), NEW t \in Seq(Byte), s # <<>>, LS!Places(s, t) # {}
  PROVE  Behind(s, t) \in Seq(Byte)
<1>1. Length(s) \in Nat
  <2>1. Len(s) \in Int
    BY LenProperties
  <2>2. {i \in 1..Len(s) : s[i] # Cont} \in SUBSET (1..Len(s)) /\ IsFiniteSet(1..Len(s))
    BY <2>1, FS_Interval
  <2>. QED BY <2>2, FS_Subset, FS_CardinalityType DEF Length
<1>2. Len(LS!Before(s, t)) \in Nat
  BY Cut, LenProperties
<1>. QED BY <1>1, <1>2, Rest DEF Behind

\* A chunk is read, and what of it can be decoded is kept.
LEMMA ChunkReadType == FileTypeOK /\ ReadChunk => FileTypeOK'
<1>. SUFFICES ASSUME FileTypeOK, ReadChunk PROVE FileTypeOK'
  OBVIOUS
<1>1. /\ CanRead /\ data # Nil /\ sep \in Sep /\ sep \in Seq(Byte) /\ sep # <<>>
      /\ sustainBuffer \in Seq(Byte) /\ IsUTF8(sustainBuffer)
  BY FSFileAssumption DEF FileTypeOK, ReadChunk, CanRead
<1>2. PICK n : n = Min2(Chunk, Len(Unread))
  OBVIOUS
<1>3. PICK c : c = CString(SubSeq(Unread, 1, n))
  OBVIOUS
<1>4. n \in 0..Len(Unread) /\ c \in Seq(Byte)
  BY <1>1, <1>2, <1>3, ChunkType, CStringType
<1>5. offset + n \in 0..Len(data)
  <2>1. offset \in 0..Len(data) /\ Len(data) \in Nat /\ Len(Unread) = Len(data) - offset
    BY <1>1, UnreadType
  <2>. QED BY <1>4, <2>1
<1>6. \A t \in Seq(Byte) : /\ DecodedOrNothing(t) \in Seq(Byte)
                           /\ IsUTF8(DecodedOrNothing(t))
  BY NothingIsUTF8 DEF DecodedOrNothing
<1>7. /\ offset' = offset + n /\ UNCHANGED <<data, access, sep, begin>>
      /\ IF LS!Places(sep, c) # {}
         THEN /\ Return(Decoded(sustainBuffer \o LS!Before(sep, c)))
              /\ sustainBuffer' = DecodedOrNothing(Behind(sep, c))
         ELSE /\ sustainBuffer' = sustainBuffer \o DecodedOrNothing(c)
              /\ UNCHANGED <<pc, line, lines>>
  BY <1>2, <1>3 DEF ReadChunk
<1>8. CASE LS!Places(sep, c) # {}
  <2>1. LS!Before(sep, c) \in Seq(Byte) /\ Behind(sep, c) \in Seq(Byte)
    BY <1>1, <1>4, <1>8, Cut, BehindType
  <2>2. Decoded(sustainBuffer \o LS!Before(sep, c)) \in Seq(Byte) \cup {Nil}
    BY <1>1, <2>1, ConcatProperties DEF Decoded
  <2>3. sustainBuffer' \in Seq(Byte) /\ IsUTF8(sustainBuffer')
    BY <1>6, <1>7, <1>8, <2>1
  <2>4. line' \in Seq(Byte) \cup {Nil} /\ lines' \in Seq(Seq(Byte)) \cup {Nil}
        /\ pc' \in {"idle", "buffer"}
    BY <1>7, <1>8, <2>2, ReturnType
  <2>. QED BY <1>1, <1>5, <1>7, <2>3, <2>4 DEF FileTypeOK, CanRead
<1>9. CASE LS!Places(sep, c) = {}
  <2>1. PICK d \in Seq(Byte) : d = DecodedOrNothing(c) /\ IsUTF8(d)
    BY <1>4, <1>6
  <2>2. sustainBuffer' = sustainBuffer \o d
    BY <1>7, <1>9, <2>1
  <2>3. sustainBuffer' \in Seq(Byte) /\ IsUTF8(sustainBuffer')
    BY <1>1, <2>1, <2>2, ConcatProperties, ConcatUTF8
  <2>. QED BY <1>1, <1>5, <1>7, <1>9, <2>3 DEF FileTypeOK, CanRead
<1>. QED BY <1>8, <1>9

\* Printing and writing, which the file may grow by.
LEMMA WritingType ==
  ASSUME FileTypeOK, NEW w \in Words, PrintObject(w) \/ WriteData(w)
  PROVE  FileTypeOK'
<1>1. data # Nil /\ w \in Seq(Byte)
  BY FSFileAssumption DEF FileTypeOK, PrintObject, WriteData, CanWrite
<1>2. data \in Seq(Byte) /\ offset \in 0..Len(data)
  BY <1>1, UnreadType
<1>3. PICK d : d = WriteAt(offset, w)
  OBVIOUS
<1>4. d \in Seq(Byte) /\ offset + Len(w) \in 0..Len(d)
  BY <1>1, <1>2, <1>3, WriteType DEF WriteAt
<1>5. d # Nil
  BY <1>4, FSFileAssumption
<1>6. data' = d /\ offset' = offset + Len(w) /\ sustainBuffer' \in {sustainBuffer, <<>>}
      /\ UNCHANGED <<access, callVars>>
  BY <1>3 DEF PrintObject, WriteData
<1>7. sustainBuffer' \in Seq(Byte) /\ IsUTF8(sustainBuffer')
  BY <1>6, NothingIsUTF8, EmptySeq DEF FileTypeOK
<1>8. (sustainBuffer' # <<>> \/ pc' # "idle") => CanRead'
  BY <1>6 DEF FileTypeOK, CanRead, callVars
<1>. QED BY <1>4, <1>5, <1>6, <1>7, <1>8 DEF FileTypeOK, callVars

\* The calls that drop the buffer and move the file pointer, also in a file that
\* they open, make or truncate.
LEMMA DroppedType ==
  ASSUME FileTypeOK, pc = "idle", UNCHANGED callVars, sustainBuffer' = <<>>,
         access' \in {"closed", "<", ">", "+"}, data' = Nil => access' = "closed",
         data' \in Seq(Byte) \cup {Nil},
         offset' \in 0..(IF data' = Nil THEN 0 ELSE Len(data'))
  PROVE  FileTypeOK'
<1>1. sustainBuffer' \in Seq(Byte) /\ IsUTF8(sustainBuffer')
  BY NothingIsUTF8, EmptySeq
<1>. QED BY <1>1 DEF FileTypeOK, callVars

\* The calls that do not read lines.
LEMMA CallType ==
  ASSUME FileTypeOK,
         \/ Open \/ OpenExisting \/ OpenCreated \/ CloseFile \/ Reset
         \/ \E s \in Sep : Readln(s) \/ Readlines(s)
         \/ data # Nil /\ \E n \in 0..Len(data) :
              ReadData(n) \/ SeekToFileOffset(n) \/ TruncateFileAtOffset(n)
  PROVE  FileTypeOK'
<1>1. <<>> \in Seq(Byte) /\ Len(<<>>) = 0 /\ <<>> # Nil
  <2>1. <<>> \in Seq(Byte) /\ Len(<<>>) = 0
    BY EmptySeq
  <2>. QED BY <2>1, FSFileAssumption
<1>2. data # Nil => /\ data \in Seq(Byte) /\ offset \in 0..Len(data) /\ Len(data) \in Nat
                    /\ Len(Unread) = Len(data) - offset
  BY UnreadType
<1>3. CASE Open \/ OpenExisting \/ OpenCreated
  <2>1. /\ pc = "idle" /\ UNCHANGED callVars /\ sustainBuffer' = <<>> /\ offset' = 0
        /\ access' \in {"<", ">", "+"} /\ data' \in {data, <<>>} /\ data' # Nil
    BY <1>1, <1>3 DEF Open, OpenExisting, OpenCreated, Opened, Idle
  <2>2. data' \in Seq(Byte) /\ Len(data') \in Nat
    BY <1>1, <1>2, <2>1
  <2>. QED BY <2>1, <2>2, DroppedType
<1>4. CASE CloseFile
  BY <1>2, <1>4, DroppedType DEF CloseFile, Idle, FileTypeOK
<1>5. ASSUME NEW n \in Nat, data # Nil, n <= Len(data), SeekToFileOffset(n)
      PROVE  FileTypeOK'
  BY <1>2, <1>5, DroppedType DEF SeekToFileOffset, Idle, FileTypeOK
<1>6. CASE Reset
  <2>1. data # Nil
    BY <1>6 DEF Reset, SeekToFileOffset, FileTypeOK
  <2>. QED BY <1>2, <1>5, <1>6, <2>1 DEF Reset
<1>7. ASSUME NEW n \in 0..Len(data), data # Nil, ReadData(n)
      PROVE  FileTypeOK'
  <2>1. Min2(offset + n, Len(data)) \in 0..Len(data)
    BY <1>2, <1>7 DEF Min2
  <2>. QED BY <1>2, <1>7, <2>1, DroppedType DEF ReadData, Idle, FileTypeOK
<1>8. ASSUME NEW n \in 0..Len(data), data # Nil, TruncateFileAtOffset(n)
      PROVE  FileTypeOK'
  <2>1. SubSeq(data, 1, n) \in Seq(Byte) /\ Len(SubSeq(data, 1, n)) = n /\ n \in 0..n
    BY <1>2, <1>8, Start
  <2>2. SubSeq(data, 1, n) # Nil
    BY <2>1, FSFileAssumption
  <2>. QED
    BY <1>8, <2>1, <2>2, DroppedType DEF TruncateFileAtOffset, Idle, FileTypeOK, CanWrite
<1>9. ASSUME NEW s \in Sep, Readln(s) \/ Readlines(s)
      PROVE  FileTypeOK'
  <2>1. <<>> \in Seq(Seq(Byte))
    OBVIOUS
  <2>. QED BY <1>9, <2>1 DEF Readln, Readlines, FileTypeOK, CanRead
<1>10. ASSUME NEW n \in 0..Len(data), data # Nil, SeekToFileOffset(n)
       PROVE  FileTypeOK'
  BY <1>2, <1>5, <1>10
<1>. QED BY <1>3, <1>4, <1>6, <1>7, <1>8, <1>9, <1>10

\* The rest of the buffer is the last line; other processes append.
LEMMA EndType == FileTypeOK /\ EndOfFile => FileTypeOK'
<1>. SUFFICES ASSUME FileTypeOK, EndOfFile PROVE FileTypeOK'
  OBVIOUS
<1>1. PICK l : l = IF sustainBuffer # <<>> THEN sustainBuffer ELSE Nil
  OBVIOUS
<1>2. l \in Seq(Byte) \cup {Nil} /\ Return(l)
  BY <1>1 DEF EndOfFile, FileTypeOK
<1>3. sustainBuffer' = <<>> /\ CanRead
  BY DEF EndOfFile, FileTypeOK
<1>. QED
  BY <1>2, <1>3, ReturnType, NothingIsUTF8, EmptySeq DEF EndOfFile, FileTypeOK, CanRead

LEMMA GrowType ==
  ASSUME FileTypeOK, NEW b \in Byte, Grow(b)
  PROVE  FileTypeOK'
<1>1. data # Nil /\ data \in Seq(Byte) /\ offset \in 0..Len(data) /\ Len(data) \in Nat
  BY UnreadType DEF Grow
<1>2. Append(data, b) \in Seq(Byte) /\ Len(Append(data, b)) = Len(data) + 1
  BY <1>1, AppendProperties
<1>3. data' \in Seq(Byte) /\ data' # Nil /\ offset' \in 0..Len(data')
  BY <1>1, <1>2, FSFileAssumption DEF Grow
<1>. QED BY <1>1, <1>3 DEF Grow, FileTypeOK, CanRead

LEMMA FileInitType == FSFileInit => FileTypeOK
<1>. SUFFICES ASSUME FSFileInit PROVE FileTypeOK
  OBVIOUS
<1>1. data \in Seq(Byte) \cup {Nil}
  BY FSFileAssumption, SeqDef DEF FSFileInit, BoundedSeq, SeqOf
<1>2. offset \in 0..(IF data = Nil THEN 0 ELSE Len(data))
  BY <1>1, LenProperties DEF FSFileInit
<1>3. sustainBuffer \in Seq(Byte) /\ IsUTF8(sustainBuffer)
  BY NothingIsUTF8, EmptySeq DEF FSFileInit
<1>. QED BY <1>1, <1>2, <1>3 DEF FSFileInit, FileTypeOK

LEMMA FileStepType ==
  ASSUME FileTypeOK, [FSFileNext]_fileVars
  PROVE  FileTypeOK'
<1>1. CASE UNCHANGED fileVars
  BY <1>1 DEF fileVars, FileTypeOK, CanRead
<1>. QED
  BY <1>1, CallType, SearchType, ChunkReadType, EndType, WritingType, GrowType
     DEF FSFileNext, Reading

LEMMA FileInvariant == FSFileSpec => []FileTypeOK
BY FileInitType, FileStepType, PTL DEF FSFileSpec

-----------------------------------------------------------------------------
(* Separators of one byte                                                  *)

\* Text whose bytes are all characters
PlainBytes == {Nul, Lead, Cont} \cap Byte = {}

\* Separators that are one of them as well: none can be cut in two.
OneByteText == PlainBytes /\ \A s \in Sep : Len(s) = 1

\* Nothing is lost in decoding plain bytes.
LEMMA PlainText ==
  ASSUME PlainBytes, NEW t \in Seq(Byte)
  PROVE  IsUTF8(t) /\ CString(t) = t
<1>1. Len(t) \in Nat /\ \A i \in 1..Len(t) : t[i] \in Byte
  BY LenProperties, ElementOfSeq
<1>2. IsUTF8(t)
  BY <1>1 DEF IsUTF8, PlainBytes
<1>3. ASSUME NEW i \in 1..Len(t) PROVE SubSeq(t, i, i) # <<Nul>>
  <2>1. SubSeq(t, i, i) \in Seq(Byte)
    BY OneByte
  <2>2. Nul \notin Byte
    BY DEF PlainBytes
  <2>3. <<Nul>> \notin Seq(Byte)
    BY <2>2
  <2>. QED BY <2>1, <2>3
<1>4. LS!Places(<<Nul>>, t) = {}
  BY <1>1, <1>3 DEF LS!Places
<1>. QED BY <1>2, <1>4 DEF CString

\* Where all bytes are characters, what is behind the separator is what is after it.
LEMMA BehindIsAfter ==
  ASSUME PlainBytes, NEW s \in Seq(Byte), s # <<>>, NEW t \in Seq(Byte), LS!Places(s, t) # {}
  PROVE  Behind(s, t) = LS!After(s, t)
<1>1. Len(s) \in Nat /\ Len(t) \in Nat /\ \A i \in 1..Len(s) : s[i] \in Byte
  BY LenProperties, ElementOfSeq
<1>2. Length(s) = Len(s)
  <2>1. {i \in 1..Len(s) : s[i] # Cont} = 1..Len(s)
    BY <1>1 DEF PlainBytes
  <2>2. PICK n \in Nat : n = Len(s)
    BY <1>1
  <2>3. Cardinality(1..n) = IF 1 > n THEN 0 ELSE n - 1 + 1
    BY FS_Interval
  <2>4. Cardinality(1..n) = n
    BY <2>3
  <2>. QED BY <2>1, <2>2, <2>4 DEF Length
<1>3. PICK i \in LS!Places(s, t) :
        i = LS!FirstPlace(s, t) /\ Len(LS!Before(s, t)) = i - 1
  BY Cut
<1>4. i \in Nat
  BY <1>1, <1>3 DEF LS!Places
<1>5. Behind(s, t) = SubSeq(t, (i - 1 + Len(s)) + 1, Len(t))
  BY <1>2, <1>3 DEF Behind, LS!From
<1>6. (i - 1 + Len(s)) + 1 = i + Len(s)
  BY <1>1, <1>4
<1>. QED BY <1>3, <1>5, <1>6 DEF LS!After

\* The places of a separator of one byte.
LEMMA OnePlaces ==
  ASSUME OneByteText, NEW s \in Sep, NEW t \in Seq(Byte)
  PROVE  /\ s \in Seq(Byte) /\ s # <<>> /\ Len(s) = 1
         /\ LS!Places(s, t) = {i \in 1..Len(t) : t[i] = s[1]}
<1>1. s \in Seq(Byte) /\ s # <<>> /\ Len(s) = 1 /\ Len(t) \in Nat
  BY FSFileAssumption, LenProperties DEF OneByteText
<1>2. ASSUME NEW i \in 1..Len(t)
      PROVE  SubSeq(t, i, i + Len(s) - 1) = s <=> t[i] = s[1]
  <2>1. i + Len(s) - 1 = i
    BY <1>1
  <2>2. PICK u \in Seq(Byte) : u = SubSeq(t, i, i) /\ Len(u) = 1 /\ u[1] = t[i]
    BY OneByte
  <2>3. ASSUME u[1] = s[1] PROVE u = s
    <3>1. \A j \in 1..Len(u) : u[j] = s[j]
      BY <2>2, <2>3
    <3>2. Len(u) = Len(s)
      BY <1>1, <2>2
    <3>. QED BY <1>1, <3>1, <3>2, SeqEqual
  <2>. QED BY <2>1, <2>2, <2>3
<1>3. 1..(Len(t) - Len(s) + 1) = 1..Len(t)
  BY <1>1
<1>. QED BY <1>1, <1>2, <1>3 DEF LS!Places

\* What is before and after the first of them.
LEMMA OneCut ==
  ASSUME OneByteText, NEW s \in Sep, NEW t \in Seq(Byte), LS!Places(s, t) # {}
  PROVE  \E i \in 1..Len(t) :
           /\ t[i] = s[1] /\ \A j \in 1..(i - 1) : t[j] # s[1]
           /\ LS!Before(s, t) = SubSeq(t, 1, i - 1)
           /\ LS!After(s, t) = LS!From(t, i)
<1>1. s \in Seq(Byte) /\ s # <<>> /\ Len(s) = 1 /\ Len(t) \in Nat
      /\ LS!Places(s, t) = {i \in 1..Len(t) : t[i] = s[1]}
  BY OnePlaces, LenProperties
<1>2. PICK i \in LS!Places(s, t) :
        i = LS!FirstPlace(s, t) /\ \A j \in LS!Places(s, t) : i <= j
  BY <1>1, FirstIsPlace
<1>3. i \in 1..Len(t) /\ t[i] = s[1]
  BY <1>1
<1>4. \A j \in 1..(i - 1) : t[j] # s[1]
  <2>. SUFFICES ASSUME NEW j \in 1..(i - 1), t[j] = s[1] PROVE FALSE
    OBVIOUS
  <2>1. j \in LS!Places(s, t) /\ j < i
    BY <1>1, <1>3
  <2>. QED BY <1>2, <1>3, <2>1
<1>5. LS!Before(s, t) = SubSeq(t, 1, i - 1)
  BY <1>2 DEF LS!Before
<1>6. LS!After(s, t) = LS!From(t, i)
  <2>1. i + Len(s) = i + 1
    BY <1>1
  <2>. QED BY <1>2, <2>1 DEF LS!After, LS!From
<1>. QED BY <1>3, <1>4, <1>5, <1>6

\* The first place is where it is, whatever is added at the end.
LEMMA OneFirst ==
  ASSUME OneByteText, NEW s \in Sep, NEW t \in Seq(Byte),
         NEW i \in 1..Len(t), t[i] = s[1], \A j \in 1..(i - 1) : t[j] # s[1]
  PROVE  /\ LS!Places(s, t) # {}
         /\ LS!Before(s, t) = SubSeq(t, 1, i - 1)
         /\ LS!After(s, t) = LS!From(t, i)
<1>1. LS!Places(s, t) # {}
  BY OnePlaces
<1>2. PICK k \in 1..Len(t) :
        /\ t[k] = s[1] /\ \A j \in 1..(k - 1) : t[j] # s[1]
        /\ LS!Before(s, t) = SubSeq(t, 1, k - 1)
        /\ LS!After(s, t) = LS!From(t, k)
  BY <1>1, OneCut
<1>3. Len(t) \in Nat /\ i \in Nat /\ k \in Nat
  BY LenProperties
<1>4. k = i
  <2>1. i < k => i \in 1..(k - 1)
    BY <1>3
  <2>2. k < i => k \in 1..(i - 1)
    BY <1>3
  <2>. QED BY <1>2, <1>3, <2>1, <2>2
<1>. QED BY <1>1, <1>2, <1>4

\* The beginning and the rest of two texts, one after the other.
LEMMA OfBoth ==
  ASSUME NEW t \in Seq(Byte), NEW u \in Seq(Byte)
  PROVE  /\ \A n \in 0..Len(t) : /\ SubSeq(t \o u, 1, n) = SubSeq(t, 1, n)
                                 /\ LS!From(t \o u, n) = LS!From(t, n) \o u
         /\ \A n \in 0..Len(u) :
              /\ SubSeq(t \o u, 1, Len(t) + n) = t \o SubSeq(u, 1, n)
              /\ LS!From(t \o u, Len(t) + n) = LS!From(u, n)
<1>1. Len(t) \in Nat /\ Len(u) \in Nat
  BY LenProperties
<1>2. PICK v \in Seq(Byte) :
        /\ v = t \o u /\ Len(v) = Len(t) + Len(u)
        /\ \A i \in 1..(Len(t) + Len(u)) : v[i] = IF i <= Len(t) THEN t[i] ELSE u[i - Len(t)]
  <2>1. /\ t \o u \in Seq(Byte) /\ Len(t \o u) = Len(t) + Len(u)
        /\ \A i \in 1..(Len(t) + Len(u)) :
             (t \o u)[i] = IF i <= Len(t) THEN t[i] ELSE u[i - Len(t)]
    BY ConcatProperties
  <2>. QED BY <2>1
<1>3. ASSUME NEW n \in 0..Len(t)
      PROVE  SubSeq(v, 1, n) = SubSeq(t, 1, n) /\ LS!From(v, n) = LS!From(t, n) \o u
  <2>1. n \in Nat /\ n \in 0..Len(v) /\ n <= Len(t)
    BY <1>1, <1>2
  <2>2. PICK a \in Seq(Byte) : a = SubSeq(v, 1, n) /\ Len(a) = n
                               /\ \A i \in 1..n : a[i] = v[i]
    BY <2>1, Start
  <2>3. PICK b \in Seq(Byte) : b = SubSeq(t, 1, n) /\ Len(b) = n
                               /\ \A i \in 1..n : b[i] = t[i]
    BY <2>1, Start
  <2>4. \A i \in 1..n : v[i] = t[i]
    BY <1>1, <1>2, <2>1
  <2>5. a = b
    BY <2>2, <2>3, <2>4, SeqEqual
  <2>6. PICK c \in Seq(Byte) : c = LS!From(v, n) /\ Len(c) = Len(v) - n
                               /\ \A i \in 1..(Len(v) - n) : c[i] = v[n + i]
    <3>1. /\ LS!From(v, n) \in Seq(Byte)
          /\ Len(LS!From(v, n)) = IF n < Len(v) THEN Len(v) - n ELSE 0
          /\ \A i \in 1..(Len(v) - n) : LS!From(v, n)[i] = v[n + i]
      BY <2>1, Rest
    <3>2. Len(LS!From(v, n)) = Len(v) - n
      BY <1>1, <1>2, <2>1, <3>1
    <3>. QED BY <3>1, <3>2
  <2>7. PICK d \in Seq(Byte) : d = LS!From(t, n) /\ Len(d) = Len(t) - n
                               /\ \A i \in 1..(Len(t) - n) : d[i] = t[n + i]
    <3>1. /\ LS!From(t, n) \in Seq(Byte)
          /\ Len(LS!From(t, n)) = IF n < Len(t) THEN Len(t) - n ELSE 0
          /\ \A i \in 1..(Len(t) - n) : LS!From(t, n)[i] = t[n + i]
      BY <2>1, Rest
    <3>2. Len(LS!From(t, n)) = Len(t) - n
      BY <1>1, <2>1, <3>1
    <3>. QED BY <3>1, <3>2
  <2>8. /\ d \o u \in Seq(Byte) /\ Len(d \o u) = Len(d) + Len(u)
        /\ \A i \in 1..(Len(d) + Len(u)) :
             (d \o u)[i] = IF i <= Len(d) THEN d[i] ELSE u[i - Len(d)]
    BY ConcatProperties
  <2>9. Len(c) = Len(d \o u)
    BY <1>1, <1>2, <2>1, <2>6, <2>7, <2>8
  <2>10. ASSUME NEW i \in 1..Len(c) PROVE c[i] = (d \o u)[i]
    <3>1. /\ i \in Nat /\ i >= 1 /\ i <= Len(t) + Len(u) - n
          /\ Len(d) \in Nat /\ Len(d) = Len(t) - n
      BY <1>1, <1>2, <2>1, <2>6, <2>7
    <3>2. c[i] = v[n + i]
      BY <2>6
    <3>3. n + i \in 1..(Len(t) + Len(u)) /\ i \in 1..(Len(d) + Len(u))
      BY <1>1, <2>1, <3>1
    <3>4. /\ v[n + i] = IF n + i <= Len(t) THEN t[n + i] ELSE u[n + i - Len(t)]
          /\ (d \o u)[i] = IF i <= Len(d) THEN d[i] ELSE u[i - Len(d)]
      BY <1>2, <2>8, <3>3
    <3>5. CASE i <= Len(d)
      <4>1. i \in 1..(Len(t) - n) /\ n + i <= Len(t)
        BY <1>1, <2>1, <3>1, <3>5
      <4>2. d[i] = t[n + i]
        BY <2>7, <4>1
      <4>. QED BY <3>2, <3>4, <3>5, <4>1, <4>2
    <3>6. CASE ~(i <= Len(d))
      <4>1. ~(n + i <= Len(t)) /\ n + i - Len(t) = i - Len(d)
        BY <1>1, <2>1, <3>1, <3>6
      <4>. QED BY <3>2, <3>4, <3>6, <4>1
    <3>. QED BY <3>5, <3>6
  <2>11. c = d \o u
    BY <2>8, <2>9, <2>10, SeqEqual
  <2>. QED BY <2>2, <2>3, <2>5, <2>6, <2>7, <2>11
<1>4. ASSUME NEW n \in 0..Len(u)
      PROVE  /\ SubSeq(v, 1, Len(t) + n) = t \o SubSeq(u, 1, n)
             /\ LS!From(v, Len(t) + n) = LS!From(u, n)
  <2>1. PICK m \in Nat : m = Len(t) + n
    BY <1>1
  <2>2. n \in Nat /\ n <= Len(u) /\ m \in 0..Len(v)
    BY <1>1, <1>2, <2>1
  <2>3. PICK a \in Seq(Byte) : a = SubSeq(v, 1, m) /\ Len(a) = m
                               /\ \A i \in 1..m : a[i] = v[i]
    BY <2>2, Start
  <2>4. PICK b \in Seq(Byte) : b = SubSeq(u, 1, n) /\ Len(b) = n
                               /\ \A i \in 1..n : b[i] = u[i]
    BY Start
  <2>5. PICK e \in Seq(Byte) :
          /\ e = t \o b /\ Len(e) = m
          /\ \A i \in 1..m : e[i] = IF i <= Len(t) THEN t[i] ELSE b[i - Len(t)]
    <3>1. PICK e : e = t \o b
      OBVIOUS
    <3>2. /\ e \in Seq(Byte) /\ Len(e) = Len(t) + Len(b)
          /\ \A i \in 1..(Len(t) + Len(b)) :
               e[i] = IF i <= Len(t) THEN t[i] ELSE b[i - Len(t)]
      BY <3>1, ConcatProperties
    <3>3. Len(t) + Len(b) = m
      BY <2>1, <2>4
    <3>4. Len(e) = m /\ \A i \in 1..m : e[i] = IF i <= Len(t) THEN t[i] ELSE b[i - Len(t)]
      BY <3>2, <3>3
    <3>. QED BY <3>1, <3>2, <3>4
  <2>6. ASSUME NEW i \in 1..m PROVE a[i] = e[i]
    <3>1. i \in 1..(Len(t) + Len(u)) /\ (~(i <= Len(t)) => i - Len(t) \in 1..n)
      BY <1>1, <2>1, <2>2
    <3>2. a[i] = v[i]
      BY <2>3
    <3>3. /\ v[i] = IF i <= Len(t) THEN t[i] ELSE u[i - Len(t)]
          /\ e[i] = IF i <= Len(t) THEN t[i] ELSE b[i - Len(t)]
      BY <1>2, <2>5, <3>1
    <3>4. ~(i <= Len(t)) => b[i - Len(t)] = u[i - Len(t)]
      BY <2>4, <3>1
    <3>. QED BY <3>2, <3>3, <3>4
  <2>7. a = e
    BY <2>3, <2>5, <2>6, SeqEqual
  <2>8. PICK c \in Seq(Byte) :
          /\ c = LS!From(v, m) /\ Len(c) = IF m < Len(v) THEN Len(v) - m ELSE 0
          /\ \A i \in 1..(Len(v) - m) : c[i] = v[m + i]
    BY Rest
  <2>9. PICK d \in Seq(Byte) :
          /\ d = LS!From(u, n) /\ Len(d) = IF n < Len(u) THEN Len(u) - n ELSE 0
          /\ \A i \in 1..(Len(u) - n) : d[i] = u[n + i]
    BY <2>2, Rest
  <2>10. Len(c) = Len(u) - n /\ Len(d) = Len(u) - n /\ Len(v) - m = Len(u) - n
    BY <1>1, <1>2, <2>1, <2>2, <2>8, <2>9
  <2>11. ASSUME NEW i \in 1..Len(c) PROVE c[i] = d[i]
    <3>1. i \in 1..(Len(u) - n) /\ i \in 1..(Len(v) - m)
      BY <2>10
    <3>2. m + i \in 1..(Len(t) + Len(u)) /\ ~(m + i <= Len(t)) /\ m + i - Len(t) = n + i
      BY <1>1, <2>1, <2>2, <3>1
    <3>3. v[m + i] = u[m + i - Len(t)]
      BY <1>2, <3>2
    <3>. QED BY <2>8, <2>9, <3>1, <3>2, <3>3
  <2>12. c = d
    BY <2>10, <2>11, SeqEqual
  <2>. QED BY <2>1, <2>3, <2>4, <2>5, <2>7, <2>8, <2>9, <2>12
<1>. QED BY <1>2, <1>3, <1>4

\* A text is its first n bytes and what is after them, and what is after those
\* and k more is after n + k.
LEMMA Both ==
  ASSUME NEW t \in Seq(Byte), NEW n \in 0..Len(t)
  PROVE  /\ SubSeq(t, 1, n) \o LS!From(t, n) = t
         /\ \A k \in 0..(Len(t) - n) : LS!From(LS!From(t, n), k) = LS!From(t, n + k)
<1>1. Len(t) \in Nat /\ n \in Nat /\ n <= Len(t)
  BY LenProperties
<1>2. PICK a \in Seq(Byte) : a = SubSeq(t, 1, n) /\ Len(a) = n /\ \A i \in 1..n : a[i] = t[i]
  BY Start
<1>3. PICK b \in Seq(Byte) : b = LS!From(t, n) /\ Len(b) = Len(t) - n
                             /\ \A i \in 1..(Len(t) - n) : b[i] = t[n + i]
  <2>1. PICK b \in Seq(Byte) : /\ b = LS!From(t, n)
                               /\ Len(b) = IF n < Len(t) THEN Len(t) - n ELSE 0
                               /\ \A i \in 1..(Len(t) - n) : b[i] = t[n + i]
    BY <1>1, Rest
  <2>2. Len(b) = Len(t) - n
    BY <1>1, <2>1
  <2>. QED BY <2>1, <2>2
<1>4. PICK e \in Seq(Byte) :
        /\ e = a \o b /\ Len(e) = Len(t)
        /\ \A i \in 1..Len(t) : e[i] = IF i <= n THEN a[i] ELSE b[i - n]
  <2>1. PICK e : e = a \o b
    OBVIOUS
  <2>2. /\ e \in Seq(Byte) /\ Len(e) = Len(a) + Len(b)
        /\ \A i \in 1..(Len(a) + Len(b)) : e[i] = IF i <= Len(a) THEN a[i] ELSE b[i - Len(a)]
    BY <2>1, ConcatProperties
  <2>3. Len(a) + Len(b) = Len(t)
    BY <1>1, <1>2, <1>3
  <2>4. Len(e) = Len(t) /\ \A i \in 1..Len(t) : e[i] = IF i <= n THEN a[i] ELSE b[i - n]
    BY <1>2, <2>2, <2>3
  <2>. QED BY <2>1, <2>2, <2>4
<1>5. Len(e) = Len(t)
  BY <1>4
<1>6. ASSUME NEW i \in 1..Len(e) PROVE e[i] = t[i]
  <2>1. i \in 1..Len(t) /\ i \in Nat
    BY <1>1, <1>5
  <2>2. e[i] = IF i <= n THEN a[i] ELSE b[i - n]
    BY <1>4, <2>1
  <2>3. CASE i <= n
    BY <1>1, <1>2, <2>1, <2>2, <2>3
  <2>4. CASE ~(i <= n)
    <3>1. i - n \in 1..(Len(t) - n) /\ n + (i - n) = i
      BY <1>1, <2>1, <2>4
    <3>. QED BY <1>3, <2>2, <2>4, <3>1
  <2>. QED BY <2>3, <2>4
<1>7. e = t
  BY <1>5, <1>6, SeqEqual
<1>8. ASSUME NEW k \in 0..(Len(t) - n) PROVE LS!From(b, k) = LS!From(t, n + k)
  <2>1. k \in 0..Len(b) /\ n + k = Len(a) + k
    BY <1>2, <1>3
  <2>2. LS!From(e, Len(a) + k) = LS!From(b, k)
    BY <1>4, <2>1, OfBoth
  <2>. QED BY <1>7, <2>1, <2>2
<1>. QED BY <1>2, <1>3, <1>4, <1>7, <1>8

\* The first place in the first of two texts is the first in both.
LEMMA OneFirstOfTwo ==
  ASSUME OneByteText, NEW s \in Sep, NEW t \in Seq(Byte), NEW u \in Seq(Byte),
         NEW i \in 1..Len(t), t[i] = s[1], \A j \in 1..(i - 1) : t[j] # s[1]
  PROVE  /\ LS!Places(s, t \o u) # {}
         /\ LS!Before(s, t \o u) = SubSeq(t, 1, i - 1)
         /\ LS!After(s, t \o u) = LS!From(t, i) \o u
<1>1. Len(t) \in Nat /\ Len(u) \in Nat /\ i \in Nat /\ i - 1 \in 0..Len(t) /\ i \in 0..Len(t)
  BY LenProperties
<1>2. PICK v : v = t \o u
  OBVIOUS
<1>3. /\ v \in Seq(Byte) /\ Len(v) = Len(t) + Len(u)
      /\ \A j \in 1..(Len(t) + Len(u)) : v[j] = IF j <= Len(t) THEN t[j] ELSE u[j - Len(t)]
  BY <1>2, ConcatProperties
<1>4. \A j \in 1..Len(t) : v[j] = t[j]
  BY <1>1, <1>3
<1>5. i \in 1..Len(v) /\ \A j \in 1..(i - 1) : j \in 1..Len(t)
  BY <1>1, <1>3
<1>6. v[i] = s[1] /\ \A j \in 1..(i - 1) : v[j] # s[1]
  BY <1>4, <1>5
<1>7. /\ LS!Places(s, v) # {}
      /\ LS!Before(s, v) = SubSeq(v, 1, i - 1) /\ LS!After(s, v) = LS!From(v, i)
  BY <1>3, <1>5, <1>6, OneFirst
<1>8. SubSeq(v, 1, i - 1) = SubSeq(t, 1, i - 1) /\ LS!From(v, i) = LS!From(t, i) \o u
  BY <1>1, <1>2, OfBoth
<1>. QED BY <1>2, <1>7, <1>8

-----------------------------------------------------------------------------
(* The reader is a source of lines                                         *)

\* What LineSource calls its text and its rest.
FileText == IF data = Nil THEN <<>> ELSE data
FileRest == sustainBuffer \o (IF data = Nil THEN <<>> ELSE SubSeq(data, offset + 1, Len(data)))

\* A chunk is read only when the buffer has no separator.
ReaderInv == FileTypeOK /\ (pc = "chunk" => LS!Places(sep, sustainBuffer) = {})

LEMMA RestIs ==
  ASSUME FileTypeOK, data # Nil
  PROVE  /\ FileText = data /\ FileRest = sustainBuffer \o Unread
         /\ Unread = LS!From(data, offset) /\ Unread \in Seq(Byte)
         /\ sustainBuffer \in Seq(Byte) /\ FileRest \in Seq(Byte)
<1>1. Unread = LS!From(data, offset) /\ Unread \in Seq(Byte) /\ sustainBuffer \in Seq(Byte)
  BY UnreadType DEF FileTypeOK
<1>2. sustainBuffer \o Unread \in Seq(Byte)
  BY <1>1, ConcatProperties
<1>. QED BY <1>1, <1>2 DEF FileText, FileRest, Unread

\* Nothing is read on a handle that is not good for it.
LEMMA CalledOnFile == FileTypeOK /\ pc # "idle" => data # Nil
BY DEF FileTypeOK, CanRead

\* The separator is found in the buffer.
LEMMA SearchReads ==
  ASSUME OneByteText, FileTypeOK, SearchBuffer
  PROVE  \/ FileText' = FileText /\ FileRest' = FileRest /\ sep' = sep /\ line' = line
         \/ /\ LS!Places(sep, FileRest) # {}
            /\ line' = LS!Before(sep, FileRest) /\ FileRest' = LS!After(sep, FileRest)
            /\ FileText' = FileText /\ sep' = sep
<1>1. data # Nil /\ sep \in Sep
  BY CalledOnFile DEF SearchBuffer, FileTypeOK
<1>2. PICK b : b = sustainBuffer
  OBVIOUS
<1>3. PICK u : u = Unread
  OBVIOUS
<1>4. /\ b \in Seq(Byte) /\ u \in Seq(Byte)
      /\ FileText = data /\ FileRest = b \o u
  BY <1>1, <1>2, <1>3, RestIs
<1>5. UNCHANGED <<data, offset, sep>> /\ FileText' = FileText /\ FileRest' = sustainBuffer' \o u
  BY <1>1, <1>3 DEF SearchBuffer, FileText, FileRest, Unread
<1>6. CASE LS!Places(sep, b) = {}
  BY <1>2, <1>4, <1>5, <1>6 DEF SearchBuffer
<1>7. CASE LS!Places(sep, b) # {}
  <2>1. line' = LS!Before(sep, b) /\ sustainBuffer' = LS!After(sep, b)
    BY <1>2, <1>7 DEF SearchBuffer, Return
  <2>2. PICK i \in 1..Len(b) :
          /\ b[i] = sep[1] /\ \A j \in 1..(i - 1) : b[j] # sep[1]
          /\ LS!Before(sep, b) = SubSeq(b, 1, i - 1) /\ LS!After(sep, b) = LS!From(b, i)
    BY <1>1, <1>4, <1>7, OneCut
  <2>3. /\ LS!Places(sep, b \o u) # {}
        /\ LS!Before(sep, b \o u) = SubSeq(b, 1, i - 1)
        /\ LS!After(sep, b \o u) = LS!From(b, i) \o u
    BY <1>1, <1>4, <2>2, OneFirstOfTwo
  <2>. QED BY <1>4, <1>5, <2>1, <2>2, <2>3
<1>. QED BY <1>6, <1>7

\* A chunk is read: with a separator in it the buffer and what is before are the
\* line, without one nothing is to be seen.
LEMMA ChunkReads ==
  ASSUME OneByteText, ReaderInv, ReadChunk
  PROVE  /\ \/ FileText' = FileText /\ FileRest' = FileRest /\ sep' = sep /\ line' = line
            \/ /\ LS!Places(sep, FileRest) # {}
               /\ line' = LS!Before(sep, FileRest) /\ FileRest' = LS!After(sep, FileRest)
               /\ FileText' = FileText /\ sep' = sep
         /\ pc' = "chunk" => LS!Places(sep', sustainBuffer') = {}
<1>1. /\ data # Nil /\ sep \in Sep /\ LS!Places(sep, sustainBuffer) = {}
      /\ pc = "chunk" /\ FileTypeOK
  BY CalledOnFile DEF ReaderInv, ReadChunk, FileTypeOK
<1>2. PICK n : n = Min2(Chunk, Len(Unread))
  OBVIOUS
<1>3. PICK b : b = sustainBuffer
  OBVIOUS
<1>4. PICK c : c = SubSeq(Unread, 1, n)
  OBVIOUS
<1>5. PICK u : u = LS!From(Unread, n)
  OBVIOUS
<1>6. /\ b \in Seq(Byte) /\ c \in Seq(Byte) /\ u \in Seq(Byte)
      /\ Unread \in Seq(Byte) /\ n \in 0..Len(Unread) /\ n \in Nat
  <2>1. b \in Seq(Byte) /\ c \in Seq(Byte) /\ Unread \in Seq(Byte) /\ n \in 0..Len(Unread)
    BY <1>1, <1>2, <1>3, <1>4, ChunkType, RestIs
  <2>2. n \in Nat
    BY <2>1, LenProperties
  <2>. QED BY <1>5, <2>1, <2>2, Rest
<1>7. CString(c) = c
  BY <1>6, PlainText DEF OneByteText
<1>8. \A t \in Seq(Byte) : Decoded(t) = t /\ DecodedOrNothing(t) = t
  BY PlainText DEF Decoded, DecodedOrNothing, OneByteText
<1>9. PICK t : t = b \o c
  OBVIOUS
<1>10. t \in Seq(Byte) /\ FileText = data /\ FileRest = t \o u
  <2>1. Unread = c \o u
    BY <1>4, <1>5, <1>6, Both
  <2>2. FileRest = b \o (c \o u) /\ FileText = data
    BY <1>1, <1>3, <2>1, RestIs
  <2>3. b \o (c \o u) = (b \o c) \o u
    BY <1>6, Joins
  <2>. QED BY <1>6, <1>9, <2>2, <2>3, ConcatProperties
<1>11. FileText' = FileText /\ sep' = sep /\ FileRest' = sustainBuffer' \o u
  <2>1. offset' = offset + n /\ UNCHANGED <<data, sep>>
    BY <1>2 DEF ReadChunk
  <2>2. SubSeq(data, offset' + 1, Len(data)) = LS!From(data, offset + n)
    BY <2>1 DEF LS!From
  <2>3. LS!From(data, offset + n) = u
    <3>1. /\ data \in Seq(Byte) /\ offset \in 0..Len(data)
          /\ Unread = LS!From(data, offset) /\ Len(Unread) = Len(data) - offset
      BY <1>1, UnreadType
    <3>2. n \in 0..(Len(data) - offset)
      BY <1>6, <3>1
    <3>. QED BY <1>5, <3>1, <3>2, Both
  <2>. QED BY <1>1, <2>1, <2>2, <2>3 DEF FileText, FileRest
<1>12. IF LS!Places(sep, c) # {}
       THEN /\ Return(Decoded(b \o LS!Before(sep, c)))
            /\ sustainBuffer' = DecodedOrNothing(LS!After(sep, c))
       ELSE /\ sustainBuffer' = b \o DecodedOrNothing(c)
            /\ UNCHANGED <<pc, line, lines>>
  <2>1. LS!Places(sep, c) # {} => Behind(sep, c) = LS!After(sep, c)
    BY <1>1, <1>6, BehindIsAfter, FSFileAssumption DEF OneByteText
  <2>. QED BY <1>2, <1>3, <1>4, <1>7, <2>1 DEF ReadChunk
<1>13. \A i \in 1..Len(b) : b[i] # sep[1]
  BY <1>1, <1>3, <1>6, OnePlaces
<1>14. /\ Len(b) \in Nat /\ Len(c) \in Nat /\ Len(t) = Len(b) + Len(c)
       /\ \A i \in 1..(Len(b) + Len(c)) : t[i] = IF i <= Len(b) THEN b[i] ELSE c[i - Len(b)]
  BY <1>6, <1>9, LenProperties, ConcatProperties
<1>15. CASE LS!Places(sep, c) = {}
  <2>1. sustainBuffer' = t /\ line' = line
    BY <1>6, <1>8, <1>9, <1>12, <1>15
  <2>2. \A i \in 1..Len(c) : c[i] # sep[1]
    BY <1>1, <1>6, <1>15, OnePlaces
  <2>3. ASSUME NEW i \in 1..Len(t) PROVE t[i] # sep[1]
    <3>1. i \in 1..(Len(b) + Len(c))
      BY <1>14
    <3>2. CASE i <= Len(b)
      <4>1. i \in 1..Len(b)
        BY <1>14, <3>1, <3>2
      <4>. QED BY <1>13, <1>14, <3>1, <3>2, <4>1
    <3>3. CASE ~(i <= Len(b))
      <4>1. i - Len(b) \in 1..Len(c)
        BY <1>14, <3>1, <3>3
      <4>. QED BY <1>14, <2>2, <3>1, <3>3, <4>1
    <3>. QED BY <3>2, <3>3
  <2>4. LS!Places(sep, t) = {}
    BY <1>1, <1>10, <2>3, OnePlaces
  <2>. QED BY <1>10, <1>11, <2>1, <2>4
<1>16. CASE LS!Places(sep, c) # {}
  <2>1. PICK i \in 1..Len(c) :
          /\ c[i] = sep[1] /\ \A j \in 1..(i - 1) : c[j] # sep[1]
          /\ LS!Before(sep, c) = SubSeq(c, 1, i - 1) /\ LS!After(sep, c) = LS!From(c, i)
    BY <1>1, <1>6, <1>16, OneCut
  <2>2. PICK k : k = Len(b) + i
    OBVIOUS
  <2>3. /\ k \in 1..Len(t) /\ k - 1 = Len(b) + (i - 1) /\ i \in Nat
        /\ i - 1 \in 0..Len(c) /\ i \in 0..Len(c)
    BY <1>14, <2>1, <2>2
  <2>4. t[k] = sep[1]
    <3>1. k \in 1..(Len(b) + Len(c)) /\ ~(k <= Len(b)) /\ k - Len(b) = i
      BY <1>14, <2>2, <2>3
    <3>. QED BY <1>14, <2>1, <3>1
  <2>5. ASSUME NEW j \in 1..(k - 1) PROVE t[j] # sep[1]
    <3>1. j \in 1..(Len(b) + Len(c))
      BY <1>14, <2>2, <2>3
    <3>2. CASE j <= Len(b)
      <4>1. j \in 1..Len(b)
        BY <1>14, <3>1, <3>2
      <4>. QED BY <1>13, <1>14, <3>1, <3>2, <4>1
    <3>3. CASE ~(j <= Len(b))
      <4>1. j - Len(b) \in 1..(i - 1)
        BY <1>14, <2>2, <2>3, <3>1, <3>3
      <4>. QED BY <1>14, <2>1, <3>1, <3>3, <4>1
    <3>. QED BY <3>2, <3>3
  <2>6. /\ LS!Places(sep, t \o u) # {}
        /\ LS!Before(sep, t \o u) = SubSeq(t, 1, k - 1)
        /\ LS!After(sep, t \o u) = LS!From(t, k) \o u
    <3>1. sep \in Sep /\ t \in Seq(Byte) /\ u \in Seq(Byte) /\ k \in 1..Len(t)
      BY <1>1, <1>6, <1>10, <2>3
    <3>2. \A j \in 1..(k - 1) : t[j] # sep[1]
      BY <2>5
    <3>. QED BY <2>4, <3>1, <3>2, OneFirstOfTwo
  <2>7. /\ SubSeq(t, 1, k - 1) = b \o SubSeq(c, 1, i - 1)
        /\ LS!From(t, k) = LS!From(c, i)
    <3>1. /\ SubSeq(b \o c, 1, Len(b) + (i - 1)) = b \o SubSeq(c, 1, i - 1)
          /\ LS!From(b \o c, Len(b) + i) = LS!From(c, i)
      BY <1>6, <2>3, OfBoth
    <3>. QED BY <1>9, <2>2, <2>3, <3>1
  <2>8. b \o LS!Before(sep, c) \in Seq(Byte) /\ LS!After(sep, c) \in Seq(Byte)
    <3>1. SubSeq(c, 1, i - 1) \in Seq(Byte) /\ LS!From(c, i) \in Seq(Byte)
      BY <1>6, <2>3, Start, Rest
    <3>. QED BY <1>6, <2>1, <3>1, ConcatProperties
  <2>9. /\ line' = b \o LS!Before(sep, c) /\ sustainBuffer' = LS!After(sep, c)
        /\ pc' # "chunk"
    BY <1>8, <1>12, <1>16, <2>8 DEF Return
  <2>. QED BY <1>10, <1>11, <2>1, <2>6, <2>7, <2>9
<1>. QED BY <1>15, <1>16

\* At the end of the file the buffer is the last line.
LEMMA EndReads ==
  ASSUME ReaderInv, EndOfFile
  PROVE  /\ LS!Places(sep, FileRest) = {}
         /\ line' = (IF FileRest # <<>> THEN FileRest ELSE Nil) /\ FileRest' = <<>>
         /\ FileText' = FileText /\ sep' = sep
<1>1. /\ data # Nil /\ LS!Places(sep, sustainBuffer) = {} /\ Unread = <<>> /\ FileTypeOK
      /\ sustainBuffer \in Seq(Byte)
  BY CalledOnFile DEF ReaderInv, EndOfFile, FileTypeOK
<1>2. FileRest = sustainBuffer
  BY <1>1, RestIs, ConcatEmptySeq
<1>3. FileRest' = <<>> \o Unread /\ FileText' = FileText /\ sep' = sep
  BY <1>1 DEF EndOfFile, FileRest, FileText, Unread
<1>4. FileRest' = <<>>
  BY <1>1, <1>3, EmptySeq, ConcatEmptySeq
<1>5. line' = IF sustainBuffer # <<>> THEN sustainBuffer ELSE Nil
  BY DEF EndOfFile, Return
<1>. QED BY <1>1, <1>2, <1>3, <1>4, <1>5

\* What is printed is written over bytes that were not read yet; the buffer stays.
LEMMA PrintWrites ==
  ASSUME FileTypeOK, NEW w \in Words, PrintObject(w)
  PROVE  /\ \E k, n \in 0..Len(FileRest) :
              FileRest' = SubSeq(FileRest, 1, k) \o LS!From(FileRest, k + n)
         /\ UNCHANGED <<sep, line>>
<1>1. data # Nil /\ w \in Seq(Byte)
  BY FSFileAssumption DEF FileTypeOK, PrintObject, CanWrite
<1>2. PICK b : b = sustainBuffer
  OBVIOUS
<1>3. PICK u : u = Unread
  OBVIOUS
<1>4. PICK m : m = offset + Len(w)
  OBVIOUS
<1>5. /\ b \in Seq(Byte) /\ u \in Seq(Byte) /\ FileRest = b \o u
      /\ data \in Seq(Byte) /\ offset \in 0..Len(data) /\ Len(data) \in Nat
      /\ u = LS!From(data, offset) /\ Len(u) = Len(data) - offset
      /\ Len(w) \in Nat /\ m \in Nat /\ Len(b) \in Nat
  BY <1>1, <1>2, <1>3, <1>4, RestIs, UnreadType, LenProperties
<1>6. PICK d : d = WriteAt(offset, w)
  OBVIOUS
<1>7. d \in Seq(Byte) /\ LS!From(d, m) = LS!From(data, m)
  BY <1>1, <1>4, <1>5, <1>6, WriteType DEF WriteAt
<1>8. d # Nil
  BY <1>7, FSFileAssumption
<1>9. /\ data' = d /\ offset' = m /\ sustainBuffer' = b /\ UNCHANGED <<sep, line>>
  BY <1>2, <1>4, <1>6 DEF PrintObject, callVars
<1>10. FileRest' = b \o LS!From(data, m)
  <2>1. FileRest' = b \o SubSeq(d, m + 1, Len(d))
    BY <1>8, <1>9 DEF FileRest
  <2>. QED BY <1>7, <2>1 DEF LS!From
<1>11. PICK n : n = Min2(Len(w), Len(u))
  OBVIOUS
<1>12. n \in 0..Len(u)
  BY <1>5, <1>11 DEF Min2
<1>13. LS!From(data, m) = LS!From(u, n)
  <2>1. CASE Len(w) <= Len(u)
    <3>1. n = Len(w) /\ n \in 0..(Len(data) - offset)
      BY <1>5, <1>11, <2>1 DEF Min2
    <3>. QED BY <1>4, <1>5, <3>1, Both
  <2>2. CASE ~(Len(w) <= Len(u))
    <3>1. n = Len(u) /\ ~(m < Len(data)) /\ ~(n < Len(u)) /\ n \in Nat
      BY <1>4, <1>5, <1>11, <2>2 DEF Min2
    <3>2. PICK x \in Seq(Byte) : x = LS!From(data, m)
                                 /\ Len(x) = IF m < Len(data) THEN Len(data) - m ELSE 0
      BY <1>5, Rest
    <3>3. PICK y \in Seq(Byte) : y = LS!From(u, n)
                                 /\ Len(y) = IF n < Len(u) THEN Len(u) - n ELSE 0
      BY <1>5, <3>1, Rest
    <3>4. x = <<>> /\ y = <<>>
      BY <3>1, <3>2, <3>3, EmptySeq
    <3>. QED BY <3>2, <3>3, <3>4
  <2>. QED BY <2>1, <2>2
<1>14. PICK r : r = b \o u
  OBVIOUS
<1>15. Len(r) = Len(b) + Len(u) /\ Len(u) \in Nat
  BY <1>5, <1>14, ConcatProperties, LenProperties
<1>16. SubSeq(r, 1, Len(b)) = b
  <2>1. Len(b) \in 0..Len(b) /\ SubSeq(r, 1, Len(b)) = SubSeq(b, 1, Len(b))
    BY <1>5, <1>14, OfBoth
  <2>2. PICK x \in Seq(Byte) : x = SubSeq(b, 1, Len(b)) /\ Len(x) = Len(b)
                               /\ \A i \in 1..Len(b) : x[i] = b[i]
    BY <1>5, <2>1, Start
  <2>3. x = b
    BY <1>5, <2>2, SeqEqual
  <2>. QED BY <2>1, <2>2, <2>3
<1>17. LS!From(r, Len(b) + n) = LS!From(u, n)
  BY <1>5, <1>12, <1>14, OfBoth
<1>18. Len(b) \in 0..Len(r) /\ n \in 0..Len(r)
  BY <1>5, <1>12, <1>15
<1>19. FileRest = r /\ FileRest' = SubSeq(r, 1, Len(b)) \o LS!From(r, Len(b) + n)
  BY <1>5, <1>10, <1>13, <1>14, <1>16, <1>17
<1>. QED BY <1>9, <1>18, <1>19

\* Another process adds to what is left.
LEMMA GrowAdds ==
  ASSUME FileTypeOK, NEW c \in Byte, Grow(c)
  PROVE  /\ IsPrefix(FileText, FileText')
         /\ FileRest' = FileRest \o LS!From(FileText', Len(FileText))
         /\ UNCHANGED <<sep, line>>
<1>1. /\ data # Nil /\ data' = Append(data, c)
      /\ UNCHANGED <<offset, sustainBuffer, sep, line>>
  BY DEF Grow
<1>2. PICK b : b = sustainBuffer
  OBVIOUS
<1>3. PICK u : u = Unread
  OBVIOUS
<1>4. PICK t : t = data
  OBVIOUS
<1>5. PICK x : x = <<c>>
  OBVIOUS
<1>6. PICK d : d = t \o x
  OBVIOUS
<1>7. /\ b \in Seq(Byte) /\ u \in Seq(Byte) /\ FileRest = b \o u /\ FileText = t
      /\ t \in Seq(Byte) /\ offset \in 0..Len(t) /\ Len(t) \in Nat
      /\ u = LS!From(t, offset) /\ x \in Seq(Byte) /\ Len(x) = 1
  BY <1>1, <1>2, <1>3, <1>4, <1>5, RestIs, UnreadType
<1>8. d \in Seq(Byte) /\ Len(d) = Len(t) + 1
  <2>1. t \o x \in Seq(Byte) /\ Len(t \o x) = Len(t) + Len(x)
    BY <1>7, Joins
  <2>. QED BY <1>6, <1>7, <2>1
<1>9. data' = d /\ d # Nil
  <2>1. Append(t, c) = t \o <<c>>
    BY <1>7, AppendIsConcat
  <2>. QED BY <1>1, <1>4, <1>5, <1>6, <1>8, <2>1, FSFileAssumption
<1>10. LS!From(d, offset) = u \o x
  BY <1>6, <1>7, OfBoth
<1>11. LS!From(d, Len(t)) = x
  <2>1. 0 \in 0..Len(x) /\ Len(t) + 0 = Len(t)
    BY <1>7
  <2>2. LS!From(d, Len(t)) = LS!From(x, 0)
    <3>1. LS!From(t \o x, Len(t) + 0) = LS!From(x, 0)
      BY <1>7, <2>1, OfBoth
    <3>. QED BY <1>6, <2>1, <3>1
  <2>3. PICK y \in Seq(Byte) : /\ y = LS!From(x, 0)
                               /\ Len(y) = IF 0 < Len(x) THEN Len(x) - 0 ELSE 0
                               /\ \A i \in 1..(Len(x) - 0) : y[i] = x[0 + i]
    BY <1>7, Rest
  <2>4. Len(y) = Len(x) /\ \A i \in 1..Len(x) : y[i] = x[i]
    BY <1>7, <2>3
  <2>5. y = x
    BY <1>7, <2>3, <2>4, SeqEqual
  <2>. QED BY <2>2, <2>3, <2>5
<1>12. FileText' = d /\ FileRest' = b \o LS!From(d, offset)
  BY <1>1, <1>2, <1>9 DEF FileText, FileRest, LS!From
<1>13. b \o (u \o x) = (b \o u) \o x
  <2>1. b \in Seq(Byte) /\ u \in Seq(Byte) /\ x \in Seq(Byte)
    BY <1>7
  <2>. QED BY <2>1, Joins
<1>14. IsPrefix(t, d)
  <2>1. Len(t) \in 0..Len(t) /\ Len(t) <= Len(d)
    BY <1>7, <1>8
  <2>2. SubSeq(d, 1, Len(t)) = SubSeq(t, 1, Len(t))
    BY <1>6, <1>7, <2>1, OfBoth
  <2>. QED BY <2>1, <2>2 DEF IsPrefix
<1>. QED BY <1>1, <1>7, <1>10, <1>11, <1>12, <1>13, <1>14

\* Whatever moves the file pointer, drops the buffer: the rest begins there.
LEMMA DroppedMoves ==
  ASSUME data' \in Seq(Byte), data' # Nil, sustainBuffer' = <<>>,
         offset' \in 0..Len(data'), UNCHANGED <<sep, line>>
  PROVE  /\ \E n \in 0..Len(FileText') : FileRest' = LS!From(FileText', n)
         /\ UNCHANGED <<sep, line>>
<1>1. PICK d : d = data'
  OBVIOUS
<1>2. PICK n : n = offset'
  OBVIOUS
<1>3. d \in Seq(Byte) /\ n \in 0..Len(d) /\ n \in Nat
  BY <1>1, <1>2, LenProperties
<1>4. FileText' = d /\ FileRest' = <<>> \o LS!From(d, n)
  BY <1>1, <1>2 DEF FileText, FileRest, LS!From
<1>5. <<>> \o LS!From(d, n) = LS!From(d, n)
  BY <1>3, Rest, ConcatEmptySeq
<1>. QED BY <1>3, <1>4, <1>5

LEMMA CallMoves ==
  ASSUME FileTypeOK,
         \/ Open \/ OpenExisting \/ OpenCreated \/ CloseFile \/ Reset
         \/ \E w \in Words : WriteData(w)
         \/ data # Nil /\ \E n \in 0..Len(data) :
              ReadData(n) \/ SeekToFileOffset(n) \/ TruncateFileAtOffset(n)
  PROVE  /\ \E n \in 0..Len(FileText') : FileRest' = LS!From(FileText', n)
         /\ UNCHANGED <<sep, line>>
<1>1. FileTypeOK'
  BY CallType, WritingType
<1>2. data' # Nil
  <2>1. <<>> # Nil
    BY EmptySeq, FSFileAssumption
  <2>2. CASE Open \/ OpenExisting \/ OpenCreated
    BY <2>1, <2>2 DEF Open, OpenExisting, OpenCreated
  <2>3. CASE CloseFile \/ Reset
    BY <2>3 DEF CloseFile, Reset, SeekToFileOffset, FileTypeOK
  <2>4. ASSUME NEW w \in Words, WriteData(w)
        PROVE  data' # Nil
    BY <1>1, <2>4 DEF WriteData, CanWrite, FileTypeOK
  <2>5. ASSUME data # Nil, NEW n \in 0..Len(data),
               ReadData(n) \/ SeekToFileOffset(n) \/ TruncateFileAtOffset(n)
        PROVE  data' # Nil
    BY <1>1, <2>5 DEF ReadData, SeekToFileOffset, TruncateFileAtOffset, CanWrite, FileTypeOK
  <2>. QED BY <2>2, <2>3, <2>4, <2>5
<1>3. data' \in Seq(Byte) /\ offset' \in 0..Len(data')
  BY <1>1, <1>2 DEF FileTypeOK
<1>4. sustainBuffer' = <<>> /\ UNCHANGED <<sep, line>>
  BY DEF Open, OpenExisting, OpenCreated, Opened, CloseFile, Reset, WriteData, ReadData,
         SeekToFileOffset, TruncateFileAtOffset, callVars
<1>. QED BY <1>2, <1>3, <1>4, DroppedMoves

LEMMA ReaderBegins ==
  FSFileInit => ReaderInv /\ FileRest = FileText /\ sep \in Sep /\ line = Nil
<1>. SUFFICES ASSUME FSFileInit
              PROVE  ReaderInv /\ FileRest = FileText /\ sep \in Sep /\ line = Nil
  OBVIOUS
<1>1. ReaderInv
  BY FileInitType DEF ReaderInv, FSFileInit
<1>2. sustainBuffer = <<>> /\ offset = 0
  BY DEF FSFileInit
<1>3. ASSUME data = Nil PROVE FileRest = FileText
  <2>1. <<>> \in Seq(Byte) /\ FileText = <<>> /\ FileRest = <<>> \o <<>>
    BY <1>2, <1>3 DEF FileRest, FileText
  <2>2. <<>> \o <<>> = <<>>
    BY <2>1, ConcatEmptySeq
  <2>. QED BY <1>3, <2>1, <2>2
<1>4. ASSUME data # Nil PROVE FileRest = FileText
  <2>1. data \in Seq(Byte) /\ 0 \in 0..Len(data)
    BY <1>1, <1>4, LenProperties DEF ReaderInv, FileTypeOK
  <2>2. FileText = data /\ FileRest = <<>> \o LS!From(data, 0)
    BY <1>2, <1>4 DEF FileRest, FileText, LS!From
  <2>3. PICK u \in Seq(Byte) : /\ u = LS!From(data, 0)
                               /\ Len(u) = IF 0 < Len(data) THEN Len(data) - 0 ELSE 0
                               /\ \A i \in 1..(Len(data) - 0) : u[i] = data[0 + i]
    BY <2>1, Rest
  <2>4. Len(data) \in Nat
    BY <2>1, LenProperties
  <2>5. Len(u) = Len(data) /\ \A i \in 1..Len(data) : u[i] = data[i]
    BY <2>3, <2>4
  <2>6. u = data
    BY <2>1, <2>3, <2>5, SeqEqual
  <2>7. <<>> \o u = u
    BY <2>3, ConcatEmptySeq
  <2>. QED BY <2>2, <2>3, <2>6, <2>7
<1>5. sep \in Sep /\ line = Nil
  BY DEF FSFileInit
<1>6. FileRest = FileText
  BY <1>3, <1>4
<1>. QED BY <1>1, <1>5, <1>6

\* A chunk is read only after the buffer was searched in vain.
LEMMA ReaderKeeps ==
  ASSUME OneByteText, ReaderInv, [FSFileNext]_fileVars
  PROVE  ReaderInv'
<1>1. FileTypeOK'
  BY FileStepType DEF ReaderInv
<1>2. CASE UNCHANGED fileVars
  BY <1>1, <1>2 DEF ReaderInv, fileVars
<1>3. CASE SearchBuffer
  BY <1>1, <1>3 DEF ReaderInv, SearchBuffer, Return
<1>4. CASE ReadChunk
  BY <1>1, <1>4, ChunkReads DEF ReaderInv
<1>5. CASE EndOfFile
  BY <1>1, <1>5 DEF ReaderInv, EndOfFile, Return
<1>6. CASE \E b \in Byte : Grow(b)
  BY <1>1, <1>6 DEF ReaderInv, Grow
<1>7. CASE \E s \in Sep : Readln(s) \/ Readlines(s)
  BY <1>1, <1>7 DEF ReaderInv, Readln, Readlines
<1>8. CASE \/ Open \/ OpenExisting \/ OpenCreated \/ CloseFile \/ Reset
           \/ \E w \in Words : PrintObject(w) \/ WriteData(w)
           \/ data # Nil /\ \E n \in 0..Len(data) :
                ReadData(n) \/ SeekToFileOffset(n) \/ TruncateFileAtOffset(n)
  <2>1. pc' # "chunk"
    BY <1>8 DEF Open, OpenExisting, OpenCreated, Opened, CloseFile, Reset, WriteData, PrintObject,
                ReadData, SeekToFileOffset, TruncateFileAtOffset, callVars, Idle
  <2>. QED BY <1>1, <2>1 DEF ReaderInv
<1>. QED BY <1>2, <1>3, <1>4, <1>5, <1>6, <1>7, <1>8 DEF FSFileNext, Reading

\* Every step is one of a source of lines, or nothing is to be seen of it.
LEMMA StepReadsLines ==
  ASSUME OneByteText, ReaderInv, [FSFileNext]_fileVars
  PROVE  [LS!LineNext]_LS!lineVars
<1>. USE DEF LS!LineNext, LS!lineVars, LS!Ask, LS!ReadLine, LS!Grow, LS!Reposition, LS!Overwrite
<1>1. FileTypeOK
  BY DEF ReaderInv
<1>2. CASE UNCHANGED fileVars
  BY <1>2 DEF fileVars
<1>3. CASE SearchBuffer
  BY <1>1, <1>3, SearchReads DEF FileText, FileRest
<1>4. CASE ReadChunk
  BY <1>4, ChunkReads DEF FileText, FileRest
<1>5. CASE EndOfFile
  BY <1>5, EndReads DEF FileText, FileRest
<1>6. CASE \E b \in Byte : Grow(b)
  <2>1. PICK b \in Byte : Grow(b)
    BY <1>6
  <2>2. /\ LS!IsPrefix(FileText, FileText') /\ UNCHANGED <<sep, line>>
        /\ FileRest' = FileRest \o LS!From(FileText', Len(FileText))
    BY <1>1, <2>1, GrowAdds DEF IsPrefix, LS!IsPrefix
  <2>3. LS!Grow
    BY <2>2 DEF FileText, FileRest
  <2>. QED BY <2>3
<1>7. CASE \E s \in Sep : Readln(s) \/ Readlines(s)
  BY <1>7 DEF Readln, Readlines
<1>8. CASE \E w \in Words : PrintObject(w)
  BY <1>1, <1>8, PrintWrites DEF FileText, FileRest
<1>9. CASE \/ Open \/ OpenExisting \/ OpenCreated \/ CloseFile \/ Reset
           \/ \E w \in Words : WriteData(w)
           \/ data # Nil /\ \E n \in 0..Len(data) :
                ReadData(n) \/ SeekToFileOffset(n) \/ TruncateFileAtOffset(n)
  BY <1>1, <1>9, CallMoves DEF FileText, FileRest
<1>. QED BY <1>2, <1>3, <1>4, <1>5, <1>6, <1>7, <1>8, <1>9 DEF FSFileNext, Reading

-----------------------------------------------------------------------------
(* readlines collects all the lines                                        *)

\* What is before the first place of s, s and what is after it are the text.
LEMMA CutWhole ==
  ASSUME NEW s \in Seq(Byte), s # <<>>, NEW t \in Seq(Byte), LS!Places(s, t) # {}
  PROVE  /\ LS!Before(s, t) \in Seq(Byte) /\ LS!After(s, t) \in Seq(Byte)
         /\ t = Then(Then(LS!Before(s, t), s), LS!After(s, t))
<1>1. PICK i \in LS!Places(s, t) :
        /\ LS!Before(s, t) \in Seq(Byte) /\ Len(LS!Before(s, t)) = i - 1
        /\ \A j \in 1..(i - 1) : LS!Before(s, t)[j] = t[j]
        /\ LS!After(s, t) \in Seq(Byte)
        /\ Len(LS!After(s, t)) = Len(t) - (i + Len(s) - 1)
        /\ \A j \in 1..(Len(t) - (i + Len(s) - 1)) : LS!After(s, t)[j] = t[i + Len(s) - 1 + j]
  BY Cut
<1>2. /\ i \in Nat \ {0} /\ Len(s) \in Nat \ {0} /\ Len(t) \in Nat
      /\ i + Len(s) - 1 <= Len(t) /\ \A j \in 1..Len(s) : t[i + j - 1] = s[j]
  BY PlaceBytes
<1>3. PICK b \in Seq(Byte) : b = LS!Before(s, t) /\ Len(b) = i - 1 /\ \A j \in 1..(i - 1) : b[j] = t[j]
  BY <1>1
<1>. PICK n : n = i + Len(s) - 1
  OBVIOUS
<1>4. n \in Nat /\ n = i + Len(s) - 1
  BY <1>2
<1>5. PICK a \in Seq(Byte) : /\ a = LS!After(s, t) /\ Len(a) = Len(t) - n
                             /\ \A j \in 1..(Len(t) - n) : a[j] = t[n + j]
  BY <1>1, <1>4
<1>. PICK c : c = b \o s
  OBVIOUS
<1>6. /\ c = b \o s /\ c \in Seq(Byte) /\ Len(c) = Len(b) + Len(s)
      /\ \A j \in 1..(Len(b) + Len(s)) : c[j] = IF j <= Len(b) THEN b[j] ELSE s[j - Len(b)]
  BY ConcatProperties
<1>. PICK e : e = c \o a
  OBVIOUS
<1>7. /\ e = c \o a /\ e \in Seq(Byte) /\ Len(e) = Len(c) + Len(a)
      /\ \A j \in 1..(Len(c) + Len(a)) : e[j] = IF j <= Len(c) THEN c[j] ELSE a[j - Len(c)]
  BY <1>6, ConcatProperties
<1>8. Len(c) = n /\ Len(e) = Len(t) /\ Len(b) = i - 1
  BY <1>2, <1>3, <1>4, <1>5, <1>6, <1>7
<1>9. ASSUME NEW j \in 1..Len(e) PROVE e[j] = t[j]
  <2>1. j \in 1..(Len(c) + Len(a)) /\ j \in Nat
    BY <1>2, <1>7, <1>8
  <2>2. CASE ~(j <= n)
    <3>1. j - n \in 1..(Len(t) - n) /\ n + (j - n) = j
      BY <1>8, <2>1, <2>2, <1>2
    <3>. QED BY <1>5, <1>7, <1>8, <2>1, <2>2, <3>1
  <2>3. CASE j <= n /\ j <= i - 1
    <3>1. j \in 1..(i - 1) /\ j \in 1..(Len(b) + Len(s))
      BY <1>2, <1>4, <1>8, <2>1, <2>3
    <3>. QED BY <1>3, <1>6, <1>7, <1>8, <2>1, <2>3, <3>1
  <2>4. CASE j <= n /\ ~(j <= i - 1)
    <3>1. /\ j - (i - 1) \in 1..Len(s) /\ i + (j - (i - 1)) - 1 = j
          /\ j \in 1..(Len(b) + Len(s))
      BY <1>2, <1>4, <1>8, <2>1, <2>4
    <3>2. t[j] = s[j - (i - 1)]
      BY <1>2, <3>1
    <3>3. e[j] = c[j] /\ c[j] = s[j - (i - 1)]
      BY <1>6, <1>7, <1>8, <2>1, <2>4, <3>1
    <3>. QED BY <3>2, <3>3
  <2>. QED BY <2>2, <2>3, <2>4
<1>10. e = t
  BY <1>7, <1>8, <1>9, SeqEqual
<1>. QED BY <1>3, <1>5, <1>6, <1>7, <1>10 DEF Then

\* The lines ls, each with s after it
JoinedWith(ls, s) == FlattenSeq([i \in 1..Len(ls) |-> ls[i] \o s])

LEMMA JoinedNothing == \A s : JoinedWith(<<>>, s) = <<>>
<1>. SUFFICES ASSUME NEW s PROVE JoinedWith(<<>>, s) = <<>>
  OBVIOUS
<1>1. [i \in 1..Len(<<>>) |-> <<>>[i] \o s] = <<>>
  BY EmptySeq
<1>. QED BY <1>1, FlattenNothing DEF JoinedWith

\* One more line.
LEMMA JoinedAppend ==
  ASSUME NEW ls \in Seq(Seq(Byte)), NEW l \in Seq(Byte), NEW s \in Seq(Byte)
  PROVE  /\ JoinedWith(ls, s) \in Seq(Byte)
         /\ JoinedWith(Append(ls, l), s) = Then(JoinedWith(ls, s), Then(l, s))
<1>1. PICK n \in Nat : n = Len(ls)
  BY LenProperties
<1>2. PICK ps : ps = [i \in 1..n |-> ls[i] \o s]
  OBVIOUS
<1>3. \A i \in 1..n : ls[i] \o s \in Seq(Byte)
  BY <1>1, ElementOfSeq, ConcatProperties
<1>4. ps \in Seq(Seq(Byte)) /\ Len(ps) = n /\ \A i \in 1..n : ps[i] = ls[i] \o s
  BY <1>2, <1>3, IsASeq
<1>5. PICK x \in Seq(Byte) : x = l \o s
  BY ConcatProperties
<1>6. PICK k \in Nat : k = n + 1
  OBVIOUS
<1>7. PICK ms : ms = Append(ls, l)
  OBVIOUS
<1>8. Len(ms) = k /\ ms[k] = l /\ \A i \in 1..n : ms[i] = ls[i]
  BY <1>1, <1>6, <1>7, AppendProperties
<1>9. PICK qs : qs = [i \in 1..k |-> ms[i] \o s]
  OBVIOUS
<1>10. \A i \in 1..k : qs[i] = IF i = k THEN x ELSE ps[i]
  <2>. SUFFICES ASSUME NEW i \in 1..k PROVE qs[i] = IF i = k THEN x ELSE ps[i]
    OBVIOUS
  <2>1. i # k => i \in 1..n
    BY <1>6
  <2>. QED BY <1>4, <1>5, <1>8, <1>9, <2>1
<1>11. \A i \in 1..k : i # k => i \in 1..n
  BY <1>6
<1>12. \A i \in 1..k : qs[i] \in Seq(Byte)
  BY <1>4, <1>10, <1>11, ElementOfSeq
<1>13. qs \in Seq(Seq(Byte)) /\ Len(qs) = k
  BY <1>9, <1>12, IsASeq
<1>. PICK rs : rs = Append(ps, x)
  OBVIOUS
<1>14. /\ rs = Append(ps, x) /\ rs \in Seq(Seq(Byte)) /\ Len(rs) = k /\ rs[k] = x
       /\ \A i \in 1..n : rs[i] = ps[i]
  BY <1>4, <1>6, AppendProperties
<1>15. \A i \in 1..Len(qs) : qs[i] = rs[i]
  BY <1>10, <1>11, <1>13, <1>14
<1>16. qs = Append(ps, x)
  BY <1>13, <1>14, <1>15, SeqEqual
<1>17. FlattenSeq(qs) = Then(FlattenSeq(ps), x)
  BY <1>4, <1>5, <1>16, FlattenAppend DEF Then
<1>18. JoinedWith(ls, s) = FlattenSeq(ps) /\ JoinedWith(Append(ls, l), s) = FlattenSeq(qs)
  BY <1>1, <1>2, <1>7, <1>8, <1>9 DEF JoinedWith
<1>19. FlattenSeq(ps) \in Seq(Byte)
  BY <1>4, FlattenType
<1>20. x = Then(l, s)
  BY <1>5 DEF Then
<1>. QED BY <1>17, <1>18, <1>19, <1>20

\* While readlines is at work: its lines and what is to be read are what there
\* was, or the end came and the last line lacked its separator.
ReadlinesInv ==
  /\ FileTypeOK
  /\ pc # "idle" /\ begin # Nil =>
       /\ lines # Nil /\ begin \in Seq(Byte)
       /\ \/ Then(Joined, Pending) = begin
          \/ Then(Joined, Pending) = Then(begin, sep) /\ Pending = <<>>

LEMMA JoinedIs ==
  ASSUME FileTypeOK, lines # Nil
  PROVE  Joined = JoinedWith(lines, sep) /\ lines \in Seq(Seq(Byte)) /\ Joined \in Seq(Byte)
<1>1. lines \in Seq(Seq(Byte)) /\ sep \in Seq(Byte)
  BY FSFileAssumption DEF FileTypeOK
<1>2. JoinedWith(lines, sep) \in Seq(Byte)
  BY <1>1, JoinedAppend, EmptySeq
<1>. QED BY <1>1, <1>2 DEF Joined, JoinedWith

\* What a line and its separator are taken from is put together again.
LEMMA LineTaken ==
  ASSUME FileTypeOK, lines # Nil, sep' = sep, NEW l, l \in Seq(Byte), Return(l),
         Pending' \in Seq(Byte), Pending = Then(Then(l, sep), Pending')
  PROVE  pc' # "idle" /\ lines' # Nil /\ Then(Joined', Pending') = Then(Joined, Pending)
<1>1. l # Nil /\ sep \in Seq(Byte)
  BY FSFileAssumption DEF FileTypeOK
<1>2. pc' = "buffer" /\ lines' = Append(lines, l)
  BY <1>1 DEF Return
<1>3. Joined = JoinedWith(lines, sep) /\ lines \in Seq(Seq(Byte)) /\ Joined \in Seq(Byte)
  BY JoinedIs
<1>4. lines' # Nil
  <2>1. Append(lines, l) \in Seq(Seq(Byte))
    BY <1>3, AppendProperties
  <2>. QED BY <1>2, <2>1, FSFileAssumption
<1>5. Joined' = Then(Joined, Then(l, sep))
  <2>1. Joined' = JoinedWith(lines', sep')
    BY DEF Joined, JoinedWith
  <2>. QED BY <1>1, <1>2, <1>3, <2>1, JoinedAppend
<1>6. Then(l, sep) \in Seq(Byte)
  BY <1>1, ThenType
<1>7. Then(Joined, Then(Then(l, sep), Pending')) = Then(Then(Joined, Then(l, sep)), Pending')
  BY <1>3, <1>6, ThenGroups
<1>. QED BY <1>2, <1>4, <1>5, <1>7

\* Nothing is returned, or a line with its separator is taken from what is to be
\* read.
LEMMA SearchTakes ==
  ASSUME FileTypeOK, SearchBuffer
  PROVE  /\ sep' = sep /\ Pending' \in Seq(Byte)
         /\ \/ Pending' = Pending /\ lines' = lines /\ pc' # "idle"
            \/ \E l \in Seq(Byte) : Return(l) /\ Pending = Then(Then(l, sep), Pending')
<1>1. data # Nil /\ sep \in Seq(Byte) /\ sep # <<>>
  BY CalledOnFile, FSFileAssumption DEF SearchBuffer, FileTypeOK
<1>2. PICK b : b = sustainBuffer
  OBVIOUS
<1>3. PICK u : u = Unread
  OBVIOUS
<1>4. b \in Seq(Byte) /\ u \in Seq(Byte)
  BY <1>1, <1>2, <1>3, RestIs
<1>5. Pending = Then(b, u)
  BY <1>2, <1>3 DEF Pending, Then
<1>6. sep' = sep /\ Pending' = Then(sustainBuffer', u)
  BY <1>3 DEF SearchBuffer, Pending, Unread, Then
<1>7. CASE LS!Places(sep, b) = {}
  <2>1. sustainBuffer' = b /\ lines' = lines /\ pc' = "chunk"
    BY <1>2, <1>7 DEF SearchBuffer
  <2>. QED BY <1>4, <1>5, <1>6, <2>1, ThenType
<1>8. CASE LS!Places(sep, b) # {}
  <2>1. PICK l : l = LS!Before(sep, b)
    OBVIOUS
  <2>2. PICK a : a = LS!After(sep, b)
    OBVIOUS
  <2>3. Return(l) /\ sustainBuffer' = a
    BY <1>2, <1>8, <2>1, <2>2 DEF SearchBuffer
  <2>4. l \in Seq(Byte) /\ a \in Seq(Byte) /\ b = Then(Then(l, sep), a)
    BY <1>1, <1>4, <1>8, <2>1, <2>2, CutWhole
  <2>5. Then(l, sep) \in Seq(Byte) /\ Then(a, u) \in Seq(Byte)
    BY <1>1, <1>4, <2>4, ThenType
  <2>6. Then(b, u) = Then(Then(l, sep), Then(a, u))
    BY <1>4, <2>4, <2>5, ThenGroups
  <2>. QED BY <1>5, <1>6, <2>3, <2>4, <2>5, <2>6
<1>. QED BY <1>7, <1>8

LEMMA ChunkTakes ==
  ASSUME PlainBytes, FileTypeOK, ReadChunk
  PROVE  /\ sep' = sep /\ Pending' \in Seq(Byte)
         /\ \/ Pending' = Pending /\ lines' = lines /\ pc' # "idle"
            \/ \E l \in Seq(Byte) : Return(l) /\ Pending = Then(Then(l, sep), Pending')
<1>1. data # Nil /\ sep \in Seq(Byte) /\ sep # <<>> /\ pc = "chunk"
  BY CalledOnFile, FSFileAssumption DEF ReadChunk, FileTypeOK
<1>2. PICK n : n = Min2(Chunk, Len(Unread))
  OBVIOUS
<1>3. PICK b : b = sustainBuffer
  OBVIOUS
<1>4. PICK c : c = SubSeq(Unread, 1, n)
  OBVIOUS
<1>5. PICK u : u = LS!From(Unread, n)
  OBVIOUS
<1>6. /\ b \in Seq(Byte) /\ c \in Seq(Byte) /\ u \in Seq(Byte)
      /\ Unread \in Seq(Byte) /\ n \in 0..Len(Unread) /\ n \in Nat
  <2>1. b \in Seq(Byte) /\ c \in Seq(Byte) /\ Unread \in Seq(Byte) /\ n \in 0..Len(Unread)
    BY <1>1, <1>2, <1>3, <1>4, ChunkType, RestIs
  <2>2. n \in Nat
    BY <2>1, LenProperties
  <2>. QED BY <1>5, <2>1, <2>2, Rest
<1>7. CString(c) = c
  BY <1>6, PlainText
<1>8. \A t \in Seq(Byte) : Decoded(t) = t /\ DecodedOrNothing(t) = t
  BY PlainText DEF Decoded, DecodedOrNothing
<1>9. Pending = Then(b, Then(c, u))
  <2>1. Unread = c \o u
    BY <1>4, <1>5, <1>6, Both
  <2>. QED BY <1>3, <2>1 DEF Pending, Then
<1>10. sep' = sep /\ Pending' = Then(sustainBuffer', u)
  <2>1. offset' = offset + n /\ UNCHANGED <<data, sep>>
    BY <1>2 DEF ReadChunk
  <2>2. Unread' = LS!From(data, offset + n)
    BY <2>1 DEF LS!From, Unread
  <2>3. LS!From(data, offset + n) = u
    <3>1. /\ data \in Seq(Byte) /\ offset \in 0..Len(data)
          /\ Unread = LS!From(data, offset) /\ Len(Unread) = Len(data) - offset
      BY <1>1, UnreadType
    <3>2. n \in 0..(Len(data) - offset)
      BY <1>6, <3>1
    <3>. QED BY <1>5, <3>1, <3>2, Both
  <2>. QED BY <2>1, <2>2, <2>3 DEF Pending, Then
<1>11. IF LS!Places(sep, c) # {}
       THEN /\ Return(Decoded(Then(b, LS!Before(sep, c))))
            /\ sustainBuffer' = DecodedOrNothing(LS!After(sep, c))
       ELSE /\ sustainBuffer' = Then(b, DecodedOrNothing(c))
            /\ UNCHANGED <<pc, line, lines>>
  <2>1. LS!Places(sep, c) # {} => Behind(sep, c) = LS!After(sep, c)
    BY <1>1, <1>6, BehindIsAfter
  <2>. QED BY <1>2, <1>3, <1>4, <1>7, <2>1 DEF ReadChunk, Then
<1>12. CASE LS!Places(sep, c) = {}
  <2>1. sustainBuffer' = Then(b, c) /\ lines' = lines /\ pc' = "chunk"
    BY <1>1, <1>6, <1>8, <1>11, <1>12
  <2>2. Then(b, c) \in Seq(Byte) /\ Then(b, Then(c, u)) = Then(Then(b, c), u)
    BY <1>6, ThenType, ThenGroups
  <2>. QED BY <1>6, <1>9, <1>10, <2>1, <2>2, ThenType
<1>13. CASE LS!Places(sep, c) # {}
  <2>1. PICK k : k = LS!Before(sep, c)
    OBVIOUS
  <2>2. PICK a : a = LS!After(sep, c)
    OBVIOUS
  <2>3. k \in Seq(Byte) /\ a \in Seq(Byte) /\ c = Then(Then(k, sep), a)
    BY <1>1, <1>6, <1>13, <2>1, <2>2, CutWhole
  <2>4. /\ Then(b, k) \in Seq(Byte) /\ Then(a, u) \in Seq(Byte) /\ Then(k, sep) \in Seq(Byte)
        /\ Then(Then(b, k), sep) \in Seq(Byte)
    BY <1>1, <1>6, <2>3, ThenType
  <2>5. Return(Then(b, k)) /\ sustainBuffer' = a
    BY <1>8, <1>11, <1>13, <2>1, <2>2, <2>3, <2>4
  <2>6. Pending = Then(Then(Then(b, k), sep), Then(a, u))
    <3>1. Then(Then(Then(k, sep), a), u) = Then(Then(k, sep), Then(a, u))
      BY <1>6, <2>3, <2>4, ThenGroups
    <3>2. Then(b, Then(Then(k, sep), Then(a, u))) = Then(Then(b, Then(k, sep)), Then(a, u))
      BY <1>6, <2>4, ThenGroups
    <3>3. Then(b, Then(k, sep)) = Then(Then(b, k), sep)
      BY <1>1, <1>6, <2>3, ThenGroups
    <3>. QED BY <1>9, <2>3, <3>1, <3>2, <3>3
  <2>. QED BY <1>10, <2>4, <2>5, <2>6
<1>. QED BY <1>12, <1>13

\* At the end the buffer is the last line, or there is none.
LEMMA EndTakes ==
  ASSUME FileTypeOK, EndOfFile
  PROVE  /\ sep' = sep /\ Pending' = <<>> /\ Pending \in Seq(Byte)
         /\ Return(IF Pending # <<>> THEN Pending ELSE Nil)
<1>1. data # Nil /\ Unread = <<>> /\ sustainBuffer \in Seq(Byte)
  BY CalledOnFile DEF EndOfFile, FileTypeOK
<1>2. Pending = sustainBuffer
  BY <1>1, ConcatEmptySeq DEF Pending
<1>3. Unread' = Unread
  BY DEF EndOfFile, Unread
<1>4. Pending' = <<>>
  <2>1. Pending' = <<>> \o <<>>
    BY <1>1, <1>3 DEF EndOfFile, Pending
  <2>. QED BY <2>1, EmptySeq, ConcatEmptySeq
<1>. QED BY <1>1, <1>2, <1>4 DEF EndOfFile

\* What a step of readlines makes of the lines and of what is to be read.
LEMMA ReadlinesStep ==
  ASSUME PlainBytes, ReadlinesInv, Reading, pc # "idle", begin # Nil
  PROVE  /\ begin' = begin /\ sep' = sep /\ lines' # Nil
         /\ \/ Then(Joined', Pending') = begin
            \/ Then(Joined', Pending') = Then(begin, sep) /\ Pending' = <<>>
         /\ pc' = "idle" => Pending' = <<>>
<1>1. /\ FileTypeOK /\ lines # Nil /\ begin \in Seq(Byte)
      /\ \/ Then(Joined, Pending) = begin
         \/ Then(Joined, Pending) = Then(begin, sep) /\ Pending = <<>>
  BY DEF ReadlinesInv
<1>2. begin' = begin
  BY DEF Reading, SearchBuffer, ReadChunk, EndOfFile
<1>3. sep \in Seq(Byte) /\ sep # <<>>
  BY <1>1, FSFileAssumption DEF FileTypeOK
<1>4. CASE SearchBuffer \/ ReadChunk
  <2>1. /\ sep' = sep /\ Pending' \in Seq(Byte)
        /\ \/ Pending' = Pending /\ lines' = lines /\ pc' # "idle"
           \/ \E l \in Seq(Byte) : Return(l) /\ Pending = Then(Then(l, sep), Pending')
    BY <1>1, <1>4, SearchTakes, ChunkTakes
  <2>2. CASE Pending' = Pending /\ lines' = lines /\ pc' # "idle"
    <3>1. Joined' = Joined
      BY <2>1, <2>2 DEF Joined
    <3>. QED BY <1>1, <1>2, <2>1, <2>2, <3>1
  <2>3. ASSUME NEW l \in Seq(Byte), Return(l), Pending = Then(Then(l, sep), Pending')
        PROVE  /\ pc' # "idle" /\ lines' # Nil /\ Then(Joined', Pending') = Then(Joined, Pending)
               /\ Pending # <<>>
    <3>1. pc' # "idle" /\ lines' # Nil /\ Then(Joined', Pending') = Then(Joined, Pending)
      BY <1>1, <2>1, <2>3, LineTaken
    <3>2. PICK x : x = Then(l, sep)
      OBVIOUS
    <3>3. x \in Seq(Byte) /\ Len(x) = Len(l) + Len(sep)
      BY <1>3, <3>2, ThenType
    <3>4. Len(Then(x, Pending')) = Len(x) + Len(Pending')
      BY <2>1, <3>3, ThenType
    <3>5. Len(sep) \in Nat \ {0} /\ Len(l) \in Nat /\ Len(Pending') \in Nat
      BY <1>3, <2>1, LenProperties, EmptySeq
    <3>6. Len(Pending) # 0
      BY <2>3, <3>2, <3>3, <3>4, <3>5
    <3>. QED BY <3>1, <3>6, EmptySeq
  <2>. QED BY <1>1, <1>2, <2>1, <2>2, <2>3
<1>5. CASE EndOfFile
  <2>1. /\ sep' = sep /\ Pending' = <<>> /\ Pending \in Seq(Byte)
        /\ Return(IF Pending # <<>> THEN Pending ELSE Nil)
    BY <1>1, <1>5, EndTakes
  <2>2. Joined \in Seq(Byte)
    BY <1>1, JoinedIs
  <2>3. CASE Pending = <<>>
    <3>1. lines' = lines
      BY <2>1, <2>3 DEF Return
    <3>2. Joined' = Joined
      BY <2>1, <3>1 DEF Joined
    <3>. QED BY <1>1, <1>2, <2>1, <2>3, <3>1, <3>2
  <2>4. CASE Pending # <<>>
    <3>1. PICK l \in Seq(Byte) : l = Pending
      BY <2>1
    <3>2. Return(l) /\ l # Nil
      BY <2>1, <2>4, <3>1, FSFileAssumption
    <3>3. pc' # "idle" /\ lines' = Append(lines, l)
      BY <1>1, <3>2 DEF Return
    <3>4. Joined = JoinedWith(lines, sep) /\ lines \in Seq(Seq(Byte))
      BY <1>1, JoinedIs
    <3>5. Joined' = Then(Joined, Then(l, sep))
      <4>1. Joined' = JoinedWith(Append(lines, l), sep)
        BY <2>1, <3>3 DEF Joined, JoinedWith
      <4>. QED BY <1>3, <3>4, <4>1, JoinedAppend
    <3>6. Joined' = Then(begin, sep)
      <4>1. Then(Joined, l) = begin
        BY <1>1, <2>4, <3>1
      <4>. QED BY <1>3, <2>1, <2>2, <3>1, <3>5, <4>1, ThenGroups
    <3>7. Then(Joined', Pending') = Then(begin, sep)
      <4>1. Then(begin, sep) \in Seq(Byte)
        BY <1>1, <1>3, ThenType
      <4>. QED BY <2>1, <3>6, <4>1, ThenNothing
    <3>8. lines' # Nil
      <4>1. Append(lines, l) \in Seq(Seq(Byte))
        BY <3>4, AppendProperties
      <4>. QED BY <3>3, <4>1, FSFileAssumption
    <3>. QED BY <1>2, <2>1, <3>3, <3>7, <3>8
  <2>. QED BY <2>3, <2>4
<1>. QED BY <1>4, <1>5 DEF Reading

LEMMA ReadlinesBegins == FSFileInit => ReadlinesInv
BY FileInitType DEF ReadlinesInv, FSFileInit

\* readlines begins with what there is to read and no line.
LEMMA ReadlinesCalled ==
  ASSUME FileTypeOK, NEW s \in Sep, Readlines(s)
  PROVE  /\ lines' # Nil /\ begin' \in Seq(Byte) /\ Then(Joined', Pending') = begin'
<1>1. data # Nil
  BY DEF Readlines, FileTypeOK, CanRead
<1>2. Pending \in Seq(Byte)
  BY <1>1, RestIs, ConcatProperties DEF Pending
<1>3. Pending' = Pending /\ begin' = Pending /\ lines' = <<>>
  BY DEF Readlines, Pending, Unread
<1>4. Joined' = <<>>
  <2>1. Joined' = JoinedWith(<<>>, sep')
    BY <1>3 DEF Joined, JoinedWith
  <2>. QED BY <2>1, JoinedNothing
<1>5. <<>> # Nil
  <2>1. <<>> \in Seq(Byte)
    BY EmptySeq
  <2>. QED BY <2>1, FSFileAssumption
<1>. QED BY <1>2, <1>3, <1>4, <1>5, ThenNothing

LEMMA ReadlinesKeeps ==
  ASSUME PlainBytes, ReadlinesInv, [FSFileNext]_fileVars
  PROVE  ReadlinesInv'
<1>1. FileTypeOK'
  BY FileStepType DEF ReadlinesInv
<1>2. CASE UNCHANGED fileVars
  BY <1>1, <1>2 DEF ReadlinesInv, fileVars, Joined, Pending, Unread
<1>3. CASE Reading
  <2>1. begin' = begin /\ pc # "idle"
    BY <1>3 DEF Reading, SearchBuffer, ReadChunk, EndOfFile
  <2>. QED BY <1>1, <1>3, <2>1, ReadlinesStep DEF ReadlinesInv
<1>4. CASE \E b \in Byte : Grow(b)
  BY <1>1, <1>4 DEF ReadlinesInv, Grow
<1>5. CASE \E s \in Sep : Readln(s)
  BY <1>1, <1>5 DEF ReadlinesInv, Readln
<1>6. CASE \E s \in Sep : Readlines(s)
  BY <1>1, <1>6, ReadlinesCalled DEF ReadlinesInv
<1>7. CASE \/ Open \/ OpenExisting \/ OpenCreated \/ CloseFile \/ Reset
           \/ \E w \in Words : PrintObject(w) \/ WriteData(w)
           \/ data # Nil /\ \E n \in 0..Len(data) :
                ReadData(n) \/ SeekToFileOffset(n) \/ TruncateFileAtOffset(n)
  <2>1. pc' = "idle"
    BY <1>7 DEF Open, OpenExisting, OpenCreated, Opened, CloseFile, Reset, WriteData, PrintObject,
                ReadData, SeekToFileOffset, TruncateFileAtOffset, callVars, Idle
  <2>. QED BY <1>1, <2>1 DEF ReadlinesInv
<1>. QED BY <1>2, <1>3, <1>4, <1>5, <1>6, <1>7 DEF FSFileNext

\* A step while readlines is at work is one of its own, unless others append.
LEMMA ReadlinesSteps ==
  ASSUME PlainBytes, ReadlinesInv, FSFileNext, pc # "idle", begin' # Nil
  PROVE  /\ Joined' \o Pending' \in {begin, begin \o sep}
         /\ pc' = "idle" => Pending' = <<>>
<1>1. Reading
  BY DEF FSFileNext, Open, OpenExisting, OpenCreated, CloseFile, Reset, WriteData, PrintObject,
         ReadData, SeekToFileOffset, TruncateFileAtOffset, Idle, Readln, Readlines, Grow
<1>2. begin' = begin
  BY <1>1 DEF Reading, SearchBuffer, ReadChunk, EndOfFile
<1>3. /\ Joined' \o Pending' = Then(Joined', Pending') /\ begin \o sep = Then(begin, sep)
  BY DEF Then
<1>. QED BY <1>1, <1>2, <1>3, ReadlinesStep

-----------------------------------------------------------------------------
(* The theorems                                                            *)

\* Whatever is called and whatever others append (FSFile.m): only a handle that
\* can read has text in its buffer or a call going on, the file pointer is in the
\* file, and the buffer never holds half a character.
THEOREM FileTypeCorrect == FSFileSpec => []FileTypeOK
BY FileInvariant

\* With separators of one byte, in text whose bytes are characters, the reader of
\* FSFile.m is a source of lines, however long the chunks and the file: no line is
\* lost, repeated or cut.  (A separator of two bytes may fall between two chunks.)
THEOREM ReadersImplementLines ==
  ASSUME OneByteText
  PROVE  FSFileSpec => ImplementsLines
<1>1. FSFileInit => ReaderInv /\ LS!LineInit
  BY ReaderBegins DEF FileText, FileRest, LS!LineInit
<1>2. ReaderInv /\ [FSFileNext]_fileVars => ReaderInv' /\ [LS!LineNext]_LS!lineVars
  BY ReaderKeeps, StepReadsLines
<1>. QED BY <1>1, <1>2, PTL DEF FSFileSpec, ImplementsLines, LS!LineSpec

\* When bytes are characters, whatever the separator, the chunks and the calls
\* before it (FSFile.m): readlines collects all the lines there were to read when
\* it began, in order, and stops only when nothing is left.
THEOREM ReadlinesIsComplete ==
  ASSUME PlainBytes
  PROVE  FSFileSpec => ReadlinesSplits
<1>1. FSFileInit => ReadlinesInv
  BY ReadlinesBegins
<1>2. ReadlinesInv /\ [FSFileNext]_fileVars => ReadlinesInv'
  BY ReadlinesKeeps
<1>3. ReadlinesInv /\ [FSFileNext]_fileVars =>
        [pc # "idle" /\ begin' # Nil =>
           /\ Joined' \o Pending' \in {begin, begin \o sep}
           /\ pc' = "idle" => Pending' = <<>>]_fileVars
  BY ReadlinesSteps
<1>. QED BY <1>1, <1>2, <1>3, PTL DEF FSFileSpec, ReadlinesSplits

=============================================================================
