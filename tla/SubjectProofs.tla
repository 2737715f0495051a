--------------------------- MODULE SubjectProofs ----------------------------
(***************************************************************************)
(* match() never leaves the subject.  A place it goes to is one it was at, or*)
(* the end of an item that begins there; PlacesInv says where each frame is,*)
(* what each has kept for the way back, and what is recorded in the vector. *)
(* That the code is well formed, that the subject has one byte to a         *)
(* character, and that no capture ends before it starts are conditions of the*)
(* theorems.                                                                *)
(***************************************************************************)
EXTENDS MatchProofs

-----------------------------------------------------------------------------
(* Where match() goes in the subject.                                        *)

\* A frame has its place in the subject; offset_top is beyond the last capture
\* that is set, which has room in the vector.
OffsetTop(n) == n \in Nat /\ (n <= 2 \/ n <= OffsetMax)
InPlace(fr) == InSubject(fr) /\ OffsetTop(fr.offset_top)

\* The vector, and what a call of a group saves and goes back to.
Vectors == [0..(OCount - 1) -> -1..End]
SavedPlace(rec) == rec.save_start \in 0..End /\ rec.offset_save \in Vectors
SavedPlaces(s)  == \A i \in DOMAIN s : SavedPlace(s[i])

\* What is repeated has an end behind its start.
RepeatedItem(item) ==
  /\ item.op \in RepOps \cup ClassOps \cup {"REF"}
  /\ item.op = "CHARREP" => item.c \in 0..INT_MAX
  /\ item.op = "TYPEREP" => item.type \in CharTypes
  /\ item.op = "REF"     => item.length \in Nat
  /\ item.op = "XCLASS"  => Utf8

\* The places a caller will come back to.
Resumes(fr, loc) ==
  /\ loc.at = "RM1" => \A i \in 1..3 : loc.save[i] \in -1..End
  /\ loc.at = "RM6" => SavedPlace(loc.rec) /\ SavedPlaces(loc.prevrec)
  /\ loc.at \in {"LAZY", "GREEDY"} => "item" \in DOMAIN loc /\ RepeatedItem(loc.item)
  /\ loc.at = "GREEDY" => loc.pp \in 0..fr.eptr

Waiting(fr) == InPlace(fr) /\ Resumes(fr, fr.loc)
AllWaiting(st) == \A i \in DOMAIN st : Waiting(st[i])

MdFields == {"offset_vector", "capture_last", "recursive", "end_match_ptr", "end_offset_top",
             "start_match_ptr", "match_call_count", "hitend", "offset_overflow"}
MdInPlace(d) ==
  /\ MdFields \subseteq DOMAIN d /\ d.offset_vector \in Vectors /\ SavedPlaces(d.recursive)
  /\ d.end_match_ptr \in 0..End /\ d.start_match_ptr \in 0..End /\ OffsetTop(d.end_offset_top)

PlacesInv == InPlace(frame) /\ AllWaiting(frames) /\ MdInPlace(md)

SearchInv ==
  /\ phase # "idle" => start_match \in 0..End
  /\ phase = "called" => md = NewMd
  /\ phase \in {"scan", "match"} => job.offsetcount \in Nat /\ MdInPlace(md)
  /\ phase = "match" => PlacesInv
  /\ phase = "ended" => \A i \in DOMAIN result.offsets : result.offsets[i] \in -1..End

\* The subject of a plain call.
Plain == Subject \in Seq(IF Utf8 THEN 0..127 ELSE Byte)

\* A capture that has room in the vector has it for all it keeps.
LEMMA ThreeParts ==
  ASSUME NEW k \in Nat, NEW n \in Nat \ {0}, 2 * n < 2 * k
  PROVE  /\ 2 * n \in 0..(3 * k - 1) /\ 2 * n + 1 \in 0..(3 * k - 1)
         /\ 3 * k - n \in 0..(3 * k - 1) /\ 2 * n + 2 <= 2 * k
OBVIOUS

LEMMA VectorParts ==
  ASSUME job.offsetcount \in Nat, re.top_backref \in Nat
  PROVE  \E k \in Nat : OCount = 3 * k /\ OffsetMax = 2 * k
<1>1. PICK x \in Nat : x = job.offsetcount
  OBVIOUS
<1>2. PICK q \in Nat : q = x \div 3 /\ x - (x % 3) = 3 * q
  <2>1. PICK y, r : y = x \div 3 /\ r = x % 3
    OBVIOUS
  <2>2. y \in Nat /\ r \in Nat /\ x = 3 * y + r
    BY <2>1
  <2>3. x - r = 3 * y
    BY <2>2
  <2>4. x - (x % 3) = 3 * y
    BY <2>1, <2>3
  <2>. QED BY <2>1, <2>2, <2>4
<1>3. PICK k \in Nat : OCount = 3 * k
  <2>1. PICK t \in Nat : t = re.top_backref
    OBVIOUS
  <2>2. PICK y : y = x \div 3
    OBVIOUS
  <2>3. y = q /\ OCount = IF t > 0 /\ t >= y THEN t * 3 + 3 ELSE x - (x % 3)
    BY <1>1, <1>2, <2>1, <2>2 DEF OCount
  <2>4. t * 3 + 3 = 3 * (t + 1) /\ t + 1 \in Nat
    OBVIOUS
  <2>. QED BY <1>2, <2>3, <2>4
<1>4. (2 * (3 * k)) \div 3 = 2 * k
  OBVIOUS
<1>. QED BY <1>3, <1>4 DEF OffsetMax

LEMMA RoomForCapture ==
  ASSUME job.offsetcount \in Nat, re.top_backref \in Nat, NEW n \in Nat \ {0}, 2 * n < OffsetMax
  PROVE  /\ 2 * n \in 0..(OCount - 1) /\ 2 * n + 1 \in 0..(OCount - 1)
         /\ OCount - n \in 0..(OCount - 1) /\ OffsetTop(2 * n + 2) /\ OCount \in Nat
<1>1. PICK k \in Nat : OCount = 3 * k /\ OffsetMax = 2 * k
  BY VectorParts
<1>2. /\ 2 * n \in 0..(3 * k - 1) /\ 2 * n + 1 \in 0..(3 * k - 1)
      /\ 3 * k - n \in 0..(3 * k - 1) /\ 2 * n + 2 <= 2 * k /\ 2 * n + 2 \in Nat
  BY <1>1, ThreeParts
<1>3. 3 * k \in Nat
  OBVIOUS
<1>. QED BY <1>1, <1>2, <1>3 DEF OffsetTop

-----------------------------------------------------------------------------
\* A plain subject's bytes are its characters.
LEMMA EndIsNatural ==
  ASSUME Plain PROVE End \in Nat
BY DEF Plain, End

LEMMA PlainBytes ==
  ASSUME Plain, NEW i \in Int
  PROVE  At(Subject, i) \in Byte /\ (Utf8 => At(Subject, i) \in 0..127)
<1>1. CASE i \in 0..(Len(Subject) - 1)
  <2>1. PICK E : E = IF Utf8 THEN 0..127 ELSE Byte
    OBVIOUS
  <2>2. Subject \in Seq(E)
    BY <2>1 DEF Plain
  <2>3. i + 1 \in 1..Len(Subject)
    BY <1>1, <2>2
  <2>4. Subject[i + 1] \in E
    BY <2>2, <2>3
  <2>5. PICK b : b = Subject[i + 1]
    OBVIOUS
  <2>6. At(Subject, i) = b
    BY <1>1, <2>5 DEF At
  <2>7. b \in Byte /\ (Utf8 => b \in 0..127)
    BY <2>1, <2>4, <2>5 DEF Byte
  <2>. QED BY <2>6, <2>7
<1>2. CASE i \notin 0..(Len(Subject) - 1)
  BY <1>2 DEF At, Byte
<1>. QED BY <1>1, <1>2

LEMMA OneByte ==
  ASSUME Plain, NEW i \in Int
  PROVE  /\ Utf8 => GETCHARLEN(Subject, i) = 1
         /\ CharEnd(M, i) = i + 1
<1>1. PICK b : b = At(Subject, i)
  OBVIOUS
<1>2. Utf8 => ExtraBytes(b) = 0
  BY <1>1, PlainBytes DEF ExtraBytes
<1>3. Utf8 => GETCHARLEN(Subject, i) = 1
  BY <1>1, <1>2 DEF GETCHARLEN
<1>. QED BY <1>3 DEF CharEnd, M

LEMMA NothingToSkip ==
  ASSUME Plain, Utf8, NEW e \in Nat
  PROVE  SkipTrails(M, e) = e
<1>1. M.s = Subject
  BY DEF M
<1>2. CASE e > Len(Subject)
  BY <1>1, <1>2 DEF SkipTrails
<1>3. CASE ~(e > Len(Subject))
  <2>. DEFINE Eq(k) == k = [p \in e..Len(Subject) |->
                              IF p < Len(Subject) /\ Trails(Subject[p + 1]) THEN k[p + 1] ELSE p]
  <2>0. Len(Subject) \in Nat
    BY DEF Plain
  <2>1. ASSUME NEW p \in e..Len(Subject), p < Len(Subject)
        PROVE  ~Trails(Subject[p + 1])
    <3>1. p \in 0..(Len(Subject) - 1) /\ p \in Int
      BY <2>0, <2>1
    <3>2. PICK b : b = Subject[p + 1]
      OBVIOUS
    <3>3. b \in 0..127
      BY <3>1, <3>2, PlainBytes DEF At
    <3>4. ~Trails(b)
      BY <3>3 DEF Trails
    <3>. QED BY <3>2, <3>4
  <2>2. PICK g : g = [p \in e..Len(Subject) |-> p]
    OBVIOUS
  <2>3. Eq(g)
    BY <2>1, <2>2
  <2>4. PICK k : k = CHOOSE f : Eq(f)
    OBVIOUS
  <2>5. Eq(k)
    BY <2>3, <2>4
  <2>6. e \in e..Len(Subject)
    BY <1>3, <2>0
  <2>7. k[e] = e
    BY <2>1, <2>5, <2>6
  <2>. QED BY <1>1, <1>3, <2>4, <2>7 DEF SkipTrails
<1>. QED BY <1>2, <1>3

LEMMA NothingToGoBack ==
  ASSUME Plain, Utf8, NEW i \in Nat
  PROVE  BACKCHAR(Subject, i) = i
<1>. DEFINE Eq(b) == b = [k \in 0..i |-> IF Trails(At(Subject, k)) /\ k > 0 THEN b[k - 1] ELSE k]
<1>1. ASSUME NEW k \in 0..i PROVE ~Trails(At(Subject, k))
  BY PlainBytes DEF Trails
<1>2. PICK g : g = [k \in 0..i |-> k]
  OBVIOUS
<1>3. Eq(g)
  BY <1>1, <1>2
<1>4. PICK b : b = CHOOSE f : Eq(f)
  OBVIOUS
<1>5. Eq(b)
  BY <1>3, <1>4
<1>6. i \in 0..i
  OBVIOUS
<1>7. b[i] = i
  BY <1>1, <1>5, <1>6
<1>. QED BY <1>4, <1>7 DEF BACKCHAR

-----------------------------------------------------------------------------
\* An item ends behind its start, in the subject, or there is no match.
Forward(e, x) == x = NoMatch \/ (x \in Nat /\ e <= x /\ x <= End)
OneOn(e, x) == x = NoMatch \/ x = e + 1

LEMMA ForwardAlso ==
  ASSUME Plain, NEW e \in Nat, e < End, NEW x, OneOn(e, x) \/ Forward(e + 1, x) \/ x = e
  PROVE  Forward(e, x)
<1>1. PICK n \in Nat : n = End
  BY EndIsNatural
<1>. QED BY <1>1 DEF OneOn, Forward

LEMMA NewlineIsForward ==
  ASSUME Plain, NEW c, NEW e \in Nat, e <= End
  PROVE  Forward(e, AnyNlEnd(M, c, e))
<1>1. PICK n \in Nat : n = End
  BY EndIsNatural
<1>2. ~Ended(M, e) => e + 1 <= n
  BY <1>1 DEF Ended, M, End
<1>. QED BY <1>1, <1>2 DEF Forward, AnyNlEnd, If

LEMMA OneCharacter ==
  ASSUME Plain, NEW e \in Nat, e < End, Utf8
  PROVE  SkipTrails(M, e + 1) = e + 1 /\ e + GETCHARLEN(M.s, e) = e + 1 /\ CharEnd(M, e) = e + 1
<1>1. M.s = Subject /\ e \in Int /\ e + 1 \in Nat
  BY DEF M
<1>. QED BY <1>1, NothingToSkip, OneByte

LEMMA EndedIsEnd ==
  ASSUME NEW e PROVE Ended(M, e) <=> e >= End
BY DEF Ended, M, End

LEMMA SingleTypeIsForward ==
  ASSUME Plain, NEW type \in CharTypes, NEW e \in Nat, e <= End
  PROVE  Forward(e, SingleType(type, M, e))
<1>1. PICK n \in Nat : n = End
  BY EndIsNatural
<1>2. CASE Ended(M, e)
  BY <1>2 DEF SingleType, Forward
<1>3. CASE ~Ended(M, e)
  <2>1. e < n /\ e + 1 \in Nat /\ e + 1 <= n
    BY <1>1, <1>3, EndedIsEnd
  <2>2. CharEnd(M, e) = e + 1
    BY OneByte
  <2>3. M.utf8 => SkipTrails(M, e + 1) = e + 1
    BY <1>1, <2>1, OneCharacter DEF M
  <2>4. PICK x : x = AnyNlEnd(M, CharAt(M, e), e + 1)
    OBVIOUS
  <2>5. Forward(e + 1, x)
    BY <1>1, <2>1, <2>4, NewlineIsForward
  <2>6. PICK y : y = SingleType(type, M, e)
    OBVIOUS
  <2>7. OneOn(e, y) \/ y = x
    BY <1>3, <2>2, <2>3, <2>4, <2>6 DEF SingleType, SingleSpace, CharTypes, If, OneOn
  <2>. QED BY <1>1, <2>1, <2>5, <2>6, <2>7, ForwardAlso
<1>. QED BY <1>2, <1>3

LEMMA LazyTypeIsForward ==
  ASSUME Plain, NEW type \in CharTypes, NEW e \in Nat, e <= End
  PROVE  Forward(e, TypeItem("lazy", type, e))
<1>1. PICK n \in Nat : n = End
  BY EndIsNatural
<1>2. CASE Ended(M, e) \/ (type = "ANY" /\ AtNewline(M, e))
  BY <1>2 DEF TypeItem, LazyUtf8Type, LazyByteType, Forward
<1>3. CASE ~(Ended(M, e) \/ (type = "ANY" /\ AtNewline(M, e)))
  <2>1. e < n /\ e + 1 \in Nat /\ e + 1 <= n
    BY <1>1, <1>3, EndedIsEnd
  <2>3. Utf8 => e + GETCHARLEN(M.s, e) = e + 1
    BY <1>1, <2>1, OneCharacter
  <2>4. PICK x : x = AnyNlEnd(M, IF Utf8 THEN GETCHAR(M.s, e) ELSE At(M.s, e), e + 1)
    OBVIOUS
  <2>5. Forward(e + 1, x)
    BY <1>1, <2>1, <2>4, NewlineIsForward
  <2>6. PICK y : y = TypeItem("lazy", type, e)
    OBVIOUS
  <2>7. OneOn(e, y) \/ y = x
    BY <1>3, <2>3, <2>4, <2>6 DEF TypeItem, LazyUtf8Type, LazyByteType, CharTypes, If, OneOn
  <2>. QED BY <1>1, <2>1, <2>5, <2>6, <2>7, ForwardAlso
<1>. QED BY <1>2, <1>3

LEMMA GreedyTypeIsForward ==
  ASSUME Plain, NEW type \in CharTypes, NEW e \in Nat, e <= End
  PROVE  Forward(e, TypeItem("greedy", type, e))
<1>1. PICK n \in Nat : n = End
  BY EndIsNatural
<1>2. CASE Ended(M, e)
  BY <1>2 DEF TypeItem, GreedyUtf8Type, GreedyByteType, Forward
<1>3. CASE ~Ended(M, e)
  <2>1. e < n /\ e + 1 \in Nat /\ e + 1 <= n
    BY <1>1, <1>3, EndedIsEnd
  <2>2. Utf8 => SkipTrails(M, e + 1) = e + 1 /\ e + GETCHARLEN(M.s, e) = e + 1
    BY <1>1, <2>1, OneCharacter
  <2>3. PICK x : x = IF ~Ended(M, e + 1) /\ At(M.s, e + 1) = LF THEN e + 2 ELSE e + 1
    OBVIOUS
  <2>4. Forward(e + 1, x)
    <3>1. ~Ended(M, e + 1) => e + 2 <= n
      BY <1>1, <2>1, EndedIsEnd
    <3>. QED BY <1>1, <2>1, <2>3, <3>1 DEF Forward
  <2>5. e + 1 + 1 = e + 2
    OBVIOUS
  <2>6. PICK y : y = TypeItem("greedy", type, e)
    OBVIOUS
  <2>7. OneOn(e, y) \/ y = x
    BY <1>3, <2>2, <2>3, <2>5, <2>6 DEF TypeItem, GreedyUtf8Type, GreedyUtf8Space, GreedyByteType,
       CharTypes, If, OneOn
  <2>. QED BY <1>1, <2>1, <2>4, <2>6, <2>7, ForwardAlso
<1>. QED BY <1>2, <1>3

\* The minimum of a repeated type: one byte at a time, but for a newline.
LEMMA MinimumTypeGoesOn ==
  ASSUME Plain, NEW type \in CharTypes, NEW e \in Nat
  PROVE  IF type = "ANYNL" THEN e <= End => Forward(e, TypeItem("min", type, e))
         ELSE OneOn(e, TypeItem("min", type, e))
<1>1. PICK n \in Nat : n = End
  BY EndIsNatural
<1>2. PICK y : y = TypeItem("min", type, e)
  OBVIOUS
<1>3. CASE type = "ANYNL" /\ e <= End
  <2>1. CASE Ended(M, e)
    BY <1>2, <1>3, <2>1 DEF TypeItem, MinUtf8Type, MinUtf8Space, MinByteType, Forward
  <2>2. CASE ~Ended(M, e)
    <3>1. e < n /\ e + 1 \in Nat /\ e + 1 <= n
      BY <1>1, <2>2, EndedIsEnd
    <3>2. Utf8 => e + GETCHARLEN(M.s, e) = e + 1
      BY <1>1, <3>1, OneCharacter
    <3>3. PICK x : x = AnyNlEnd(M, IF Utf8 THEN GETCHAR(M.s, e) ELSE At(M.s, e), e + 1)
      OBVIOUS
    <3>4. Forward(e + 1, x)
      BY <1>1, <3>1, <3>3, NewlineIsForward
    <3>5. y = x
      BY <1>2, <1>3, <2>2, <3>2, <3>3 DEF TypeItem, MinUtf8Type, MinUtf8Space, MinByteType
    <3>. QED BY <1>1, <1>2, <1>3, <3>1, <3>4, <3>5, ForwardAlso
  <2>. QED BY <2>1, <2>2
<1>4. CASE type # "ANYNL"
  <2>1. e + 1 \in Nat /\ e \in Int /\ M.s = Subject
    BY DEF M
  <2>2. Utf8 => SkipTrails(M, e + 1) = e + 1 /\ e + GETCHARLEN(M.s, e) = e + 1
    BY <2>1, NothingToSkip, OneByte
  <2>3. OneOn(e, y)
    BY <1>2, <1>4, <2>2 DEF TypeItem, MinUtf8Type, MinUtf8Space, MinByteType, CharTypes, If, OneOn
  <2>. QED BY <1>2, <1>4, <2>3
<1>. QED BY <1>3, <1>4

-----------------------------------------------------------------------------
LEMMA EntriesOfTable1 ==
  /\ Table1[6] = INT_MAX /\ INT_MAX \in Int
  /\ \A k \in 1..6 : Table1[k] \in Int
<1>1. INT_MAX \in Int
  BY SMT DEF INT_MAX
<1>2. Table1[6] = INT_MAX
  BY SMT DEF Table1, INT_MAX
<1>3. Table1[1] \in Int /\ Table1[2] \in Int /\ Table1[3] \in Int
  BY SMT DEF Table1
<1>4. Table1[4] \in Int /\ Table1[5] \in Int
  BY SMT DEF Table1
<1>5. \A k \in 1..6 : k = 1 \/ k = 2 \/ k = 3 \/ k = 4 \/ k = 5 \/ k = 6
  OBVIOUS
<1>. QED BY <1>1, <1>2, <1>3, <1>4, <1>5

\* A character has at least one byte in the code, and the last of several is no 0.
LEMMA BytesOfCharacter ==
  ASSUME NEW c \in 0..INT_MAX
  PROVE  /\ Len(OrdToUtf8(c)) \in Nat \ {0}
         /\ c >= 128 => OrdToUtf8(c)[Len(OrdToUtf8(c))] # 0
<1>. DEFINE Least(k) == c <= Table1[k] /\ \A j \in 1..(k - 1) : c > Table1[j]
<1>1. PICK n \in Int : n = INT_MAX
  BY EntriesOfTable1
<1>2. c \in Nat /\ c <= Table1[6] /\ \A k \in 1..6 : Table1[k] \in Int
  BY <1>1, EntriesOfTable1
<1>3. \E k \in 1..6 : Least(k)
  <2>1. CASE c <= Table1[1]
    BY <1>2, <2>1
  <2>2. CASE c > Table1[1] /\ c <= Table1[2]
    <3>1. Least(2)
      BY <2>2
    <3>. QED BY <3>1
  <2>3. CASE c > Table1[1] /\ c > Table1[2] /\ c <= Table1[3]
    <3>1. Least(3)
      BY <2>3
    <3>. QED BY <3>1
  <2>4. CASE c > Table1[1] /\ c > Table1[2] /\ c > Table1[3] /\ c <= Table1[4]
    <3>1. Least(4)
      BY <2>4
    <3>. QED BY <3>1
  <2>5. CASE c > Table1[1] /\ c > Table1[2] /\ c > Table1[3] /\ c > Table1[4] /\ c <= Table1[5]
    <3>1. Least(5)
      BY <2>5
    <3>. QED BY <3>1
  <2>6. CASE c > Table1[1] /\ c > Table1[2] /\ c > Table1[3] /\ c > Table1[4] /\ c > Table1[5]
    <3>1. Least(6)
      BY <1>2, <2>6
    <3>. QED BY <3>1
  <2>. QED BY <1>2, <2>1, <2>2, <2>3, <2>4, <2>5, <2>6
<1>4. PICK i : i = CHOOSE k \in 1..6 : Least(k)
  OBVIOUS
<1>5. i \in 1..6
  BY <1>3, <1>4
<1>6. PICK bytes : bytes = OrdToUtf8(c)
  OBVIOUS
<1>7. DOMAIN bytes = 1..i /\ bytes = [k \in 1..i |-> bytes[k]]
  <2>1. PICK f : f = [k \in 1..i |-> IF k = 1 THEN Table2[i] + c \div 64^(i - 1)
                                     ELSE 128 + ((c \div 64^(i - k)) % 64)]
    OBVIOUS
  <2>2. bytes = f
    BY <1>4, <1>6, <2>1 DEF OrdToUtf8
  <2>3. DOMAIN f = 1..i /\ f = [k \in 1..i |-> f[k]]
    BY <2>1
  <2>. QED BY <2>2, <2>3
<1>8. bytes \in Seq({bytes[k] : k \in 1..i})
  BY <1>5, <1>7
<1>9. Len(bytes) = i
  BY <1>5, <1>7, <1>8
<1>10. ASSUME c >= 128 PROVE bytes[i] # 0
  <2>1. i \in 2..6
    <3>1. Least(i)
      BY <1>3, <1>4
    <3>2. Table1[1] = 127
      BY DEF Table1
    <3>. QED BY <1>2, <1>5, <1>10, <3>1, <3>2
  <2>2. bytes[i] = 128 + ((c \div 64^(i - i)) % 64)
    <3>1. PICK f : f = [k \in 1..i |-> IF k = 1 THEN Table2[i] + c \div 64^(i - 1)
                                       ELSE 128 + ((c \div 64^(i - k)) % 64)]
      OBVIOUS
    <3>2. bytes = f
      BY <1>4, <1>6, <3>1 DEF OrdToUtf8
    <3>3. f[i] = 128 + ((c \div 64^(i - i)) % 64)
      BY <2>1, <3>1
    <3>. QED BY <3>2, <3>3
  <2>3. 128 + ((c \div 64^(i - i)) % 64) # 0
    BY <1>2, <2>1, SMT
  <2>. QED BY <2>2, <2>3
<1>. QED BY <1>5, <1>6, <1>9, <1>10

Width(item) == IF item.op = "CHARREP" THEN Len(CodeBytes(item.c)) ELSE 1
Fixed(item) == item.op \in RepOps /\ ~(item.op = "TYPEREP" /\ item.type = "ANYNL")

LEMMA WidthIsPositive ==
  ASSUME NEW item, RepeatedItem(item)
  PROVE  Width(item) \in Nat \ {0}
<1>1. CASE item.op = "CHARREP"
  <2>1. PICK c \in 0..INT_MAX : c = item.c
    BY <1>1 DEF RepeatedItem
  <2>2. Len(<<c>>) = 1 /\ Len(OrdToUtf8(c)) \in Nat \ {0}
    BY BytesOfCharacter
  <2>. QED BY <1>1, <2>1, <2>2 DEF Width, CodeBytes, CharBytes
<1>2. CASE item.op # "CHARREP"
  BY <1>2 DEF Width
<1>. QED BY <1>1, <1>2

\* The minimum loop goes on by the width of its item.
LEMMA MinimumGoesOn ==
  ASSUME Plain, NEW fr, NEW item, RepeatedItem(item), NEW e \in Nat,
         NEW x, x = ItemEnd("min", fr, item, e)
  PROVE  IF Fixed(item) THEN x = NoMatch \/ x = e + Width(item)
         ELSE e <= End => Forward(e, x)
<1>1. PICK n \in Nat : n = End
  BY EndIsNatural
<1>0. CharEnd(M, e) = e + 1 /\ e \in Int /\ "ANYNL" \in CharTypes
  BY OneByte DEF CharTypes
<1>2. CASE item.op = "CHARREP"
  <2>1. PICK c \in 0..INT_MAX : c = item.c
    BY <1>2 DEF RepeatedItem
  <2>2. x = CharItem("min", fr.ims, c, e)
    BY <1>2, <2>1 DEF ItemEnd
  <2>3. Fixed(item)
    BY <1>2 DEF Fixed, RepOps
  <2>4. CASE Utf8 /\ c >= 128
    <3>1. PICK w : w = Len(OrdToUtf8(c))
      OBVIOUS
    <3>2. x = NoMatch \/ x = e + w
      BY <2>2, <2>4, <3>1 DEF CharItem, MultiByteChar, If
    <3>3. w = Width(item)
      BY <1>2, <2>1, <2>4, <3>1 DEF Width, CodeBytes, CharBytes
    <3>. QED BY <2>3, <3>2, <3>3
  <2>5. CASE ~(Utf8 /\ c >= 128)
    <3>1. Width(item) = 1
      BY <1>2, <2>1, <2>5 DEF Width, CodeBytes, CharBytes
    <3>2. x = NoMatch \/ x = e + 1
      BY <2>2, <2>5 DEF CharItem, CaselessChar, CasedChar, If
    <3>. QED BY <2>3, <3>1, <3>2
  <2>. QED BY <2>4, <2>5
<1>3. CASE item.op = "NOTREP"
  <2>1. Width(item) = 1 /\ Fixed(item)
    BY <1>3 DEF Width, Fixed, RepOps
  <2>2. \E c : x = CaselessNotChar("min", c, e) \/ x = CasedNotChar("min", c, e)
    BY <1>3 DEF ItemEnd
  <2>. QED BY <1>0, <2>1, <2>2 DEF CaselessNotChar, CasedNotChar, If
<1>4. CASE item.op = "TYPEREP"
  <2>1. PICK type \in CharTypes : type = item.type
    BY <1>4 DEF RepeatedItem
  <2>2. x = TypeItem("min", type, e) /\ Width(item) = 1 /\ (Fixed(item) <=> type # "ANYNL")
    BY <1>4, <2>1 DEF ItemEnd, Width, Fixed, RepOps
  <2>. QED BY <2>1, <2>2, MinimumTypeGoesOn DEF OneOn
<1>5. CASE item.op \in {"CLASS", "NCLASS"}
  <2>1. x = ClassItem(item, e) /\ ~Fixed(item)
    BY <1>5 DEF ItemEnd, Fixed, RepOps
  <2>2. OneOn(e, x) /\ (e < End \/ x = NoMatch)
    BY <1>0, <2>1 DEF ClassItem, If, OneOn
  <2>. QED BY <1>1, <2>1, <2>2 DEF Forward, OneOn
<1>6. CASE item.op = "XCLASS"
  <2>1. x = XClassItem(item, e) /\ ~Fixed(item) /\ Utf8
    BY <1>6 DEF ItemEnd, Fixed, RepOps, RepeatedItem
  <2>2. GETCHARLEN(Subject, e) = 1
    BY <1>0, <2>1, OneByte
  <2>3. OneOn(e, x) /\ (e < End \/ x = NoMatch)
    BY <2>1, <2>2 DEF XClassItem, If, OneOn
  <2>. QED BY <1>1, <2>1, <2>3 DEF Forward, OneOn
<1>7. CASE item.op = "REF"
  <2>1. PICK length \in Nat : length = item.length
    BY <1>7 DEF RepeatedItem
  <2>2. x = MatchRef(fr.ims, item.offset, length, e) /\ ~Fixed(item)
    BY <1>7, <2>1 DEF ItemEnd, Fixed, RepOps
  <2>3. x = NoMatch \/ (x = e + length /\ length <= End - e)
    BY <2>2 DEF MatchRef, If
  <2>. QED BY <1>1, <2>2, <2>3 DEF Forward
<1>. QED BY <1>2, <1>3, <1>4, <1>5, <1>6, <1>7 DEF RepeatedItem, RepOps, ClassOps

\* The two other loops test the end of the subject before every item.
LEMMA ItemIsForward ==
  ASSUME Plain, NEW fr, NEW item, RepeatedItem(item), NEW e \in Nat, e <= End,
         NEW when \in {"lazy", "greedy"}, NEW x, x = ItemEnd(when, fr, item, e)
  PROVE  Forward(e, x)
<1>1. PICK n \in Nat : n = End
  BY EndIsNatural
<1>0. CharEnd(M, e) = e + 1 /\ e \in Int
  BY OneByte
<1>2. CASE item.op = "CHARREP"
  <2>1. PICK c \in 0..INT_MAX : c = item.c
    BY <1>2 DEF RepeatedItem
  <2>2. x = CharItem(when, fr.ims, c, e)
    BY <1>2, <2>1 DEF ItemEnd
  <2>4. CASE Utf8 /\ c >= 128
    <3>1. PICK w \in Nat : w = Len(OrdToUtf8(c))
      BY <2>1, BytesOfCharacter
    <3>2. x = NoMatch \/ (x = e + w /\ e + w - 1 < End)
      <4>1. PICK bytes : bytes = OrdToUtf8(c)
        OBVIOUS
      <4>2. x = MultiByteChar(when, bytes, e) /\ w = Len(bytes) /\ w # 0 /\ bytes[w] # 0
        BY <2>1, <2>2, <2>4, <3>1, <4>1, BytesOfCharacter DEF CharItem
      <4>3. x = NoMatch \/ (x = e + w /\ At(Subject, e + w - 1) = bytes[w])
        BY <4>2 DEF MultiByteChar, If
      <4>4. At(Subject, e + w - 1) # 0 => e + w - 1 < End
        BY <1>0, <1>1 DEF At, End
      <4>. QED BY <4>2, <4>3, <4>4
    <3>. QED BY <1>1, <3>2 DEF Forward
  <2>5. CASE ~(Utf8 /\ c >= 128)
    <3>2. x = NoMatch \/ (x = e + 1 /\ ~(e >= End))
      BY <2>2, <2>5 DEF CharItem, CaselessChar, CasedChar, If
    <3>. QED BY <1>1, <3>2 DEF Forward
  <2>. QED BY <2>4, <2>5
<1>3. CASE item.op = "NOTREP"
  <2>2. \E c : x = CaselessNotChar(when, c, e) \/ x = CasedNotChar(when, c, e)
    BY <1>3 DEF ItemEnd
  <2>3. x = NoMatch \/ (x = e + 1 /\ ~(e >= End))
    BY <1>0, <2>2 DEF CaselessNotChar, CasedNotChar, If
  <2>. QED BY <1>1, <2>3 DEF Forward
<1>4. CASE item.op = "TYPEREP"
  <2>1. PICK type \in CharTypes : type = item.type
    BY <1>4 DEF RepeatedItem
  <2>2. x = TypeItem(when, type, e)
    BY <1>4, <2>1 DEF ItemEnd
  <2>. QED BY <2>1, <2>2, LazyTypeIsForward, GreedyTypeIsForward
<1>5. CASE item.op \notin RepOps
  <2>1. ItemEnd(when, fr, item, e) = ItemEnd("min", fr, item, e)
    BY <1>5 DEF ItemEnd, RepOps, RepeatedItem, ClassOps
  <2>2. ~Fixed(item)
    BY <1>5 DEF Fixed
  <2>. QED BY <2>1, <2>2, MinimumGoesOn
<1>. QED BY <1>2, <1>3, <1>4, <1>5 DEF RepOps

-----------------------------------------------------------------------------
(* The loops over a repeated item.                                           *)

\* The minimum: its room, which is tested before, is enough for it.
LEMMA MinimumRuns ==
  ASSUME Plain, NEW fr, NEW item, RepeatedItem(item), fr.eptr \in 0..End, NEW min \in Nat
  PROVE  Forward(fr.eptr, MinimumEnd(fr, item, min))
<1>. DEFINE Eq(m) == m = [i \in 0..min |-> IF i = 0 THEN fr.eptr
                                          ELSE IF m[i - 1] = NoMatch THEN NoMatch
                                          ELSE ItemEnd("min", fr, item, m[i - 1])]
<1>1. PICK n \in Nat : n = End
  BY EndIsNatural
<1>2. PICK p \in Nat : p = fr.eptr /\ p <= n
  BY <1>1
<1>3. PICK w \in Nat \ {0} : w = Width(item)
  BY WidthIsPositive
<1>4. PICK V : V = {NoMatch} \cup (IF Fixed(item) THEN Nat ELSE 0..n)
  OBVIOUS
<1>5. NoMatch \in V /\ p \in V /\ NoMatch = -1
  BY <1>1, <1>2, <1>4 DEF NoMatch
<1>6. ASSUME NEW e \in V, e # NoMatch
      PROVE  ItemEnd("min", fr, item, e) \in V
  <2>1. e \in Nat /\ (~Fixed(item) => e <= n)
    BY <1>1, <1>4, <1>6
  <2>2. PICK x : x = ItemEnd("min", fr, item, e)
    OBVIOUS
  <2>3. IF Fixed(item) THEN x = NoMatch \/ x = e + w ELSE Forward(e, x)
    BY <1>1, <1>3, <2>1, <2>2, MinimumGoesOn
  <2>. QED BY <1>1, <1>3, <1>4, <2>1, <2>2, <2>3 DEF Forward
<1>7. PICK G : G = [q \in (1..min) \X V |-> IF q[2] = NoMatch THEN NoMatch
                                            ELSE ItemEnd("min", fr, item, q[2])]
  OBVIOUS
<1>8. G \in [(1..min) \X V -> V]
  BY <1>5, <1>6, <1>7
<1>9. PICK g \in [0..min -> V] : FromEachToNext(g, min, p, G)
  BY <1>5, <1>8, RecursionUpTo
<1>10. ASSUME NEW i \in 0..min
       PROVE  g[i] = IF i = 0 THEN fr.eptr ELSE IF g[i - 1] = NoMatch THEN NoMatch
                     ELSE ItemEnd("min", fr, item, g[i - 1])
  <2>1. CASE i = 0
    BY <1>2, <1>9, <2>1 DEF FromEachToNext
  <2>2. CASE i # 0
    <3>1. i \in 1..min /\ i - 1 \in 0..min
      BY <2>2
    <3>2. g[i] = G[<<i, g[i - 1]>>] /\ g[i - 1] \in V
      BY <1>9, <3>1 DEF FromEachToNext
    <3>. QED BY <1>7, <2>2, <3>1, <3>2
  <2>. QED BY <2>1, <2>2
<1>11. Eq(g)
  BY <1>9, <1>10
<1>12. PICK m : m = CHOOSE x : Eq(x)
  OBVIOUS
<1>13. Eq(m)
  BY <1>11, <1>12
<1>14. MinimumEnd(fr, item, min) = IF Room(item, min) > n - p THEN NoMatch ELSE m[min]
  BY <1>1, <1>2, <1>12 DEF MinimumEnd
<1>. DEFINE Reached(i) == \/ m[i] = NoMatch
                          \/ IF Fixed(item) THEN m[i] = p + i * w ELSE Forward(p, m[i])
            T == {i \in 0..min : Reached(i)}
<1>15. 0 \in T
  <2>1. 0 \in 0..min /\ m[0] = p /\ p + 0 * w = p
    BY <1>2, <1>13
  <2>. QED BY <1>1, <1>2, <2>1 DEF Forward
<1>16. ASSUME NEW i \in 0..(min - 1), i \in T PROVE i + 1 \in T
  <2>1. i \in Nat /\ i \in 0..min /\ i + 1 \in 0..min /\ (i + 1) - 1 = i /\ i + 1 # 0
    OBVIOUS
  <2>2. PICK e : e = m[i]
    OBVIOUS
  <2>3. PICK x : x = m[i + 1]
    OBVIOUS
  <2>4. x = IF e = NoMatch THEN NoMatch ELSE ItemEnd("min", fr, item, e)
    BY <1>13, <2>1, <2>2, <2>3
  <2>5. CASE e = NoMatch
    BY <2>1, <2>3, <2>4, <2>5
  <2>6. CASE e # NoMatch /\ Fixed(item)
    <3>1. PICK k \in Nat : k = i * w
      BY <2>1
    <3>2. e = p + k
      BY <1>16, <2>2, <2>6, <3>1
    <3>3. x = NoMatch \/ x = e + w
      BY <1>3, <2>4, <2>6, <3>2, MinimumGoesOn
    <3>4. (i + 1) * w = k + w
      BY <2>1, <3>1
    <3>5. x = NoMatch \/ x = p + (i + 1) * w
      BY <3>2, <3>3, <3>4
    <3>. QED BY <2>1, <2>3, <2>6, <3>5
  <2>7. CASE e # NoMatch /\ ~Fixed(item)
    <3>1. Forward(p, e)
      BY <1>16, <2>2, <2>7 DEF Forward
    <3>2. e \in Nat /\ p <= e /\ e <= n
      BY <1>1, <2>7, <3>1 DEF Forward
    <3>3. Forward(e, x)
      BY <1>1, <2>4, <2>7, <3>2, MinimumGoesOn
    <3>4. Forward(p, x)
      BY <1>1, <3>2, <3>3 DEF Forward
    <3>. QED BY <2>1, <2>3, <2>7, <3>4
  <2>. QED BY <2>5, <2>6, <2>7
<1>. HIDE DEF T
<1>17. min \in T
  <2>1. 0..min \subseteq T
    BY <1>15, <1>16, InductionUpTo
  <2>2. min \in 0..min
    OBVIOUS
  <2>. QED BY <2>1, <2>2
<1>18. PICK y : y = m[min]
  OBVIOUS
<1>19. y = NoMatch \/ IF Fixed(item) THEN y = p + min * w ELSE Forward(p, y)
  BY <1>17, <1>18 DEF T
<1>20. CASE Fixed(item)
  <2>1. PICK k \in Nat : k = min * w
    OBVIOUS
  <2>2. min * 1 = min
    OBVIOUS
  <2>3. Room(item, min) = k
    BY <1>3, <1>20, <2>1, <2>2 DEF Room, Fixed, Width, RepOps
  <2>. QED BY <1>1, <1>2, <1>14, <1>18, <1>19, <1>20, <2>1, <2>3 DEF Forward
<1>21. CASE ~Fixed(item)
  BY <1>2, <1>14, <1>18, <1>19, <1>21 DEF Forward
<1>. QED BY <1>20, <1>21

\* The greedy loop tests the end of the subject before every item.
LEMMA GreedyRuns ==
  ASSUME Plain, NEW fr, NEW item, RepeatedItem(item), NEW p \in 0..End, NEW n \in Nat
  PROVE  GreedyEnd(fr, item, p, n) \in p..End
<1>. DEFINE Eq(g) == g = [k \in 0..n |-> IF k = 0 THEN p ELSE OneMore(fr, item)[g[k - 1]]]
<1>1. PICK z \in Nat : z = End
  BY EndIsNatural
<1>2. PICK V : V = p..z
  OBVIOUS
<1>3. p \in V /\ \A e \in V : e \in Nat /\ p <= e /\ e <= z
  BY <1>1, <1>2
<1>4. ASSUME NEW e \in V
      PROVE  OneMore(fr, item)[e] \in V
  <2>1. e \in Nat /\ p <= e /\ e <= z /\ p \in Nat
    BY <1>1, <1>3
  <2>2. PICK x : x = ItemEnd("greedy", fr, item, e)
    OBVIOUS
  <2>3. Forward(e, x)
    BY <1>1, <2>1, <2>2, ItemIsForward
  <2>4. OneMore(fr, item)[e] = IF x = NoMatch THEN e ELSE x
    <3>1. e \in 0..(End + 1)
      BY <1>1, <2>1
    <3>. QED BY <2>2, <3>1 DEF OneMore
  <2>. QED BY <1>1, <1>2, <2>1, <2>3, <2>4 DEF Forward
<1>7. PICK G : G = [q \in (1..n) \X V |-> OneMore(fr, item)[q[2]]]
  OBVIOUS
<1>8. G \in [(1..n) \X V -> V]
  BY <1>4, <1>7
<1>9. PICK f \in [0..n -> V] : FromEachToNext(f, n, p, G)
  BY <1>3, <1>8, RecursionUpTo
<1>10. ASSUME NEW i \in 0..n
       PROVE  f[i] = IF i = 0 THEN p ELSE OneMore(fr, item)[f[i - 1]]
  <2>1. CASE i = 0
    BY <1>9, <2>1 DEF FromEachToNext
  <2>2. CASE i # 0
    <3>1. i \in 1..n /\ i - 1 \in 0..n
      BY <2>2
    <3>2. f[i] = G[<<i, f[i - 1]>>] /\ f[i - 1] \in V
      BY <1>9, <3>1 DEF FromEachToNext
    <3>. QED BY <1>7, <2>2, <3>1, <3>2
  <2>. QED BY <2>1, <2>2
<1>11. Eq(f)
  BY <1>9, <1>10
<1>12. PICK g : g = CHOOSE x : Eq(x)
  OBVIOUS
<1>13. Eq(g)
  BY <1>11, <1>12
<1>14. GreedyEnd(fr, item, p, n) = g[n]
  BY <1>12 DEF GreedyEnd
<1>. DEFINE T == {i \in 0..n : g[i] \in V}
<1>15. 0 \in T
  BY <1>3, <1>13
<1>16. ASSUME NEW i \in 0..(n - 1), i \in T PROVE i + 1 \in T
  <2>1. i + 1 \in 0..n /\ (i + 1) - 1 = i /\ i + 1 # 0
    OBVIOUS
  <2>2. g[i + 1] = OneMore(fr, item)[g[i]] /\ g[i] \in V
    BY <1>13, <1>16, <2>1
  <2>. QED BY <1>4, <2>1, <2>2
<1>. HIDE DEF T
<1>17. 0..n \subseteq T
  BY <1>15, <1>16, InductionUpTo
<1>18. n \in 0..n
  OBVIOUS
<1>19. g[n] \in V
  BY <1>17, <1>18 DEF T
<1>. QED BY <1>1, <1>2, <1>14, <1>19

\* A lookbehind: back by a byte, which in a plain subject is a character, for
\* every step, or to before the start.
LEMMA BackRuns ==
  ASSUME Plain, ReverseBack, frame.eptr \in 0..End, NEW n \in Nat, n = Op.n
  PROVE  RRETURN(frames, "NOMATCH") \/ \E e \in 0..End : Go(frames, At1(e))
<1>. DEFINE Eq(b) == b = [i \in 0..n |-> IF i = 0 THEN frame.eptr
                                        ELSE IF b[i - 1] <= 0 THEN -1
                                        ELSE IF Utf8 THEN BACKCHAR(Subject, b[i - 1] - 1)
                                        ELSE b[i - 1] - 1]
<1>1. PICK z \in Nat : z = End
  BY EndIsNatural
<1>2. PICK V : V = (-1)..z
  OBVIOUS
<1>3. frame.eptr \in V /\ -1 \in V
  BY <1>1, <1>2
<1>4. ASSUME NEW e \in V, ~(e <= 0)
      PROVE  e - 1 \in V /\ (Utf8 => BACKCHAR(Subject, e - 1) = e - 1)
  <2>1. PICK k \in Nat : k = e - 1
    BY <1>1, <1>2, <1>4
  <2>2. k \in V
    BY <1>1, <1>2, <1>4, <2>1
  <2>3. Utf8 => BACKCHAR(Subject, k) = k
    BY NothingToGoBack
  <2>. QED BY <2>1, <2>2, <2>3
<1>7. PICK G : G = [q \in (1..n) \X V |-> IF q[2] <= 0 THEN -1 ELSE q[2] - 1]
  OBVIOUS
<1>8. G \in [(1..n) \X V -> V]
  BY <1>3, <1>4, <1>7
<1>9. PICK f \in [0..n -> V] : FromEachToNext(f, n, frame.eptr, G)
  BY <1>3, <1>8, RecursionUpTo
<1>10. ASSUME NEW i \in 0..n
       PROVE  f[i] = IF i = 0 THEN frame.eptr
                     ELSE IF f[i - 1] <= 0 THEN -1
                     ELSE IF Utf8 THEN BACKCHAR(Subject, f[i - 1] - 1)
                     ELSE f[i - 1] - 1
  <2>1. CASE i = 0
    BY <1>9, <2>1 DEF FromEachToNext
  <2>2. CASE i # 0
    <3>1. i \in 1..n /\ i - 1 \in 0..n
      BY <2>2
    <3>2. PICK x : x = f[i - 1]
      OBVIOUS
    <3>3. f[i] = G[<<i, x>>] /\ x \in V
      BY <1>9, <3>1, <3>2 DEF FromEachToNext
    <3>4. f[i] = IF x <= 0 THEN -1 ELSE x - 1
      BY <1>7, <3>1, <3>3
    <3>. QED BY <1>4, <2>2, <3>2, <3>3, <3>4
  <2>. QED BY <2>1, <2>2
<1>11. Eq(f)
  BY <1>9, <1>10
<1>12. PICK b : b = CHOOSE x : Eq(x)
  OBVIOUS
<1>13. Eq(b)
  BY <1>11, <1>12
<1>14. IF b[n] < 0 THEN RRETURN(frames, "NOMATCH") ELSE Go(frames, At1(b[n]))
  BY <1>12 DEF ReverseBack
<1>. DEFINE T == {i \in 0..n : b[i] \in V}
<1>15. 0 \in T
  BY <1>3, <1>13
<1>16. ASSUME NEW i \in 0..(n - 1), i \in T PROVE i + 1 \in T
  <2>1. i + 1 \in 0..n /\ (i + 1) - 1 = i /\ i + 1 # 0
    OBVIOUS
  <2>2. PICK x \in V : x = b[i]
    BY <1>16
  <2>3. b[i + 1] = IF x <= 0 THEN -1 ELSE IF Utf8 THEN BACKCHAR(Subject, x - 1) ELSE x - 1
    BY <1>13, <2>1, <2>2
  <2>4. b[i + 1] \in V
    BY <1>3, <1>4, <2>2, <2>3
  <2>. QED BY <2>1, <2>4
<1>. HIDE DEF T
<1>17. 0..n \subseteq T
  BY <1>15, <1>16, InductionUpTo
<1>18. n \in 0..n
  OBVIOUS
<1>19. PICK x \in V : x = b[n]
  BY <1>17, <1>18 DEF T
<1>20. x < 0 \/ x \in 0..z
  BY <1>1, <1>2, <1>19
<1>. QED BY <1>1, <1>14, <1>19, <1>20

\* Single items.
LEMMA CharactersAreForward ==
  ASSUME Plain, NEW c \in 0..INT_MAX, NEW e \in Nat, e <= End,
         NEW x, x = CharMatches(c, e) \/ x = CharNcMatches(c, e)
  PROVE  Forward(e, x)
<1>1. PICK n \in Nat : n = End
  BY EndIsNatural
<1>2. PICK w \in Nat \ {0} : w = Len(CodeBytes(c))
  <2>1. Len(<<c>>) = 1
    OBVIOUS
  <2>. QED BY <2>1, BytesOfCharacter DEF CodeBytes, CharBytes
<1>3. CASE x = CharMatches(c, e)
  <2>1. x = NoMatch \/ (x = e + w /\ w <= n - e)
    BY <1>1, <1>2, <1>3 DEF CharMatches, BytesAt, If
  <2>. QED BY <1>1, <1>2, <2>1 DEF Forward
<1>4. CASE x = CharNcMatches(c, e)
  <2>1. e \in Int /\ (Utf8 => GETCHARLEN(Subject, e) = 1)
    BY OneByte
  <2>2. x = NoMatch \/ (x = e + 1 /\ ~(w > n - e))
    BY <1>1, <1>2, <1>4, <2>1 DEF CharNcMatches, If
  <2>. QED BY <1>1, <1>2, <2>2 DEF Forward
<1>. QED BY <1>3, <1>4

-----------------------------------------------------------------------------
(* The machine's moves, from places in the subject.                          *)
Kept == InPlace(frame') /\ AllWaiting(frames')

\* A step from the frame fr that leaves its place as it is, and waits for no
\* place but that.
KeepsPlace(f, fr) == f.eptr = fr.eptr /\ f.mstart = fr.mstart /\ f.offset_top = fr.offset_top
LeavesNothing(loc) == "at" \in DOMAIN loc /\ loc.at \notin {"RM1", "RM6", "LAZY", "GREEDY"}

MovesOn(st, fr) ==
  \/ \E answered : RRETURN(st, answered)
  \/ \E f : KeepsPlace(f, fr) /\ (Go(st, f) \/ TAIL_RECURSE(st, f))
  \/ \E f, loc, ecode, eptrb, flags :
       /\ KeepsPlace(f, fr) /\ FrameFields \subseteq DOMAIN f /\ LeavesNothing(loc)
       /\ RMATCH(st, f, loc, fr.eptr, ecode, eptrb, flags)

\* Another call for what the frame waits for.
Again(st, fr) ==
  \E f, ecode, eptrb, flags :
    /\ KeepsPlace(f, fr) /\ FrameFields \subseteq DOMAIN f
    /\ RMATCH(st, f, fr.loc, fr.eptr, ecode, eptrb, flags)

LEMMA GoKeeps ==
  ASSUME NEW st, NEW fr, AllWaiting(st), InPlace(fr), Go(st, fr) \/ TAIL_RECURSE(st, fr)
  PROVE  Kept
BY DEF Kept, Go, TAIL_RECURSE

LEMMA ReturnKeeps ==
  ASSUME NEW st, NEW answered, AllWaiting(st), InPlace(frame), RRETURN(st, answered)
  PROVE  Kept
BY DEF Kept, RRETURN

LEMMA CallKeeps ==
  ASSUME NEW st, NEW fr, NEW loc, NEW eptr, NEW ecode, NEW eptrb, NEW flags, AllWaiting(st), Stack(st),
         InPlace(fr), FrameFields \subseteq DOMAIN fr, Resumes(fr, loc), eptr \in 0..End,
         RMATCH(st, fr, loc, eptr, ecode, eptrb, flags)
  PROVE  Kept
<1>1. PICK c : c = [fr EXCEPT !.loc = loc]
  OBVIOUS
<1>2. PICK f : f = [fr EXCEPT !.eptr = eptr, !.ecode = ecode, !.eptrb = eptrb,
                              !.flags = flags, !.loc = NoLocals]
  OBVIOUS
<1>3. Waiting(c)
  <2>1. c.loc = loc /\ c.eptr = fr.eptr /\ c.mstart = fr.mstart /\ c.offset_top = fr.offset_top
    BY <1>1 DEF FrameFields
  <2>. QED BY <2>1 DEF Waiting, InPlace, InSubject, Resumes
<1>4. InPlace(f)
  <2>1. f.eptr = eptr /\ f.mstart = fr.mstart /\ f.offset_top = fr.offset_top
    BY <1>2 DEF FrameFields
  <2>. QED BY <2>1 DEF InPlace, InSubject
<1>5. frames' = Append(st, c) /\ frame' = f
  BY <1>1, <1>2 DEF RMATCH
<1>6. AllWaiting(Append(st, c))
  <2>1. PICK E : st \in Seq(E)
    BY DEF Stack
  <2>2. ASSUME NEW i \in DOMAIN Append(st, c)
        PROVE  Append(st, c)[i] = c \/ (i \in DOMAIN st /\ Append(st, c)[i] = st[i])
    BY <2>1, <2>2
  <2>. QED BY <2>2, <1>3 DEF AllWaiting
<1>. QED BY <1>4, <1>5, <1>6 DEF Kept

LEMMA MovesKeep ==
  ASSUME NEW st, NEW fr, AllWaiting(st), Stack(st), InPlace(frame), InPlace(fr), MovesOn(st, fr)
  PROVE  Kept
<1>1. ASSUME NEW f, KeepsPlace(f, fr) PROVE InPlace(f) /\ f.eptr \in 0..End
  BY <1>1 DEF KeepsPlace, InPlace, InSubject
<1>2. CASE \E answered : RRETURN(st, answered)
  BY <1>2, ReturnKeeps
<1>3. CASE \E f : KeepsPlace(f, fr) /\ (Go(st, f) \/ TAIL_RECURSE(st, f))
  BY <1>1, <1>3, GoKeeps
<1>4. CASE \E f, loc, ecode, eptrb, flags :
       /\ KeepsPlace(f, fr) /\ FrameFields \subseteq DOMAIN f /\ LeavesNothing(loc)
       /\ RMATCH(st, f, loc, fr.eptr, ecode, eptrb, flags)
  <2>1. PICK f, loc, ecode, eptrb, flags :
       /\ KeepsPlace(f, fr) /\ FrameFields \subseteq DOMAIN f /\ LeavesNothing(loc)
       /\ RMATCH(st, f, loc, fr.eptr, ecode, eptrb, flags)
    BY <1>4
  <2>2. InPlace(f) /\ fr.eptr \in 0..End
    BY <1>1, <2>1 DEF InPlace, InSubject
  <2>3. Resumes(f, loc)
    BY <2>1 DEF Resumes, LeavesNothing
  <2>. QED BY <2>1, <2>2, <2>3, CallKeeps
<1>. QED BY <1>2, <1>3, <1>4 DEF MovesOn

LEMMA AgainKeeps ==
  ASSUME NEW st, NEW fr, AllWaiting(st), Stack(st), Waiting(fr), Again(st, fr)
  PROVE  Kept
<1>1. PICK f, ecode, eptrb, flags :
       /\ KeepsPlace(f, fr) /\ FrameFields \subseteq DOMAIN f
       /\ RMATCH(st, f, fr.loc, fr.eptr, ecode, eptrb, flags)
  BY DEF Again
<1>2. InPlace(f) /\ fr.eptr \in 0..End /\ Resumes(f, fr.loc)
  BY <1>1 DEF Waiting, InPlace, InSubject, KeepsPlace, Resumes
<1>. QED BY <1>1, <1>2, CallKeeps

\* A frame that goes on waits for nothing.
LEMMA LastWaits ==
  ASSUME FramesInv, frames # <<>>, AllWaiting(frames)
  PROVE  Waiting(Last(frames)) /\ AllWaiting(Callers) /\ Stack(Callers)
         /\ FrameFields \subseteq DOMAIN Last(frames)
<1>1. PICK E : frames \in Seq(E)
  BY DEF FramesInv, AllCalling, Stack
<1>2. Len(frames) \in Nat \ {0} /\ DOMAIN frames = 1..Len(frames)
  BY <1>1, EmptySeq
<1>3. Stack(Callers) /\ Calling(Last(frames))
  BY LastCalls DEF AllCalling
<1>4. ASSUME NEW i \in DOMAIN Callers
      PROVE  i \in DOMAIN frames /\ Callers[i] = frames[i]
  <2>1. PICK n : n = Len(frames) - 1
    OBVIOUS
  <2>2. Callers = SubSeq(frames, 1, n) /\ n \in Nat /\ n < Len(frames)
    BY <2>1, <1>2 DEF Callers
  <2>. QED BY <1>1, <1>2, <1>4, <2>1, <2>2
<1>5. Last(frames) = frames[Len(frames)]
  BY DEF Last
<1>6. Len(frames) \in DOMAIN frames
  BY <1>2
<1>. QED BY <1>3, <1>4, <1>5, <1>6 DEF AllWaiting, Calling, Framed

-----------------------------------------------------------------------------
(* The steps that go on from the place they are at, or go back to it.        *)
Fields(fr) == FrameFields \subseteq DOMAIN fr

LEMMA AlternativeMoves ==
  ASSUME NEW st, NEW fr, Fields(fr), TryAlternative(st, fr)
  PROVE  MovesOn(st, fr)
BY DEF TryAlternative, MovesOn, KeepsPlace, LeavesNothing, Fields, FrameFields

LEMMA BranchMoves ==
  ASSUME NEW st, NEW fr, NEW op, NEW condition, Fields(fr), TakeBranch(st, fr, op, condition)
  PROVE  MovesOn(st, fr)
BY DEF TakeBranch, MovesOn, KeepsPlace, LeavesNothing, Fields, FrameFields

LEMMA MovesFromFrame ==
  ASSUME Fields(frame),
         \/ Enter \/ Verb \/ Fail \/ Bracket \/ Condition \/ ConditionAssertion \/ SetOptions
         \/ Assertion \/ Callout \/ Atomic \/ SkipAlternatives \/ OptionalGroup \/ SkipGroup
         \/ KetOfCall \/ SimpleAssertion
  PROVE  MovesOn(frames, frame)
<1> USE DEF MovesOn, KeepsPlace, LeavesNothing, Fields, FrameFields
<1>1. CASE Enter
  BY <1>1 DEF Enter
<1>2. CASE Verb
  BY <1>2 DEF Verb
<1>3. CASE Fail
  BY <1>3 DEF Fail
<1>4. CASE Bracket
  <2>1. PICK f : f = [frame EXCEPT !.flags = BraFlags(Op.op)]
    OBVIOUS
  <2>2. TryAlternative(frames, f)
    BY <1>4, <2>1 DEF Bracket
  <2>3. KeepsPlace(f, frame) /\ Fields(f)
    BY <2>1
  <2>. HIDE DEF MovesOn, KeepsPlace, Fields
  <2>4. MovesOn(frames, f)
    BY <2>2, <2>3, AlternativeMoves
  <2>. QED BY <2>3, <2>4 DEF MovesOn, KeepsPlace
<1>5. CASE Condition
  <2>1. PICK p, condition : TakeBranch(frames, [frame EXCEPT !.ecode = p], Op.op, condition)
    BY <1>5 DEF Condition
  <2>2. PICK f : f = [frame EXCEPT !.ecode = p]
    OBVIOUS
  <2>3. KeepsPlace(f, frame) /\ Fields(f)
    BY <2>2
  <2>. HIDE DEF MovesOn, KeepsPlace, Fields
  <2>4. MovesOn(frames, f)
    BY <2>1, <2>2, <2>3, BranchMoves
  <2>. QED BY <2>3, <2>4 DEF MovesOn, KeepsPlace
<1>6. CASE ConditionAssertion
  BY <1>6 DEF ConditionAssertion
<1>7. CASE SetOptions
  BY <1>7 DEF SetOptions
<1>8. CASE Assertion
  BY <1>8 DEF Assertion
<1>9. CASE Callout
  BY <1>9 DEF Callout, At1
<1>10. CASE Atomic
  BY <1>10 DEF Atomic
<1>11. CASE SkipAlternatives
  BY <1>11 DEF SkipAlternatives
<1>12. CASE OptionalGroup
  BY <1>12 DEF OptionalGroup
<1>13. CASE SkipGroup
  BY <1>13 DEF SkipGroup
<1>14. CASE KetOfCall
  BY <1>14 DEF KetOfCall
<1>15. CASE SimpleAssertion
  BY <1>15 DEF SimpleAssertion, At1
<1>. QED BY <1>1, <1>2, <1>3, <1>4, <1>5, <1>6, <1>7, <1>8, <1>9, <1>10, <1>11, <1>12, <1>13,
         <1>14, <1>15

LEMMA NextAssertionMoves ==
  ASSUME NEW fr, NEW none, Fields(fr), NextAssertion(fr, none)
  PROVE  none \/ Again(Callers, fr)
BY DEF NextAssertion, Again, KeepsPlace, Fields, FrameFields

LEMMA MovesFromCaller ==
  ASSUME NEW fr, fr = Last(frames), Fields(fr),
         \/ VerbFails \/ BracketFails \/ PassOn \/ ConditionDecided \/ NegativeAssertionReturns
         \/ AtomicRepeatFails \/ OptionalGroupFails \/ KetFails
  PROVE  MovesOn(Callers, fr) \/ Again(Callers, fr)
<1> USE DEF MovesOn, Again, KeepsPlace, LeavesNothing, Fields, FrameFields
<1>1. CASE VerbFails
  BY <1>1 DEF VerbFails
<1>2. CASE BracketFails
  <2>1. PICK p, f : f = [fr EXCEPT !.ecode = p] /\ (TryAlternative(Callers, f) \/ RRETURN(Callers, rrc))
    BY <1>2 DEF BracketFails
  <2>2. KeepsPlace(f, fr) /\ Fields(f)
    BY <2>1
  <2>. HIDE DEF MovesOn, KeepsPlace, Fields
  <2>3. MovesOn(Callers, f)
    BY <2>1, <2>2, AlternativeMoves DEF MovesOn
  <2>. QED BY <2>2, <2>3 DEF MovesOn, KeepsPlace
<1>3. CASE PassOn
  BY <1>3 DEF PassOn
<1>4. CASE ConditionDecided
  <2>1. PICK p, q, f, g : /\ f = [fr EXCEPT !.ecode = p] /\ g = [fr EXCEPT !.ecode = q]
                          /\ \/ \E op, condition : TakeBranch(Callers, f, op, condition)
                             \/ \E op, condition : TakeBranch(Callers, g, op, condition)
                             \/ RRETURN(Callers, rrc)
    BY <1>4 DEF ConditionDecided
  <2>2. KeepsPlace(f, fr) /\ Fields(f) /\ KeepsPlace(g, fr) /\ Fields(g)
    BY <2>1
  <2>. HIDE DEF MovesOn, KeepsPlace, Fields
  <2>3. MovesOn(Callers, f) \/ MovesOn(Callers, g)
    BY <2>1, <2>2, BranchMoves DEF MovesOn
  <2>. QED BY <2>2, <2>3 DEF MovesOn, KeepsPlace
<1>5. CASE NegativeAssertionReturns
  <2>1. PICK f, none :
          /\ f = [fr EXCEPT !.ecode = KetOf(Code, @) + 1]
          /\ none => (RRETURN(Callers, "MATCH") \/ Go(Callers, f))
          /\ NextAssertion(fr, none) \/ \E answered : RRETURN(Callers, answered)
    BY <1>5, Zenon DEF NegativeAssertionReturns
  <2>2. KeepsPlace(f, fr)
    BY <2>1
  <2>3. none \/ Again(Callers, fr) \/ \E answered : RRETURN(Callers, answered)
    BY <2>1, NextAssertionMoves
  <2>. QED BY <2>1, <2>2, <2>3
<1>6. CASE AtomicRepeatFails
  BY <1>6 DEF AtomicRepeatFails
<1>7. CASE OptionalGroupFails
  BY <1>7 DEF OptionalGroupFails
<1>8. CASE KetFails
  <2>1. fr.loc.at = "RM12" \/ fr.loc.at = "RM13"
    BY <1>8 DEF KetFails, Returning
  <2>2. PICK f, g : f = [fr EXCEPT !.ecode = @ + 1, !.flags = {}] /\ g = [fr EXCEPT !.ecode = fr.loc.prev]
    OBVIOUS
  <2>3. PICK loc : loc = [at |-> "RM50"]
    OBVIOUS
  <2>4. \/ RRETURN(Callers, rrc) \/ TAIL_RECURSE(Callers, f) \/ TAIL_RECURSE(Callers, g)
        \/ RMATCH(Callers, fr, loc, fr.eptr, fr.loc.prev, fr.eptrb, fr.flags)
    BY <1>8, <2>1, <2>2, <2>3 DEF KetFails
  <2>5. KeepsPlace(f, fr) /\ KeepsPlace(g, fr) /\ KeepsPlace(fr, fr) /\ LeavesNothing(loc)
    BY <2>2, <2>3
  <2>. QED BY <2>4, <2>5
<1>. QED BY <1>1, <1>2, <1>3, <1>4, <1>5, <1>6, <1>7, <1>8

-----------------------------------------------------------------------------
(* What match() keeps of the places beside the frames.                       *)
MdKept == MdInPlace(md')

LEMMA MdInPlaceStill ==
  ASSUME MdInPlace(md)
  PROVE  MdInPlace(Md)
BY DEF MdInPlace, MdFields, Md

LEMMA MdIsKept ==
  ASSUME MdInPlace(md), md' = md \/ md' = Md
  PROVE  MdKept
BY MdInPlaceStill DEF MdKept

\* A vector of places stays one when a place is recorded in it.
LEMMA VectorKept ==
  ASSUME NEW v, v \in Vectors, NEW i, NEW x \in -1..End
  PROVE  [v EXCEPT ![i] = x] \in Vectors
BY DEF Vectors

LEMMA FramePlaced ==
  ASSUME CodeInv, PlacesInv
  PROVE  /\ Fields(frame) /\ InPlace(frame) /\ AllWaiting(frames) /\ Stack(frames) /\ MdInPlace(md)
         /\ frame.eptr \in 0..End
BY DEF CodeInv, FramesInv, Framed, Fields, PlacesInv, AllCalling, InPlace, InSubject

LEMMA CallerPlaced ==
  ASSUME CodeInv, PlacesInv, NEW a, Returning(a)
  PROVE  /\ Fields(Last(frames)) /\ Waiting(Last(frames)) /\ InPlace(frame) /\ MdInPlace(md)
         /\ AllWaiting(Callers) /\ Stack(Callers) /\ InPlace(Last(frames)) /\ Last(frames).loc.at = a
         /\ Last(frames).eptr \in 0..End
BY LastWaits DEF CodeInv, PlacesInv, Returning, Fields, Waiting, InPlace, InSubject

\* A step of match() in place.
InPlaces == WellFormed /\ CodeInv /\ PlacesInv /\ Plain /\ job.offsetcount \in Nat
Keeps == Kept /\ MdKept

LEMMA FrameMovesKeep ==
  ASSUME InPlaces,
         \/ Enter \/ Verb \/ Fail \/ Bracket \/ Condition \/ ConditionAssertion \/ SetOptions
         \/ Assertion \/ Callout \/ Atomic \/ SkipAlternatives \/ OptionalGroup \/ SkipGroup
         \/ KetOfCall \/ SimpleAssertion
  PROVE  Keeps
<1>1. /\ Fields(frame) /\ InPlace(frame) /\ AllWaiting(frames) /\ Stack(frames) /\ MdInPlace(md)
      /\ frame.eptr \in 0..End
  BY FramePlaced DEF InPlaces
<1>2. Kept
  BY <1>1, MovesFromFrame, MovesKeep
<1>3. CASE Enter
  <2>1. MdKept
    BY <1>1, <1>3 DEF Enter, MdKept, MdInPlace, MdFields
  <2>. QED BY <1>2, <2>1 DEF Keeps
<1>4. CASE KetOfCall
  <2>1. PICK m : m = Md
    OBVIOUS
  <2>2. MdInPlace(m) /\ OffsetTop(frame.offset_top)
    BY <1>1, <2>1, MdInPlaceStill DEF InPlace
  <2>3. md' = [m EXCEPT !.end_match_ptr = frame.eptr, !.end_offset_top = frame.offset_top]
    BY <1>4, <2>1 DEF KetOfCall
  <2>. QED BY <1>1, <1>2, <2>2, <2>3 DEF MdKept, MdInPlace, MdFields, Keeps
<1>5. CASE ~Enter /\ ~KetOfCall
  <2>1. md' = md \/ md' = Md
    BY <1>5 DEF Verb, Fail, Bracket, Condition, ConditionAssertion, SetOptions,
       Assertion, Callout, Atomic, SkipAlternatives, OptionalGroup, SkipGroup, SimpleAssertion
  <2>. QED BY <1>1, <1>2, <2>1, MdIsKept DEF Keeps
<1>. QED BY <1>2, <1>3, <1>4, <1>5 DEF Keeps

LEMMA CallerMovesKeep ==
  ASSUME InPlaces,
         \/ VerbFails \/ BracketFails \/ PassOn \/ ConditionDecided \/ NegativeAssertionReturns
         \/ AtomicRepeatFails \/ OptionalGroupFails \/ KetFails
  PROVE  Keeps
<1>1. PICK fr : fr = Last(frames)
  OBVIOUS
<1>2. \E a : Returning(a)
  BY DEF VerbFails, BracketFails, PassOn, ConditionDecided, NegativeAssertionReturns,
     AtomicRepeatFails, OptionalGroupFails, KetFails
<1>3. /\ Fields(fr) /\ Waiting(fr) /\ InPlace(frame) /\ MdInPlace(md) /\ AllWaiting(Callers)
      /\ Stack(Callers) /\ InPlace(fr) /\ fr.eptr \in 0..End
  BY <1>1, <1>2, CallerPlaced DEF InPlaces
<1>4. Kept
  BY <1>1, <1>3, MovesFromCaller, MovesKeep, AgainKeeps
<1>5. CASE VerbFails
  <2>1. md' = md \/ md' = [md EXCEPT !.start_match_ptr = fr.eptr]
    BY <1>1, <1>5 DEF VerbFails
  <2>2. MdKept
    BY <1>3, <2>1 DEF MdKept, MdInPlace, MdFields
  <2>. QED BY <1>4, <2>2 DEF Keeps
<1>6. CASE ~VerbFails
  <2>1. md' = md
    BY <1>6 DEF BracketFails, PassOn, ConditionDecided, NegativeAssertionReturns,
     AtomicRepeatFails, OptionalGroupFails, KetFails
  <2>. QED BY <1>3, <1>4, <2>1, MdIsKept DEF Keeps
<1>. QED BY <1>5, <1>6

-----------------------------------------------------------------------------
(* The steps that go on in the subject.                                      *)

\* The frame with a place of its own.
LEMMA ElsewhereInPlace ==
  ASSUME NEW fr, Fields(fr), InPlace(fr), NEW e \in 0..End, NEW f,
         \/ \E p : f = [fr EXCEPT !.eptr = e, !.ecode = p]
         \/ f = [fr EXCEPT !.eptr = e]
  PROVE  Fields(f) /\ InPlace(f) /\ f.eptr = e
<1>1. /\ Fields(f) /\ f.eptr = e /\ f.mstart = fr.mstart /\ f.offset_top = fr.offset_top
  BY DEF Fields, FrameFields
<1>. QED BY <1>1 DEF InPlace, InSubject

LEMMA ForwardInPlace ==
  ASSUME Plain, NEW e \in 0..End, NEW x, Forward(e, x), x # NoMatch
  PROVE  x \in 0..End /\ e <= x
<1>1. PICK n \in Nat : n = End
  BY EndIsNatural
<1>. QED BY <1>1 DEF Forward

LEMMA NextPlaceKeeps ==
  ASSUME InPlaces, md' = Md,
         RRETURN(frames, "NOMATCH") \/ \E e \in 0..End : Go(frames, At1(e))
  PROVE  Keeps
<1>1. /\ Fields(frame) /\ InPlace(frame) /\ AllWaiting(frames) /\ Stack(frames) /\ MdInPlace(md)
  BY FramePlaced DEF InPlaces
<1>2. MdKept
  BY <1>1, MdIsKept
<1>3. CASE RRETURN(frames, "NOMATCH")
  BY <1>1, <1>2, <1>3, ReturnKeeps DEF Keeps
<1>4. CASE \E e \in 0..End : Go(frames, At1(e))
  <2>1. PICK e \in 0..End : Go(frames, At1(e))
    BY <1>4
  <2>2. PICK f : f = [frame EXCEPT !.eptr = e, !.ecode = @ + 1]
    OBVIOUS
  <2>3. InPlace(f) /\ Go(frames, f)
    BY <1>1, <2>1, <2>2, ElsewhereInPlace DEF At1
  <2>. QED BY <1>1, <1>2, <2>3, GoKeeps DEF Keeps
<1>. QED BY <1>3, <1>4

\* The instruction that runs, and what is numeric in it.
LEMMA RunningNumeric ==
  ASSUME InPlaces, NEW ops, Running(ops)
  PROVE  Op.op \in ops /\ Numeric(Code, frame.ecode) /\ Op = Code[frame.ecode]
BY DEF InPlaces, CodeInv, FramesInv, Framed, InCode, Running, Op, WellFormed

LEMMA SingleStepsKeep ==
  ASSUME InPlaces, Type \/ Char \/ NotChar \/ ReverseBack
  PROVE  Keeps
<1>1. frame.eptr \in 0..End
  BY FramePlaced DEF InPlaces
<1>2. PICK e : e = frame.eptr
  OBVIOUS
<1>3. PICK n \in Nat : n = End
  BY EndIsNatural DEF InPlaces
<1>4. e \in Nat /\ e <= n /\ e \in Int
  BY <1>1, <1>2, <1>3
<1>5. CASE Type
  <2>1. Op.op \in CharTypes
    BY <1>5, RunningNumeric DEF Type
  <2>2. PICK x : x = SingleType(Op.op, M, e)
    OBVIOUS
  <2>3. Forward(e, x)
    BY <1>3, <1>4, <2>1, <2>2, SingleTypeIsForward DEF InPlaces
  <2>4. IF x = NoMatch THEN RRETURN(frames, "NOMATCH") ELSE Go(frames, At1(x))
    BY <1>2, <1>5, <2>2 DEF Type
  <2>5. RRETURN(frames, "NOMATCH") \/ \E y \in 0..End : Go(frames, At1(y))
    BY <1>1, <1>2, <2>3, <2>4, ForwardInPlace DEF InPlaces
  <2>. QED BY <1>5, <2>5, NextPlaceKeeps DEF Type
<1>6. CASE Char
  <2>1. Op.c \in 0..INT_MAX
    BY <1>6, RunningNumeric DEF Char, Numeric
  <2>2. PICK x : x = IF Op.op = "CHAR" THEN CharMatches(Op.c, e) ELSE CharNcMatches(Op.c, e)
    OBVIOUS
  <2>3. x = CharMatches(Op.c, e) \/ x = CharNcMatches(Op.c, e)
    BY <2>2
  <2>4. Forward(e, x)
    BY <1>3, <1>4, <2>1, <2>3, CharactersAreForward DEF InPlaces
  <2>5. IF x = NoMatch THEN RRETURN(frames, "NOMATCH") ELSE Go(frames, At1(x))
    BY <1>2, <1>6, <2>2 DEF Char
  <2>6. RRETURN(frames, "NOMATCH") \/ \E y \in 0..End : Go(frames, At1(y))
    BY <1>1, <1>2, <2>4, <2>5, ForwardInPlace DEF InPlaces
  <2>. QED BY <1>6, <2>6, NextPlaceKeeps DEF Char
<1>7. CASE NotChar
  <2>1. CharEnd(M, e) = e + 1
    BY <1>4, OneByte DEF InPlaces
  <2>2. RRETURN(frames, "NOMATCH") \/ (~(e >= n) /\ Go(frames, At1(e + 1)))
    BY <1>2, <1>3, <1>7, <2>1 DEF NotChar
  <2>3. ~(e >= n) => e + 1 \in 0..n
    BY <1>4
  <2>. QED BY <1>3, <1>7, <2>2, <2>3, NextPlaceKeeps DEF NotChar
<1>8. CASE ReverseBack
  <2>1. Op.n \in Nat
    BY <1>8, RunningNumeric DEF ReverseBack, Numeric
  <2>2. RRETURN(frames, "NOMATCH") \/ \E y \in 0..End : Go(frames, At1(y))
    BY <1>1, <1>8, <2>1, BackRuns DEF InPlaces
  <2>. QED BY <1>8, <2>2, NextPlaceKeeps DEF ReverseBack
<1>. QED BY <1>5, <1>6, <1>7, <1>8

LEMMA SetStartKeeps ==
  ASSUME InPlaces, SetStartOfMatch
  PROVE  Keeps
<1>1. /\ Fields(frame) /\ InPlace(frame) /\ AllWaiting(frames) /\ Stack(frames) /\ MdInPlace(md)
  BY FramePlaced DEF InPlaces
<1>2. PICK f : f = [frame EXCEPT !.mstart = frame.eptr, !.ecode = @ + 1]
  OBVIOUS
<1>3. f.eptr = frame.eptr /\ f.mstart = frame.eptr /\ f.offset_top = frame.offset_top
  BY <1>1, <1>2 DEF Fields, FrameFields
<1>4. InPlace(f) /\ Go(frames, f) /\ md' = Md
  BY <1>1, <1>2, <1>3 DEF InPlace, InSubject, SetStartOfMatch
<1>. QED BY <1>1, <1>4, GoKeeps, MdIsKept DEF Keeps

-----------------------------------------------------------------------------
(* The steps of a repeat.                                                    *)
LEMMA LesserIsNatural ==
  ASSUME NEW a \in Nat, NEW b \in Nat
  PROVE  Min({a, b}) \in Nat
<1>1. PICK m : m = IF a <= b THEN a ELSE b
  OBVIOUS
<1>2. m \in {a, b} /\ \A y \in {a, b} : m <= y
  BY <1>1
<1>3. Min({a, b}) \in {a, b}
  BY <1>2 DEF Min
<1>. QED BY <1>3

LEMMA RepeatKeeps ==
  ASSUME InPlaces, NEW fr, Fields(fr), InPlace(fr), NEW item, RepeatedItem(item),
         NEW max \in Nat, NEW min \in Nat, min <= max, NEW lazy, NEW possessive, md' = Md,
         Repeat(fr, item, min, max, lazy, possessive)
  PROVE  Keeps
<1>1. /\ InPlace(frame) /\ AllWaiting(frames) /\ Stack(frames) /\ MdInPlace(md) /\ Plain
  BY FramePlaced DEF InPlaces
<1>2. MdKept
  BY <1>1, MdIsKept
<1>3. PICK n \in Nat : n = End
  BY <1>1, EndIsNatural
<1>4. PICK p \in 0..End : p = fr.eptr
  BY DEF InPlace, InSubject
<1>5. PICK e : e = MinimumEnd(fr, item, min)
  OBVIOUS
<1>6. Forward(p, e) /\ RepeatRest(fr, item, min, max, lazy, possessive, e)
  BY <1>1, <1>4, <1>5, MinimumRuns DEF Repeat
<1>7. CASE e = NoMatch
  BY <1>1, <1>2, <1>6, <1>7, ReturnKeeps DEF RepeatRest, Keeps
<1>8. CASE e # NoMatch
  <2>1. e \in 0..End
    BY <1>1, <1>4, <1>6, <1>8, ForwardInPlace
  <2>2. PICK k : k = Min({max - min, End})
    OBVIOUS
  <2>3. k \in Nat
    <3>1. max - min \in Nat
      OBVIOUS
    <3>. QED BY <1>3, <2>2, <3>1, LesserIsNatural
  <2>4. PICK last : last = GreedyEnd(fr, item, e, k)
    OBVIOUS
  <2>5. last \in e..End
    BY <1>1, <2>1, <2>3, <2>4, GreedyRuns
  <2>6. last \in 0..End /\ e \in 0..last
    BY <1>3, <2>1, <2>5
  <2>7. PICK f, g : f = [fr EXCEPT !.eptr = e] /\ g = [fr EXCEPT !.eptr = last]
    OBVIOUS
  <2>8. Fields(f) /\ InPlace(f) /\ Fields(g) /\ InPlace(g) /\ g.eptr = last
    BY <2>1, <2>6, <2>7, ElsewhereInPlace
  <2>9. PICK each, all : each = [at |-> "LAZY", item |-> item, fi |-> min, max |-> max]
                         /\ all = [at |-> "GREEDY", item |-> item, pp |-> e]
    OBVIOUS
  <2>10. Resumes(f, each)
    BY <2>9 DEF Resumes
  <2>11. Resumes(g, all)
    BY <2>6, <2>8, <2>9 DEF Resumes
  <2>12. \/ Go(frames, f) \/ RMATCH(frames, f, each, e, fr.ecode, fr.eptrb, {})
         \/ Go(frames, g) \/ RMATCH(frames, g, all, last, fr.ecode, fr.eptrb, {})
    <3>1. CASE min = max
      BY <1>6, <1>8, <2>7, <3>1 DEF RepeatRest
    <3>2. CASE min # max /\ lazy
      <4>1. LazyRest(fr, item, min, max, e)
        BY <1>6, <1>8, <3>2 DEF RepeatRest
      <4>. QED BY <4>1, <2>7, <2>9 DEF LazyRest
    <3>3. CASE min # max /\ ~lazy
      <4>1. GreedyRest(fr, item, e, last, possessive)
        BY <1>6, <1>8, <2>2, <2>4, <3>3 DEF RepeatRest
      <4>. QED BY <4>1, <2>7, <2>9 DEF GreedyRest
    <3>. QED BY <3>1, <3>2, <3>3
  <2>13. CASE Go(frames, f) \/ Go(frames, g)
    BY <1>1, <1>2, <2>8, <2>13, GoKeeps DEF Keeps
  <2>14. CASE RMATCH(frames, f, each, e, fr.ecode, fr.eptrb, {})
    BY <1>1, <1>2, <2>1, <2>8, <2>10, <2>14, CallKeeps DEF Keeps, Fields
  <2>15. CASE RMATCH(frames, g, all, last, fr.ecode, fr.eptrb, {})
    BY <1>1, <1>2, <2>6, <2>8, <2>11, <2>15, CallKeeps DEF Keeps, Fields
  <2>. QED BY <2>12, <2>13, <2>14, <2>15
<1>. QED BY <1>7, <1>8

\* The frame behind its item, at the same place.
LEMMA BehindInPlace ==
  ASSUME NEW fr, Fields(fr), InPlace(fr), NEW f, NEW p, f = [fr EXCEPT !.ecode = p]
  PROVE  Fields(f) /\ InPlace(f) /\ f.eptr = fr.eptr
<1>1. /\ Fields(f) /\ f.eptr = fr.eptr /\ f.mstart = fr.mstart /\ f.offset_top = fr.offset_top
  BY DEF Fields, FrameFields
<1>. QED BY <1>1 DEF InPlace, InSubject

LEMMA RepLimits ==
  ASSUME NEW rep, NEW n \in Nat
  PROVE  RepMin(rep, n) \in Nat /\ RepMax(rep, n) \in Nat /\ RepMin(rep, n) <= RepMax(rep, n)
<1>1. INT_MAX >= 1
  BY SMT DEF INT_MAX
<1>2. PICK x \in Nat : x = INT_MAX /\ 1 <= x
  BY <1>1, EntriesOfTable1
<1>. QED BY <1>2 DEF RepMin, RepMax

LEMMA RepeatsKeep ==
  ASSUME InPlaces, RepeatSingle \/ RepeatClass
  PROVE  Keeps
<1>1. Fields(frame) /\ InPlace(frame)
  BY FramePlaced DEF InPlaces
<1>2. CASE RepeatSingle
  <2>1. Op.op \in RepOps /\ Numeric(Code, frame.ecode) /\ Op = Code[frame.ecode]
    BY <1>2, RunningNumeric DEF RepeatSingle
  <2>2. RepeatedItem(Op) /\ Op.n \in Nat
    BY <2>1 DEF RepeatedItem, Numeric, RepOps
  <2>3. PICK f : f = [frame EXCEPT !.ecode = @ + 1]
    OBVIOUS
  <2>4. PICK min, max : min = RepMin(Op.rep, Op.n) /\ max = RepMax(Op.rep, Op.n)
    OBVIOUS
  <2>5. min \in Nat /\ max \in Nat /\ min <= max
    BY <2>2, <2>4, RepLimits
  <2>6. Repeat(f, Op, min, max, Op.rep \in LazyReps, Op.rep \in PossessiveReps) /\ md' = Md
    BY <1>2, <2>3, <2>4 DEF RepeatSingle
  <2>7. Fields(f) /\ InPlace(f)
    BY <1>1, <2>3, BehindInPlace
  <2>. QED BY <2>2, <2>5, <2>6, <2>7, RepeatKeeps
<1>3. CASE RepeatClass
  <2>1. Op.op \in ClassOps /\ Numeric(Code, frame.ecode) /\ Op = Code[frame.ecode]
    BY <1>3, RunningNumeric DEF RepeatClass
  <2>2. RepeatedItem(Op)
    BY <2>1 DEF RepeatedItem, Numeric, ClassOps
  <2>3. PICK f : f = [frame EXCEPT !.ecode = AfterItem(Code, @)]
    OBVIOUS
  <2>4. PICK q : q = Quantifier(Code, frame.ecode)
    OBVIOUS
  <2>5. PICK min, max : min = q.min /\ max = q.max
    OBVIOUS
  <2>6. min \in Nat /\ max \in Nat /\ min <= max
    BY <2>1, <2>4, <2>5 DEF Numeric
  <2>7. Repeat(f, Op, min, max, q.lazy, FALSE) /\ md' = Md
    BY <1>3, <2>3, <2>4, <2>5 DEF RepeatClass
  <2>8. Fields(f) /\ InPlace(f)
    BY <1>1, <2>3, BehindInPlace
  <2>. QED BY <2>2, <2>6, <2>7, <2>8, RepeatKeeps
<1>. QED BY <1>2, <1>3

\* A capture that is below offset_top has room in the vector, and a length.
LEMMA CaptureLength ==
  ASSUME InPlaces, CapturesForward, phase = "match", NEW n \in Nat \ {0}, 2 * n < frame.offset_top
  PROVE  md.offset_vector[2 * n + 1] - md.offset_vector[2 * n] \in Nat
<1>1. PICK top \in Nat : top = frame.offset_top /\ (top <= 2 \/ top <= OffsetMax)
  BY FramePlaced DEF InPlaces, InPlace, OffsetTop
<1>2. PICK k \in Nat : OCount = 3 * k /\ OffsetMax = 2 * k
  BY VectorParts DEF InPlaces, WellFormed
<1>3. 2 * n < 2 * k /\ n \in 1..(2 * k - 1)
  BY <1>1, <1>2
<1>4. PICK v \in Vectors : v = md.offset_vector
  BY FramePlaced DEF InPlaces, MdInPlace
<1>5. v[2 * n] <= v[2 * n + 1]
  BY <1>2, <1>3, <1>4 DEF CapturesForward
<1>6. 2 * n \in 0..(OCount - 1) /\ 2 * n + 1 \in 0..(OCount - 1)
  BY <1>2, <1>3, RoomForCapture DEF InPlaces, WellFormed
<1>7. PICK i, j : i = 2 * n /\ j = 2 * n + 1
  OBVIOUS
<1>8. v[i] \in -1..End /\ v[j] \in -1..End
  BY <1>4, <1>6, <1>7 DEF Vectors
<1>9. PICK x \in Int, y \in Int : x = v[i] /\ y = v[j] /\ x <= y
  BY <1>5, <1>7, <1>8
<1>. QED BY <1>4, <1>7, <1>9

LEMMA ReferenceKeeps ==
  ASSUME InPlaces, CapturesForward, phase = "match", Reference
  PROVE  Keeps
<1>1. /\ Fields(frame) /\ InPlace(frame) /\ AllWaiting(frames) /\ Stack(frames) /\ MdInPlace(md)
      /\ frame.eptr \in 0..End
  BY FramePlaced DEF InPlaces
<1>2. Op.op = "REF" /\ Numeric(Code, frame.ecode) /\ Op = Code[frame.ecode] /\ md' = Md
  BY RunningNumeric DEF Reference
<1>3. PICK n \in Nat \ {0} : n = Op.n
  BY <1>2 DEF Numeric
<1>4. PICK z \in Nat : z = End
  BY EndIsNatural DEF InPlaces
<1>5. PICK unset : unset = (2 * n >= frame.offset_top \/ md.offset_vector[2 * n] < 0)
  OBVIOUS
<1>6. PICK length : length = IF ~unset
                             THEN md.offset_vector[2 * n + 1] - md.offset_vector[2 * n]
                             ELSE IF "JAVASCRIPT_COMPAT" \in re.options THEN 0
                             ELSE End - frame.eptr + 1
  OBVIOUS
<1>7. length \in Nat
  <2>1. CASE ~unset
    <3>1. frame.offset_top \in Nat
      BY <1>1 DEF InPlace, OffsetTop
    <3>2. ~(2 * n >= frame.offset_top)
      BY <1>5, <2>1, Zenon
    <3>3. 2 * n < frame.offset_top
      BY <3>1, <3>2
    <3>. QED BY <1>6, <2>1, <3>3, CaptureLength
  <2>2. CASE unset
    <3>1. End - frame.eptr + 1 \in Nat
      BY <1>1, <1>4
    <3>. QED BY <1>6, <2>2, <3>1
  <2>. QED BY <2>1, <2>2
<1>8. PICK item : item = [op |-> "REF", offset |-> 2 * n, length |-> length]
  OBVIOUS
<1>9. RepeatedItem(item)
  BY <1>7, <1>8 DEF RepeatedItem, RepOps, ClassOps
<1>10. PICK q : q = Quantifier(Code, frame.ecode)
  OBVIOUS
<1>11. PICK min, max : min = q.min /\ max = q.max
  OBVIOUS
<1>12. min \in Nat /\ max \in Nat /\ min <= max
  BY <1>2, <1>10, <1>11 DEF Numeric
<1>13. PICK f : f = [frame EXCEPT !.ecode = AfterItem(Code, @)]
  OBVIOUS
<1>14. Fields(f) /\ InPlace(f)
  BY <1>1, <1>13, BehindInPlace
<1>15. Go(frames, f) \/ Repeat(f, item, min, max, q.lazy, FALSE)
  BY <1>3, <1>5, <1>6, <1>8, <1>10, <1>11, <1>13 DEF Reference
<1>16. CASE Go(frames, f)
  BY <1>1, <1>2, <1>14, <1>16, GoKeeps, MdIsKept DEF Keeps
<1>17. CASE Repeat(f, item, min, max, q.lazy, FALSE)
  BY <1>2, <1>9, <1>12, <1>14, <1>17, RepeatKeeps
<1>. QED BY <1>15, <1>16, <1>17

\* What follows a repeat has failed: one more item, or one less.
LEMMA LazyRepeatFailsKeeps ==
  ASSUME InPlaces, LazyRepeatFails
  PROVE  Keeps
<1>1. PICK fr : fr = Last(frames)
  OBVIOUS
<1>2. /\ Fields(fr) /\ Waiting(fr) /\ InPlace(frame) /\ MdInPlace(md) /\ AllWaiting(Callers)
      /\ Stack(Callers) /\ InPlace(fr) /\ fr.loc.at = "LAZY"
  BY <1>1, CallerPlaced DEF InPlaces, LazyRepeatFails
<1>3. PICK item : item = fr.loc.item
  OBVIOUS
<1>4. RepeatedItem(item) /\ "item" \in DOMAIN fr.loc
  BY <1>2, <1>3 DEF Waiting, Resumes
<1>5. "at" \in DOMAIN fr.loc
  BY <1>1, LastCalls DEF InPlaces, CodeInv, LazyRepeatFails, Returning, Calling, GoesOn
<1>6. PICK p \in 0..End : p = fr.eptr
  BY <1>2 DEF InPlace, InSubject
<1>7. PICK n \in Nat : n = End /\ p \in Nat /\ p <= n
  BY EndIsNatural DEF InPlaces
<1>8. MdKept
  BY <1>2, MdIsKept DEF LazyRepeatFails
<1>9. PICK y : y = ItemEnd("lazy", fr, item, p)
  OBVIOUS
<1>10. PICK x : (x = NoMatch \/ x = y) /\ (LazyNext(fr, x) \/ RRETURN(Callers, rrc))
  BY <1>1, <1>3, <1>6, <1>9 DEF LazyRepeatFails
<1>11. Forward(p, y)
  BY <1>4, <1>7, <1>9, ItemIsForward DEF InPlaces
<1>12. CASE RRETURN(Callers, rrc) \/ RRETURN(Callers, "NOMATCH")
  BY <1>2, <1>8, <1>12, ReturnKeeps DEF Keeps
<1>13. CASE x # NoMatch /\ LazyNext(fr, x)
  <2>1. x \in 0..End
    BY <1>10, <1>11, <1>13, ForwardInPlace DEF InPlaces
  <2>2. PICK f, loc : f = [fr EXCEPT !.eptr = x] /\ loc = [fr.loc EXCEPT !.fi = @ + 1]
    OBVIOUS
  <2>3. Fields(f) /\ InPlace(f)
    BY <1>2, <2>1, <2>2, ElsewhereInPlace
  <2>4. loc.at = "LAZY" /\ "item" \in DOMAIN loc /\ loc.item = item
    BY <1>2, <1>3, <1>4, <1>5, <2>2
  <2>5. Resumes(f, loc)
    BY <1>4, <2>4 DEF Resumes
  <2>6. RMATCH(Callers, f, loc, x, fr.ecode, fr.eptrb, {})
    BY <1>13, <2>2 DEF LazyNext
  <2>. QED BY <1>2, <1>8, <2>1, <2>3, <2>5, <2>6, CallKeeps DEF Keeps, Fields
<1>14. RRETURN(Callers, rrc) \/ RRETURN(Callers, "NOMATCH") \/ (x # NoMatch /\ LazyNext(fr, x))
  BY <1>10 DEF LazyNext
<1>. QED BY <1>12, <1>13, <1>14

LEMMA GiveBackGoesBack ==
  ASSUME Plain, NEW item, RepeatedItem(item), NEW e \in Nat \ {0}
  PROVE  GiveBack(item, e) \in Int /\ GiveBack(item, e) <= e
<1>1. e - 1 \in Nat
  OBVIOUS
<1>2. CASE item.op = "REF"
  <2>1. PICK length \in Nat : length = item.length
    BY <1>2 DEF RepeatedItem
  <2>. QED BY <1>2, <2>1 DEF GiveBack
<1>3. CASE item.op = "CHARREP" /\ Utf8
  <2>1. PICK w \in Nat : w = Len(OrdToUtf8(item.c))
    BY <1>3, BytesOfCharacter DEF RepeatedItem
  <2>2. GiveBack(item, e) = e - w
    BY <1>3, <2>1 DEF GiveBack
  <2>. QED BY <2>1, <2>2
<1>4. CASE item.op \notin {"REF", "CHARREP"} /\ Utf8
  <2>1. GiveBack(item, e) = e - 1
    BY <1>1, <1>4, NothingToGoBack DEF GiveBack
  <2>. QED BY <2>1
<1>5. CASE item.op # "REF" /\ ~Utf8
  <2>1. GiveBack(item, e) = e - 1
    BY <1>5 DEF GiveBack
  <2>. QED BY <2>1
<1>. QED BY <1>2, <1>3, <1>4, <1>5

LEMMA GreedyRepeatFailsKeeps ==
  ASSUME InPlaces, GreedyRepeatFails
  PROVE  Keeps
<1>1. PICK fr : fr = Last(frames)
  OBVIOUS
<1>2. /\ Fields(fr) /\ Waiting(fr) /\ InPlace(frame) /\ MdInPlace(md) /\ AllWaiting(Callers)
      /\ Stack(Callers) /\ InPlace(fr) /\ fr.loc.at = "GREEDY"
  BY <1>1, CallerPlaced DEF InPlaces, GreedyRepeatFails
<1>3. PICK item, loc : loc = fr.loc /\ item = loc.item
  OBVIOUS
<1>4. RepeatedItem(item) /\ "item" \in DOMAIN loc /\ loc.at = "GREEDY" /\ loc.pp \in 0..fr.eptr
  BY <1>2, <1>3 DEF Waiting, Resumes
<1>5. PICK p \in 0..End : p = fr.eptr
  BY <1>2 DEF InPlace, InSubject
<1>6. PICK n \in Nat : n = End /\ p \in Nat /\ p <= n
  BY EndIsNatural DEF InPlaces
<1>7. PICK pp \in 0..p : pp = loc.pp
  BY <1>4, <1>5
<1>8. MdKept
  BY <1>2, MdIsKept DEF GreedyRepeatFails
<1>9. PICK e : e = GiveBack(item, p)
  OBVIOUS
<1>10. PICK f : f = [fr EXCEPT !.eptr = e]
  OBVIOUS
<1>11. \/ RRETURN(Callers, rrc) \/ RRETURN(Callers, "NOMATCH")
       \/ /\ ~(p = pp) /\ ~(e < pp)
          /\ RMATCH(Callers, f, loc, e, fr.ecode, fr.eptrb, {})
  BY <1>1, <1>3, <1>5, <1>7, <1>9, <1>10 DEF GreedyRepeatFails
<1>12. CASE RRETURN(Callers, rrc) \/ RRETURN(Callers, "NOMATCH")
  BY <1>2, <1>8, <1>12, ReturnKeeps DEF Keeps
<1>13. CASE /\ ~(p = pp) /\ ~(e < pp)
            /\ RMATCH(Callers, f, loc, e, fr.ecode, fr.eptrb, {})
  <2>1. p \in Nat \ {0}
    BY <1>6, <1>13
  <2>2. e \in Int /\ e <= p
    BY <1>4, <1>9, <2>1, GiveBackGoesBack DEF InPlaces
  <2>3. e \in 0..End /\ pp \in 0..e
    BY <1>6, <1>13, <2>2
  <2>4. Fields(f) /\ InPlace(f) /\ f.eptr = e
    BY <1>2, <1>10, <2>3, ElsewhereInPlace
  <2>5. Resumes(f, loc)
    BY <1>3, <1>4, <1>7, <2>3, <2>4 DEF Resumes
  <2>. QED BY <1>2, <1>8, <1>13, <2>3, <2>4, <2>5, CallKeeps DEF Keeps, Fields
<1>. QED BY <1>11, <1>12, <1>13

-----------------------------------------------------------------------------
(* Assertions and atomic groups: on from the place their call has ended at.  *)
LEMMA AssertionReturnsKeeps ==
  ASSUME InPlaces, AssertionReturns
  PROVE  Keeps
<1>1. PICK fr : fr = Last(frames)
  OBVIOUS
<1>2. /\ Fields(fr) /\ Waiting(fr) /\ InPlace(frame) /\ MdInPlace(md) /\ AllWaiting(Callers)
      /\ Stack(Callers) /\ InPlace(fr)
  BY <1>1, CallerPlaced DEF InPlaces, AssertionReturns
<1>3. MdKept
  BY <1>2, MdIsKept DEF AssertionReturns
<1>4. PICK f : f = [fr EXCEPT !.ecode = KetOf(Code, @) + 1, !.offset_top = md.end_offset_top]
  OBVIOUS
<1>5. f.eptr = fr.eptr /\ f.mstart = fr.mstart /\ f.offset_top = md.end_offset_top
  BY <1>2, <1>4 DEF Fields, FrameFields
<1>6. InPlace(f)
  BY <1>2, <1>5 DEF InPlace, InSubject, MdInPlace
<1>7. PICK none : none = RRETURN(Callers, "NOMATCH")
  OBVIOUS
<1>8. (\E answered : RRETURN(Callers, answered)) \/ Go(Callers, f) \/ NextAssertion(fr, none)
  BY <1>1, <1>4, <1>7 DEF AssertionReturns
<1>9. (\E answered : RRETURN(Callers, answered)) \/ Go(Callers, f) \/ Again(Callers, fr)
  BY <1>2, <1>7, <1>8, NextAssertionMoves
<1>. QED BY <1>2, <1>3, <1>6, <1>9, GoKeeps, ReturnKeeps, AgainKeeps DEF Keeps

LEMMA AtomicMatchedKeeps ==
  ASSUME InPlaces, NEW fr, Fields(fr), InPlace(fr), AllWaiting(Callers), Stack(Callers),
         AtomicMatched(fr)
  PROVE  Kept
<1>1. InPlace(frame) /\ MdInPlace(md)
  BY FramePlaced DEF InPlaces
<1>2. PICK ket : ket = KetOf(Code, fr.ecode)
  OBVIOUS
<1>3. PICK e, top : e = md.end_match_ptr /\ top = md.end_offset_top
  OBVIOUS
<1>4. PICK on : on = [fr EXCEPT !.eptr = e, !.offset_top = top, !.ecode = ket]
  OBVIOUS
<1>5. PICK ims, opt : opt = on \/ opt = [on EXCEPT !.ims = ims]
  OBVIOUS
<1>6. /\ e \in 0..End /\ OffsetTop(top)
      /\ Fields(on) /\ on.eptr = e /\ on.mstart = fr.mstart /\ on.offset_top = top
  BY <1>1, <1>3, <1>4 DEF MdInPlace, Fields, FrameFields
<1>7. PICK next : next = [on EXCEPT !.ecode = ket + 1]
  OBVIOUS
<1>8. InPlace(on)
  BY <1>6 DEF InPlace, InSubject
<1>9. KeepsPlace(next, on)
  BY <1>6, <1>7 DEF KeepsPlace, Fields, FrameFields
<1>10. PICK lazy, greedy : lazy = [at |-> "RM8", prev |-> fr.loc.prev] /\ greedy = [at |-> "RM9"]
  OBVIOUS
<1>11. LeavesNothing(lazy) /\ LeavesNothing(greedy)
  BY <1>10 DEF LeavesNothing
<1>12. \E o : /\ o = on \/ \E i : o = [on EXCEPT !.ims = i]
              /\ \/ Go(Callers, next)
                 \/ RMATCH(Callers, o, lazy, o.eptr, ket + 1, fr.eptrb, {})
                 \/ RMATCH(Callers, o, greedy, o.eptr, fr.loc.prev, fr.eptrb, {"cbegroup"})
  BY <1>2, <1>3, <1>4, <1>7, <1>10 DEF AtomicMatched
<1>13. PICK o : /\ o = on \/ \E i : o = [on EXCEPT !.ims = i]
                /\ \/ Go(Callers, next)
                   \/ RMATCH(Callers, o, lazy, o.eptr, ket + 1, fr.eptrb, {})
                   \/ RMATCH(Callers, o, greedy, o.eptr, fr.loc.prev, fr.eptrb, {"cbegroup"})
  BY <1>12
<1>14. KeepsPlace(o, on) /\ Fields(o) /\ o.eptr = on.eptr
  BY <1>6, <1>13 DEF KeepsPlace, Fields, FrameFields
<1>15. MovesOn(Callers, on)
  BY <1>9, <1>11, <1>13, <1>14 DEF MovesOn, Fields
<1>. QED BY <1>1, <1>8, <1>15, MovesKeep

LEMMA AtomicReturnsKeeps ==
  ASSUME InPlaces, AtomicReturns
  PROVE  Keeps
<1>1. PICK fr : fr = Last(frames)
  OBVIOUS
<1>2. /\ Fields(fr) /\ Waiting(fr) /\ InPlace(frame) /\ MdInPlace(md) /\ AllWaiting(Callers)
      /\ Stack(Callers) /\ InPlace(fr)
  BY <1>1, CallerPlaced DEF InPlaces, AtomicReturns
<1>3. MdKept
  BY <1>2, MdIsKept DEF AtomicReturns
<1>4. PICK next, f : next = NextAlt(Code, fr.ecode) /\ f = [fr EXCEPT !.ecode = next]
  OBVIOUS
<1>5. Fields(f) /\ KeepsPlace(f, fr)
  BY <1>2, <1>4 DEF Fields, FrameFields, KeepsPlace
<1>6. \/ AtomicMatched(fr) \/ \E answered : RRETURN(Callers, answered)
      \/ RMATCH(Callers, f, fr.loc, fr.eptr, next + 1, fr.eptrb, {})
  BY <1>1, <1>4 DEF AtomicReturns
<1>7. CASE AtomicMatched(fr)
  BY <1>2, <1>3, <1>7, AtomicMatchedKeeps DEF Keeps
<1>8. CASE \E answered : RRETURN(Callers, answered)
  BY <1>2, <1>3, <1>8, ReturnKeeps DEF Keeps
<1>9. CASE RMATCH(Callers, f, fr.loc, fr.eptr, next + 1, fr.eptrb, {})
  <2>1. Again(Callers, fr)
    BY <1>5, <1>9 DEF Again, Fields
  <2>. QED BY <1>2, <1>3, <2>1, AgainKeeps DEF Keeps
<1>. QED BY <1>6, <1>7, <1>8, <1>9

-----------------------------------------------------------------------------
(* Captures.                                                                 *)
LEMMA CaptureBracketKeeps ==
  ASSUME InPlaces, CaptureBracket
  PROVE  Keeps
<1>1. /\ Fields(frame) /\ InPlace(frame) /\ AllWaiting(frames) /\ Stack(frames) /\ MdInPlace(md)
      /\ frame.eptr \in 0..End
  BY FramePlaced DEF InPlaces
<1>2. Op.op \in CaptureOps /\ Numeric(Code, frame.ecode) /\ Op = Code[frame.ecode]
  BY RunningNumeric DEF CaptureBracket
<1>3. PICK n \in Nat \ {0} : n = Op.n
  BY <1>2 DEF Numeric
<1>4. /\ 2 * n \in 0..(OCount - 1) /\ 2 * n + 1 \in 0..(OCount - 1)
      /\ OCount - n \in 0..(OCount - 1)
  BY <1>3, RoomForCapture DEF CaptureBracket, InPlaces, WellFormed
<1>5. PICK v \in Vectors : v = md.offset_vector
  BY <1>1 DEF MdInPlace
<1>6. PICK i, j, k : i = 2 * n /\ j = 2 * n + 1 /\ k = OCount - n
  OBVIOUS
<1>7. v[i] \in -1..End /\ v[j] \in -1..End /\ v[k] \in -1..End
  BY <1>4, <1>5, <1>6 DEF Vectors
<1>8. PICK save : save = <<v[i], v[j], v[k]>>
  OBVIOUS
<1>9. \A x \in 1..3 : save[x] \in -1..End
  <2>1. \A x \in 1..3 : x = 1 \/ x = 2 \/ x = 3
    OBVIOUS
  <2>2. save[1] = v[i] /\ save[2] = v[j] /\ save[3] = v[k]
    BY <1>8
  <2>. QED BY <1>7, <2>1, <2>2
<1>10. PICK loc : loc = [at |-> "RM1", n |-> n, save_capture_last |-> md.capture_last, save |-> save]
  OBVIOUS
<1>11. PICK f : f = [frame EXCEPT !.flags = BraFlags(Op.op)]
  OBVIOUS
<1>12. Fields(f) /\ InPlace(f)
  <2>1. /\ Fields(f) /\ f.eptr = frame.eptr /\ f.mstart = frame.mstart
        /\ f.offset_top = frame.offset_top
    BY <1>1, <1>11 DEF Fields, FrameFields
  <2>. QED BY <1>1, <2>1 DEF InPlace, InSubject
<1>13. Resumes(f, loc)
  <2>1. loc.at = "RM1" /\ loc.save = save
    BY <1>10
  <2>. QED BY <1>9, <2>1 DEF Resumes
<1>14. RMATCH(frames, f, loc, frame.eptr, frame.ecode + 1, frame.eptrb, f.flags)
  BY <1>3, <1>5, <1>6, <1>8, <1>10, <1>11 DEF CaptureBracket
<1>15. Kept
  BY <1>1, <1>12, <1>13, <1>14, CallKeeps DEF Fields
<1>16. PICK m : m = Md
  OBVIOUS
<1>17. MdInPlace(m)
  BY <1>1, <1>16, MdInPlaceStill
<1>18. md' = [m EXCEPT !.offset_vector[k] = frame.eptr]
  BY <1>3, <1>6, <1>16 DEF CaptureBracket
<1>19. PICK u, w : u = m.offset_vector /\ w = [u EXCEPT ![k] = frame.eptr]
  OBVIOUS
<1>20. frame.eptr \in -1..End
  BY <1>1
<1>21. w \in Vectors
  BY <1>17, <1>19, <1>20, VectorKept DEF MdInPlace
<1>22. md' = [m EXCEPT !.offset_vector = w]
  BY <1>18, <1>19
<1>23. MdKept
  BY <1>17, <1>21, <1>22 DEF MdKept, MdInPlace, MdFields
<1>. QED BY <1>15, <1>23 DEF Keeps

LEMMA CaptureBracketFailsKeeps ==
  ASSUME InPlaces, CaptureBracketFails
  PROVE  Keeps
<1>1. PICK fr : fr = Last(frames)
  OBVIOUS
<1>2. /\ Fields(fr) /\ Waiting(fr) /\ InPlace(frame) /\ MdInPlace(md) /\ AllWaiting(Callers)
      /\ Stack(Callers) /\ InPlace(fr) /\ fr.loc.at = "RM1"
  BY <1>1, CallerPlaced DEF InPlaces, CaptureBracketFails
<1>3. PICK next, f : next = NextAlt(Code, fr.ecode) /\ f = [fr EXCEPT !.ecode = next]
  OBVIOUS
<1>4. Fields(f) /\ KeepsPlace(f, fr)
  BY <1>2, <1>3 DEF Fields, FrameFields, KeepsPlace
<1>5. PICK loc, save : loc = fr.loc /\ save = loc.save
  OBVIOUS
<1>6. save[1] \in -1..End /\ save[2] \in -1..End /\ save[3] \in -1..End
  BY <1>2, <1>5 DEF Waiting, Resumes
<1>7. PICK v \in Vectors : v = md.offset_vector
  BY <1>2 DEF MdInPlace
<1>8. PICK w : w = [v EXCEPT ![2 * loc.n] = save[1], ![2 * loc.n + 1] = save[2],
                             ![OCount - loc.n] = save[3]]
  OBVIOUS
<1>9. w \in Vectors
  <2>1. PICK i, j, k : i = 2 * loc.n /\ j = 2 * loc.n + 1 /\ k = OCount - loc.n
    OBVIOUS
  <2>2. w = [v EXCEPT ![i] = save[1], ![j] = save[2], ![k] = save[3]]
    BY <1>8, <2>1
  <2>. QED BY <1>6, <1>7, <2>2 DEF Vectors
<1>10. PICK last : last = loc.save_capture_last
  OBVIOUS
<1>11. \/ RRETURN(Callers, rrc) /\ md' = md
       \/ /\ RMATCH(Callers, f, loc, fr.eptr, next + 1, fr.eptrb, fr.flags)
          /\ md' = [md EXCEPT !.capture_last = last]
       \/ RRETURN(Callers, "NOMATCH") /\ md' = [md EXCEPT !.capture_last = last, !.offset_vector = w]
  <2>1. CASE ~Failed
    BY <1>1, <2>1 DEF CaptureBracketFails
  <2>2. CASE Failed /\ Code[next].op = "ALT"
    BY <1>1, <1>3, <1>5, <1>10, <2>2 DEF CaptureBracketFails
  <2>3. CASE Failed /\ Code[next].op # "ALT"
    <3>1. RRETURN(Callers, "NOMATCH")
      BY <1>1, <1>3, <2>3 DEF CaptureBracketFails
    <3>2. md' = [md EXCEPT !.capture_last = last, !.offset_vector =
                          [@ EXCEPT ![2 * loc.n] = save[1],
                                    ![2 * loc.n + 1] = save[2],
                                    ![OCount - loc.n] = save[3]]]
      BY <1>1, <1>3, <1>5, <1>10, <2>3 DEF CaptureBracketFails
    <3>3. md' = [md EXCEPT !.capture_last = last, !.offset_vector = w]
      BY <1>7, <1>8, <3>2
    <3>. QED BY <3>1, <3>3
  <2>. QED BY <2>1, <2>2, <2>3
<1>12. MdKept
  BY <1>2, <1>9, <1>11 DEF MdKept, MdInPlace, MdFields
<1>13. CASE \E answered : RRETURN(Callers, answered)
  BY <1>2, <1>12, <1>13, ReturnKeeps DEF Keeps
<1>14. CASE RMATCH(Callers, f, loc, fr.eptr, next + 1, fr.eptrb, fr.flags)
  <2>1. Again(Callers, fr)
    BY <1>4, <1>5, <1>14 DEF Again, Fields
  <2>. QED BY <1>2, <1>12, <2>1, AgainKeeps DEF Keeps
<1>. QED BY <1>11, <1>13, <1>14

-----------------------------------------------------------------------------
(* The end of a group.                                                       *)
LEMMA KetCapturePlaced ==
  ASSUME InPlaces, NEW n \in Nat \ {0}
  PROVE  MdInPlace(KetCapture(n))
<1>1. PICK m : m = Md
  OBVIOUS
<1>2. MdInPlace(md) /\ MdInPlace(m) /\ frame.eptr \in 0..End
  BY <1>1, FramePlaced, MdInPlaceStill DEF InPlaces
<1>3. CASE 2 * n >= OffsetMax
  BY <1>1, <1>2, <1>3 DEF KetCapture, MdInPlace, MdFields
<1>4. CASE ~(2 * n >= OffsetMax)
  <2>1. PICK k \in Nat : OffsetMax = 2 * k
    BY VectorParts DEF InPlaces, WellFormed
  <2>2. 2 * n < OffsetMax
    BY <1>4, <2>1
  <2>3. OCount - n \in 0..(OCount - 1)
    BY <2>2, RoomForCapture DEF InPlaces, WellFormed
  <2>4. PICK u \in Vectors, v \in Vectors : u = m.offset_vector /\ v = md.offset_vector
    BY <1>2 DEF MdInPlace
  <2>5. PICK x, start : x = OCount - n /\ start = v[x]
    OBVIOUS
  <2>6. start \in -1..End /\ frame.eptr \in -1..End
    <3>1. v[x] \in -1..End
      BY <2>3, <2>5 DEF Vectors
    <3>2. frame.eptr \in -1..End
      BY <1>2
    <3>. QED BY <2>5, <3>1, <3>2
  <2>7. PICK i, j : i = 2 * n /\ j = 2 * n + 1
    OBVIOUS
  <2>8. PICK w : w = [u EXCEPT ![i] = start, ![j] = frame.eptr]
    OBVIOUS
  <2>9. w \in Vectors
    BY <2>4, <2>6, <2>8 DEF Vectors
  <2>10. KetCapture(n) = [m EXCEPT !.capture_last = n, !.offset_vector = w]
    BY <1>1, <1>4, <2>4, <2>5, <2>7, <2>8 DEF KetCapture
  <2>. QED BY <1>2, <2>9, <2>10 DEF MdInPlace, MdFields
<1>. QED BY <1>3, <1>4

LEMMA GreaterOfTwo ==
  ASSUME NEW a \in Nat, NEW b \in Nat
  PROVE  Max({a, b}) \in {a, b}
<1>1. PICK m : m = IF a >= b THEN a ELSE b
  OBVIOUS
<1>2. m \in {a, b} /\ \A y \in {a, b} : m >= y
  BY <1>1
<1>. QED BY <1>2 DEF Max

LEMMA TopKept ==
  ASSUME InPlaces, NEW n \in Nat \ {0}, NEW top, OffsetTop(top)
  PROVE  OffsetTop(IF 2 * n < OffsetMax THEN Max({top, 2 * n + 2}) ELSE top)
<1>1. CASE 2 * n < OffsetMax
  <2>1. OffsetTop(2 * n + 2)
    BY <1>1, RoomForCapture DEF InPlaces, WellFormed
  <2>2. PICK k \in Nat : k = 2 * n + 2
    OBVIOUS
  <2>3. Max({top, k}) \in {top, k}
    BY GreaterOfTwo DEF OffsetTop
  <2>. QED BY <1>1, <2>1, <2>2, <2>3
<1>2. CASE ~(2 * n < OffsetMax)
  BY <1>2
<1>. QED BY <1>1, <1>2

\* The group of the KET that runs, and its number.
LEMMA KetHasGroup ==
  ASSUME InPlaces, Running(KetOps)
  PROVE  Code[Prev].op \in CaptureOps => Code[Prev].n \in Nat \ {0}
<1>1. frame.ecode \in DOMAIN Code /\ Op = Code[frame.ecode] /\ Op.op \in KetOps
  BY DEF InPlaces, CodeInv, FramesInv, Framed, InCode, Running, Op
<1>2. Prev \in DOMAIN Code
  BY <1>1 DEF InPlaces, WellFormed, Linked, IsGroup, Prev
<1>. QED BY <1>2 DEF InPlaces, WellFormed, Numeric

LEMMA KetRepeatsMoves ==
  ASSUME NEW fr, Fields(fr), NEW prev, KetRepeats(fr, prev)
  PROVE  MovesOn(frames, fr)
<1>1. PICK f, g : f = [fr EXCEPT !.ecode = fr.ecode + 1] /\ g = [fr EXCEPT !.flags = BraFlags(Code[prev].op)]
  OBVIOUS
<1>2. PICK lazy, greedy : lazy = [at |-> "RM12", prev |-> prev] /\ greedy = [at |-> "RM13"]
  OBVIOUS
<1>3. KeepsPlace(f, fr) /\ KeepsPlace(g, fr) /\ Fields(g)
  BY <1>1 DEF KeepsPlace, Fields, FrameFields
<1>4. LeavesNothing(lazy) /\ LeavesNothing(greedy)
  BY <1>2 DEF LeavesNothing
<1>5. \/ Go(frames, f) \/ RMATCH(frames, g, lazy, fr.eptr, fr.ecode + 1, fr.eptrb, {})
      \/ RMATCH(frames, g, greedy, fr.eptr, prev, fr.eptrb, BraFlags(Code[prev].op))
  BY <1>1, <1>2 DEF KetRepeats
<1>. QED BY <1>3, <1>4, <1>5 DEF MovesOn, Fields

LEMMA PoppedInPlace ==
  ASSUME InPlaces
  PROVE  Fields(Popped) /\ KeepsPlace(Popped, frame)
BY FramePlaced DEF InPlaces, Popped, Fields, FrameFields, KeepsPlace

LEMMA KetKeeps ==
  ASSUME InPlaces, Ket
  PROVE  Keeps
<1>1. /\ Fields(frame) /\ InPlace(frame) /\ AllWaiting(frames) /\ Stack(frames) /\ MdInPlace(md)
  BY FramePlaced DEF InPlaces
<1>2. PICK popped : popped = Popped
  OBVIOUS
<1>3. PICK on : on = [popped EXCEPT !.ims = frame.original_ims]
  OBVIOUS
<1>4. /\ Fields(on) /\ on.eptr = frame.eptr /\ on.mstart = frame.mstart
      /\ on.offset_top = frame.offset_top
  BY <1>2, <1>3, PoppedInPlace DEF Fields, FrameFields, KeepsPlace
<1>5. CASE Code[Prev].op \in CaptureOps
  <2>1. PICK n \in Nat \ {0} : n = Code[Prev].n
    BY <1>5, KetHasGroup DEF Ket
  <2>2. PICK top : top = IF 2 * n < OffsetMax THEN Max({on.offset_top, 2 * n + 2}) ELSE on.offset_top
    OBVIOUS
  <2>3. OffsetTop(top)
    BY <1>1, <1>4, <2>2, TopKept DEF InPlace
  <2>4. PICK f : f = [on EXCEPT !.offset_top = top]
    OBVIOUS
  <2>5. KetRepeats(f, Prev) /\ md' = KetCapture(n)
    BY <1>2, <1>3, <1>5, <2>1, <2>2, <2>4 DEF Ket
  <2>6. Fields(f) /\ f.eptr = frame.eptr /\ f.mstart = frame.mstart /\ f.offset_top = top
    BY <1>4, <2>4 DEF Fields, FrameFields
  <2>7. InPlace(f)
    BY <1>1, <2>3, <2>6 DEF InPlace, InSubject
  <2>8. MovesOn(frames, f)
    BY <2>5, <2>6, KetRepeatsMoves
  <2>9. MdKept
    BY <2>5, KetCapturePlaced DEF MdKept
  <2>. QED BY <1>1, <2>7, <2>8, <2>9, MovesKeep DEF Keeps
<1>6. CASE Code[Prev].op \notin CaptureOps
  <2>1. KetRepeats(on, Prev) /\ md' = Md
    BY <1>2, <1>3, <1>6 DEF Ket
  <2>2. MovesOn(frames, on)
    BY <1>4, <2>1, KetRepeatsMoves
  <2>3. InPlace(on)
    BY <1>1, <1>4 DEF InPlace, InSubject
  <2>. QED BY <1>1, <2>1, <2>2, <2>3, MovesKeep, MdIsKept DEF Keeps
<1>. QED BY <1>5, <1>6

-----------------------------------------------------------------------------
(* Calls of groups, and their ends.                                          *)
LEMMA SavedPop ==
  ASSUME NEW s, Stack(s), SavedPlaces(s), s # <<>>
  PROVE  SavedPlace(s[1]) /\ SavedPlaces(Tail(s))
<1>1. PICK E : s \in Seq(E)
  BY DEF Stack
<1>2. 1 \in DOMAIN s /\ Len(s) \in Nat \ {0} /\ DOMAIN s = 1..Len(s)
  BY <1>1, EmptySeq
<1>3. \A i \in DOMAIN Tail(s) : i + 1 \in DOMAIN s /\ Tail(s)[i] = s[i + 1]
  BY <1>1, <1>2
<1>. QED BY <1>2, <1>3 DEF SavedPlaces

LEMMA SavedPush ==
  ASSUME NEW s, Stack(s), SavedPlaces(s), NEW rec, SavedPlace(rec)
  PROVE  SavedPlaces(<<rec>> \o s)
<1>1. PICK E : s \in Seq(E)
  BY DEF Stack
<1>2. s \in Seq(E \cup {rec}) /\ <<rec>> \in Seq(E \cup {rec})
  BY <1>1, SeqMonotonic
<1>4. ASSUME NEW i \in DOMAIN (<<rec>> \o s)
      PROVE  \/ (<<rec>> \o s)[i] = rec
             \/ i - 1 \in DOMAIN s /\ (<<rec>> \o s)[i] = s[i - 1]
  <2>1. Len(s) \in Nat /\ Len(<<rec>>) = 1 /\ DOMAIN s = 1..Len(s)
    BY <1>1
  <2>2. i \in 1..(1 + Len(s))
    BY <1>2, <1>4, <2>1
  <2>. QED BY <1>2, <2>1, <2>2
<1>. QED BY <1>4 DEF SavedPlaces

LEMMA CallsAreStacked ==
  ASSUME InPlaces
  PROVE  Stack(md.recursive) /\ SavedPlaces(md.recursive)
BY FramePlaced DEF InPlaces, CodeInv, RecursionsInv, Recursions, MdInPlace

LEMMA EndOfRecursionInPlace ==
  ASSUME InPlaces, NEW fr, Fields(fr), InPlace(fr), NEW rec, rec = md.recursive[1],
         md.recursive # <<>>, NEW f, f = EndRecursion(fr, rec)
  PROVE  /\ Fields(f) /\ InPlace(f) /\ f.offset_top = fr.offset_top /\ SavedPlace(rec)
         /\ SavedPlaces(Tail(md.recursive))
<1>1. SavedPlace(rec) /\ SavedPlaces(Tail(md.recursive))
  BY CallsAreStacked, SavedPop
<1>2. /\ Fields(f) /\ f.eptr = fr.eptr /\ f.mstart = rec.save_start /\ f.offset_top = fr.offset_top
  BY DEF EndRecursion, Fields, FrameFields
<1>. QED BY <1>1, <1>2 DEF InPlace, InSubject, SavedPlace

LEMMA AcceptKeeps ==
  ASSUME InPlaces, Accept
  PROVE  Keeps
<1>1. /\ Fields(frame) /\ InPlace(frame) /\ AllWaiting(frames) /\ Stack(frames) /\ MdInPlace(md)
  BY FramePlaced DEF InPlaces
<1>2. PICK m : m = Md
  OBVIOUS
<1>3. MdInPlace(m) /\ m.recursive = md.recursive
  BY <1>1, <1>2, MdInPlaceStill DEF Md, MdInPlace, MdFields
<1>4. CASE md.recursive # <<>> /\ md.recursive[1].group_num = 0
  <2>1. PICK rec : rec = md.recursive[1]
    OBVIOUS
  <2>2. PICK f : f = EndRecursion(frame, rec)
    OBVIOUS
  <2>3. PICK calls : calls = Tail(md.recursive)
    OBVIOUS
  <2>4. md' = [m EXCEPT !.recursive = calls, !.offset_vector = rec.offset_save] /\ Go(frames, f)
    BY <1>2, <1>3, <1>4, <2>1, <2>2, <2>3 DEF Accept
  <2>5. InPlace(f) /\ SavedPlace(rec) /\ SavedPlaces(calls)
    BY <1>1, <1>4, <2>1, <2>2, <2>3, EndOfRecursionInPlace
  <2>6. MdKept
    BY <1>3, <2>4, <2>5 DEF MdKept, MdInPlace, MdFields, SavedPlace
  <2>. QED BY <1>1, <2>4, <2>5, <2>6, GoKeeps DEF Keeps
<1>5. CASE ~(md.recursive # <<>> /\ md.recursive[1].group_num = 0)
  <2>1. \/ md' = m
        \/ md' = [m EXCEPT !.end_match_ptr = frame.eptr,
                           !.end_offset_top = frame.offset_top,
                           !.start_match_ptr = frame.mstart]
    BY <1>2, <1>5 DEF Accept
  <2>2. \E answered : RRETURN(frames, answered)
    BY <1>5 DEF Accept
  <2>3. MdKept
    BY <1>1, <1>3, <2>1 DEF MdKept, MdInPlace, MdFields, InPlace, InSubject
  <2>. QED BY <1>1, <2>2, <2>3, ReturnKeeps DEF Keeps
<1>. QED BY <1>4, <1>5

LEMMA KetOfSubroutineKeeps ==
  ASSUME InPlaces, KetOfSubroutine
  PROVE  Keeps
<1>1. /\ Fields(frame) /\ InPlace(frame) /\ AllWaiting(frames) /\ Stack(frames) /\ MdInPlace(md)
  BY FramePlaced DEF InPlaces
<1>2. PICK n \in Nat \ {0} : n = Code[Prev].n
  BY KetHasGroup DEF KetOfSubroutine
<1>3. PICK rec : rec = md.recursive[1]
  OBVIOUS
<1>4. PICK top : top = IF 2 * n < OffsetMax THEN Max({frame.offset_top, 2 * n + 2})
                       ELSE frame.offset_top
  OBVIOUS
<1>5. OffsetTop(top)
  BY <1>1, <1>4, TopKept DEF InPlace
<1>6. PICK popped : popped = Popped
  OBVIOUS
<1>7. Fields(popped) /\ InPlace(popped)
  BY <1>1, <1>6, PoppedInPlace DEF KeepsPlace, InPlace, InSubject
<1>8. PICK g : g = EndRecursion(popped, rec)
  OBVIOUS
<1>9. PICK f : f = [g EXCEPT !.offset_top = top]
  OBVIOUS
<1>10. PICK calls : calls = Tail(md.recursive)
  OBVIOUS
<1>11. md.recursive # <<>>
  BY DEF KetOfSubroutine, InSubroutine
<1>12. Fields(g) /\ InPlace(g) /\ SavedPlace(rec) /\ SavedPlaces(calls)
  BY <1>3, <1>7, <1>8, <1>10, <1>11, EndOfRecursionInPlace
<1>13. f.eptr = g.eptr /\ f.mstart = g.mstart /\ f.offset_top = top
  BY <1>9, <1>12 DEF Fields, FrameFields
<1>14. InPlace(f)
  BY <1>5, <1>12, <1>13 DEF InPlace, InSubject
<1>15. PICK m : m = KetCapture(n)
  OBVIOUS
<1>16. MdInPlace(m)
  BY <1>15, KetCapturePlaced
<1>17. m.recursive = md.recursive
  BY <1>15, KetCaptureStays DEF InPlaces, CodeInv
<1>18. Go(frames, f) /\ md' = [m EXCEPT !.recursive = calls, !.offset_vector = rec.offset_save]
  <2>1. Go(frames, f)
    BY <1>2, <1>3, <1>4, <1>6, <1>8, <1>9 DEF KetOfSubroutine
  <2>2. md' = [m EXCEPT !.recursive = Tail(@), !.offset_vector = rec.offset_save]
    BY <1>2, <1>3, <1>15 DEF KetOfSubroutine
  <2>. QED BY <1>10, <1>17, <2>1, <2>2
<1>19. MdKept
  BY <1>12, <1>16, <1>18 DEF MdKept, MdInPlace, MdFields, SavedPlace
<1>. QED BY <1>1, <1>14, <1>18, <1>19, GoKeeps DEF Keeps

LEMMA RecurseKeeps ==
  ASSUME InPlaces, Recurse
  PROVE  Keeps
<1>1. /\ Fields(frame) /\ InPlace(frame) /\ AllWaiting(frames) /\ Stack(frames) /\ MdInPlace(md)
      /\ frame.eptr \in 0..End
  BY FramePlaced DEF InPlaces
<1>2. PICK callpat : callpat = Op.link
  OBVIOUS
<1>3. PICK rec : rec = [group_num |-> GroupNumber(callpat), after_call |-> frame.ecode + 1,
                 offset_save |-> md.offset_vector, save_start |-> frame.mstart]
  OBVIOUS
<1>4. SavedPlace(rec)
  BY <1>1, <1>3 DEF SavedPlace, InPlace, InSubject, MdInPlace
<1>5. PICK f : f = [frame EXCEPT !.ecode = @ + 1, !.mstart = frame.eptr,
                              !.flags = BraFlags(Code[callpat].op)]
  OBVIOUS
<1>6. Fields(f) /\ InPlace(f)
  <2>1. /\ Fields(f) /\ f.eptr = frame.eptr /\ f.mstart = frame.eptr
        /\ f.offset_top = frame.offset_top
    BY <1>1, <1>5 DEF Fields, FrameFields
  <2>. QED BY <1>1, <2>1 DEF InPlace, InSubject
<1>7. PICK loc : loc = [at |-> "RM6", callpat |-> callpat, rec |-> rec, prevrec |-> md.recursive]
  OBVIOUS
<1>8. Resumes(f, loc)
  <2>1. loc.at = "RM6" /\ loc.rec = rec /\ loc.prevrec = md.recursive
    BY <1>7
  <2>. QED BY <1>4, <2>1, CallsAreStacked DEF Resumes
<1>9. RMATCH(frames, f, loc, frame.eptr, callpat + 1, frame.eptrb, f.flags)
  BY <1>2, <1>3, <1>5, <1>7 DEF Recurse
<1>10. Kept
  BY <1>1, <1>6, <1>8, <1>9, CallKeeps DEF Fields
<1>11. PICK m, calls : m = Md /\ calls = <<rec>> \o md.recursive
  OBVIOUS
<1>12. MdInPlace(m) /\ m.recursive = md.recursive
  BY <1>1, <1>11, MdInPlaceStill DEF Md, MdInPlace, MdFields
<1>13. md' = [m EXCEPT !.recursive = calls]
  BY <1>2, <1>3, <1>11, <1>12 DEF Recurse
<1>14. SavedPlaces(calls)
  BY <1>4, <1>11, CallsAreStacked, SavedPush
<1>15. MdKept
  BY <1>12, <1>13, <1>14 DEF MdKept, MdInPlace, MdFields
<1>. QED BY <1>10, <1>15 DEF Keeps

LEMMA RecurseReturnsKeeps ==
  ASSUME InPlaces, RecurseReturns
  PROVE  Keeps
<1>1. PICK fr, loc : fr = Last(frames) /\ loc = fr.loc
  OBVIOUS
<1>2. /\ Fields(fr) /\ Waiting(fr) /\ InPlace(frame) /\ MdInPlace(md) /\ AllWaiting(Callers)
      /\ Stack(Callers) /\ InPlace(fr) /\ loc.at = "RM6" /\ fr.eptr \in 0..End
  BY <1>1, CallerPlaced DEF InPlaces, RecurseReturns
<1>3. SavedPlace(loc.rec) /\ SavedPlaces(loc.prevrec)
  BY <1>1, <1>2 DEF Waiting, Resumes
<1>4. GoesOn(fr.ecode, loc)
  BY <1>1, LastCalls DEF InPlaces, CodeInv, RecurseReturns, Returning, Calling
<1>5. {"at", "callpat", "rec", "prevrec"} \subseteq DOMAIN loc /\ Stack(loc.prevrec)
  BY <1>2, <1>4 DEF GoesOn, Recursions
<1>6. PICK next, l2 : next = NextAlt(Code, loc.callpat) /\ l2 = [loc EXCEPT !.callpat = next]
  OBVIOUS
<1>7. l2.at = "RM6" /\ l2.rec = loc.rec /\ l2.prevrec = loc.prevrec
  BY <1>2, <1>5, <1>6
<1>8. Resumes(fr, l2)
  BY <1>3, <1>7 DEF Resumes
<1>9. PICK again, v : again = <<loc.rec>> \o loc.prevrec /\ v = loc.rec.offset_save
  OBVIOUS
<1>10. SavedPlaces(again) /\ v \in Vectors
  BY <1>3, <1>5, <1>9, SavedPush DEF SavedPlace
<1>11. rrc = "MATCH" \/ Failed \/ (~Failed /\ rrc # "MATCH")
  OBVIOUS
<1>12. \/ md' = md \/ md' = [md EXCEPT !.recursive = loc.prevrec]
       \/ md' = [md EXCEPT !.recursive = again, !.offset_vector = v]
       \/ md' = [md EXCEPT !.recursive = loc.prevrec, !.offset_vector = v]
  BY <1>1, <1>9, <1>11 DEF RecurseReturns, Failed
<1>13. MdKept
  BY <1>2, <1>3, <1>10, <1>12 DEF MdKept, MdInPlace, MdFields
<1>14. \/ \E answered : RRETURN(Callers, answered)
       \/ RMATCH(Callers, fr, l2, fr.eptr, next + 1, fr.eptrb, fr.flags)
  BY <1>1, <1>6, <1>11 DEF RecurseReturns, Failed
<1>15. Kept
  BY <1>2, <1>8, <1>14, ReturnKeeps, CallKeeps DEF Fields
<1>. QED BY <1>13, <1>15 DEF Keeps

\* Every step of match() stays in the subject.
LEMMA MatchKeepsPlaces ==
  ASSUME InPlaces, CapturesForward, phase = "match", MatchStep
  PROVE  Keeps
<1>1. CASE \/ Enter \/ Verb \/ Fail \/ Bracket \/ Condition \/ ConditionAssertion \/ SetOptions
           \/ Assertion \/ Callout \/ Atomic \/ SkipAlternatives \/ OptionalGroup \/ SkipGroup
           \/ KetOfCall \/ SimpleAssertion
  BY <1>1, FrameMovesKeep
<1>2. CASE \/ VerbFails \/ BracketFails \/ PassOn \/ ConditionDecided \/ NegativeAssertionReturns
           \/ AtomicRepeatFails \/ OptionalGroupFails \/ KetFails
  BY <1>2, CallerMovesKeep
<1>3. CASE Type \/ Char \/ NotChar \/ ReverseBack \/ SetStartOfMatch
  BY <1>3, SingleStepsKeep, SetStartKeeps
<1>4. CASE \/ RepeatSingle \/ RepeatClass \/ Reference \/ LazyRepeatFails \/ GreedyRepeatFails
  BY <1>4, RepeatsKeep, ReferenceKeeps, LazyRepeatFailsKeeps, GreedyRepeatFailsKeeps
<1>5. CASE \/ AssertionReturns \/ AtomicReturns \/ CaptureBracket \/ CaptureBracketFails
           \/ Accept \/ KetOfSubroutine \/ Ket \/ Recurse \/ RecurseReturns
  BY <1>5, AssertionReturnsKeeps, AtomicReturnsKeeps, CaptureBracketKeeps, CaptureBracketFailsKeeps,
     AcceptKeeps, KetOfSubroutineKeeps, KetKeeps, RecurseKeeps, RecurseReturnsKeeps
<1>. QED BY <1>1, <1>2, <1>3, <1>4, <1>5 DEF MatchStep

-----------------------------------------------------------------------------
(* The search for the start of a match.                                      *)

\* What the places are measured by stays as long as the call does.
LEMMA CallIsFixed ==
  ASSUME re' = re, job' = job
  PROVE  End' = End /\ OCount' = OCount /\ OffsetMax' = OffsetMax /\ Utf8' = Utf8 /\ Vectors' = Vectors
<1>1. End' = End /\ OCount' = OCount /\ Utf8' = Utf8
  BY DEF End, Subject, OCount, Utf8
<1>. QED BY <1>1 DEF OffsetMax, Vectors

LEMMA MdInPlaceNext ==
  ASSUME re' = re, job' = job, MdInPlace(md')
  PROVE  MdInPlace(md)'
BY CallIsFixed DEF MdInPlace, SavedPlaces, SavedPlace, OffsetTop

LEMMA PlacesNext ==
  ASSUME re' = re, job' = job, Keeps
  PROVE  PlacesInv'
<1>1. /\ InPlace(frame') /\ AllWaiting(frames') /\ MdInPlace(md')
  BY DEF Keeps, Kept, MdKept
<1>2. InPlace(frame)'
  BY <1>1, CallIsFixed DEF InPlace, InSubject, OffsetTop
<1>3. AllWaiting(frames)'
  BY <1>1, CallIsFixed DEF AllWaiting, Waiting, InPlace, InSubject, OffsetTop, Resumes, RepeatedItem,
     SavedPlaces, SavedPlace
<1>. QED BY <1>1, <1>2, <1>3, MdInPlaceNext DEF PlacesInv

LEMMA SearchInvStays ==
  ASSUME SearchInv, UNCHANGED execVars, phase # "idle" => re' = re
  PROVE  SearchInv'
<1>1. UNCHANGED <<job, phase, start_match, result, md, frame, frames>>
  BY DEF execVars, searchVars, matchVars
<1>2. CASE phase = "idle"
  BY <1>1, <1>2 DEF SearchInv
<1>3. CASE phase # "idle"
  <2>1. re' = re /\ job' = job
    BY <1>1, <1>3
  <2>2. phase \in {"scan", "match"} => MdInPlace(md)'
    BY <1>1, <2>1, MdInPlaceNext DEF SearchInv
  <2>3. phase = "match" => PlacesInv'
    <3>1. PlacesInv /\ md' = md /\ frame' = frame /\ frames' = frames => Keeps
      BY DEF PlacesInv, Keeps, Kept, MdKept
    <3>. QED BY <1>1, <2>1, <3>1, PlacesNext DEF SearchInv
  <2>. QED BY <1>1, <1>3, <2>1, <2>2, <2>3, CallIsFixed DEF SearchInv
<1>. QED BY <1>2, <1>3

LEMMA CallInPlace ==
  ASSUME SearchInv, Plain, WellFormed, job.offsetcount \in Int, re' = re, Call
  PROVE  SearchInv'
<1>1. /\ phase = "called" /\ md = NewMd /\ start_match' = start_match /\ job' = job
      /\ start_match \in 0..End
  BY DEF Call, SearchInv
<1>2. PICK n \in Nat : n = End
  BY EndIsNatural
<1>3. CASE BadCall # "none"
  <2>1. phase' = "ended" /\ result'.offsets = <<>>
    BY <1>3 DEF Call, Answer
  <2>2. DOMAIN <<>> = {}
    BY NoMatches
  <2>. QED BY <1>1, <2>1, <2>2, CallIsFixed DEF SearchInv
<1>4. CASE BadCall = "none"
  <2>1. phase' = "scan" /\ md' = [NewMd EXCEPT !.offset_vector = NoOffsets]
    BY <1>1, <1>4 DEF Call
  <2>2. ~(job.offsetcount < 0)
    BY <1>4 DEF BadCall
  <2>3. job.offsetcount \in Nat
    BY <2>2
  <2>4. NoOffsets \in Vectors
    <3>1. -1 \in -1..End
      BY <1>2
    <3>. QED BY <3>1 DEF NoOffsets, Vectors
  <2>5. PICK v : v = NoOffsets
    OBVIOUS
  <2>6. /\ MdFields \subseteq DOMAIN md' /\ md'.offset_vector = v /\ md'.recursive = <<>>
        /\ md'.end_match_ptr = 0 /\ md'.start_match_ptr = 0 /\ md'.end_offset_top = 0
    BY <2>1, <2>5 DEF NewMd, MdFields
  <2>7. MdInPlace(md')
    BY <1>2, <2>4, <2>5, <2>6, NoMatches DEF MdInPlace, SavedPlaces, OffsetTop
  <2>. QED BY <1>1, <2>1, <2>3, <2>7, MdInPlaceNext, CallIsFixed DEF SearchInv
<1>. QED BY <1>3, <1>4

\* The least of some places is one of them.
LEMMA LeastPlace ==
  ASSUME NEW E, E \subseteq Nat, E # {}
  PROVE  Min(E) \in E
BY LeastExists DEF Min

LEMMA SearchEndInSubject ==
  ASSUME Plain, start_match \in 0..End
  PROVE  SearchEnd \in start_match..End
<1>1. PICK n \in Nat : n = End
  BY EndIsNatural
<1>2. PICK s \in Nat : s = start_match /\ s <= n
  BY <1>1
<1>3. PICK E : E = {e \in s..n : e = n \/ (Boundary(e) /\ AtNl(e))}
  OBVIOUS
<1>4. n \in E /\ E \subseteq Nat /\ E \subseteq s..n
  BY <1>2, <1>3
<1>5. Min(E) \in s..n
  BY <1>4, LeastPlace
<1>6. SearchEnd = Min(E) \/ SearchEnd = n
  BY <1>1, <1>2, <1>3 DEF SearchEnd
<1>7. n \in s..n
  BY <1>2
<1>. QED BY <1>1, <1>2, <1>5, <1>6, <1>7

LEMMA FirstOfInSubject ==
  ASSUME Plain, start_match \in 0..End, NEW places \in SUBSET (0..End)
  PROVE  FirstOf(places) \in start_match..End
<1>1. PICK n \in Nat : n = End
  BY EndIsNatural
<1>2. PICK s \in Nat : s = start_match /\ s <= n
  BY <1>1
<1>3. PICK z \in s..n : z = SearchEnd
  BY <1>1, <1>2, SearchEndInSubject
<1>4. PICK E : E = {z} \cup {e \in places : s <= e /\ e <= z}
  OBVIOUS
<1>5. E \subseteq s..n /\ E # {} /\ E \subseteq Nat
  <2>1. ASSUME NEW e \in E PROVE e \in s..n /\ e \in Nat
    <3>1. e = z \/ (e \in places /\ s <= e /\ e <= z)
      BY <1>4
    <3>2. e \in 0..n
      <4>1. e \in places => e \in 0..End
        OBVIOUS
      <4>2. z \in 0..n
        BY <1>2
      <4>. QED BY <1>1, <3>1, <4>1, <4>2
    <3>. QED BY <1>2, <1>3, <3>1, <3>2
  <2>2. z \in E
    BY <1>4
  <2>. QED BY <2>1, <2>2
<1>6. Min(E) \in s..n
  BY <1>5, LeastPlace
<1>7. FirstOf(places) = Min(E) \/ FirstOf(places) = s
  BY <1>2, <1>3, <1>4 DEF FirstOf
<1>. QED BY <1>1, <1>2, <1>6, <1>7

LEMMA StartInSubject ==
  ASSUME Plain, start_match \in 0..End
  PROVE  StartCandidate \in 0..End
<1>1. PICK n \in Nat : n = End
  BY EndIsNatural
<1>2. PICK z \in 0..n : z = SearchEnd
  BY <1>1, SearchEndInSubject
<1>3. ASSUME NEW places \in SUBSET (0..End)
      PROVE  FirstOf(places) \in 0..n /\ PastCrlf(FirstOf(places)) \in 0..n
  <2>1. PICK l \in 0..n : l = FirstOf(places)
    BY <1>1, FirstOfInSubject
  <2>2. PastCrlf(l) = l \/ (l < z /\ PastCrlf(l) = l + 1)
    BY <1>2 DEF PastCrlf
  <2>. QED BY <1>2, <2>1, <2>2
<1>4. PICK P1 \in SUBSET (0..End) : P1 = {e \in 0..End : FirstByteAt(e)}
  OBVIOUS
<1>5. PICK P2 \in SUBSET (0..End) : P2 = {e \in 0..End : Boundary(e) /\ WasNl(e)}
  OBVIOUS
<1>6. PICK P3 \in SUBSET (0..End) : P3 = {e \in 0..End : At(Subject, e) \in re.start_bits}
  OBVIOUS
<1>7. PICK x, y, w : x = FirstOf(P1) /\ y = PastCrlf(FirstOf(P2)) /\ w = FirstOf(P3)
  OBVIOUS
<1>8. StartCandidate \in {x, y, w, start_match}
  BY <1>4, <1>5, <1>6, <1>7 DEF StartCandidate
<1>9. x \in 0..n /\ y \in 0..n /\ w \in 0..n
  BY <1>3, <1>7
<1>. QED BY <1>1, <1>8, <1>9

-----------------------------------------------------------------------------
\* pcre_exec() calls match() for a place in the subject, with no captures.
LEMMA ScanInPlace ==
  ASSUME SearchInv, Plain, WellFormed, re' = re, Scan
  PROVE  SearchInv'
<1>1. phase = "scan" /\ start_match \in 0..End /\ job.offsetcount \in Nat /\ MdInPlace(md)
  BY DEF Scan, SearchInv
<1>2. PICK n \in Nat : n = End
  BY EndIsNatural
<1>3. PICK start \in 0..End : start = StartCandidate
  BY <1>1, StartInSubject
<1>4. PICK req : NotThere(start) \/ BeginMatch(start, req)
  BY <1>3 DEF Scan, ScanAt, ScanFrom
<1>5. job' = job /\ start_match' = start
  BY <1>4 DEF NotThere, BeginMatch
<1>6. End' = End
  BY <1>5, CallIsFixed
<1>7. CASE NotThere(start)
  <2>1. phase' = "ended" /\ result'.offsets = <<>>
    BY <1>7 DEF NotThere, Answer
  <2>. QED BY <1>5, <1>6, <2>1, NoMatches DEF SearchInv
<1>8. CASE BeginMatch(start, req)
  <2>1. phase' = "match" /\ frames' = <<>>
    BY <1>8 DEF BeginMatch
  <2>2. PICK v : v = [i \in DOMAIN md.offset_vector |-> IF i < ResetCount THEN -1 ELSE md.offset_vector[i]]
    OBVIOUS
  <2>3. v \in Vectors
    <3>1. md.offset_vector \in Vectors /\ -1 \in -1..End
      BY <1>1, <1>2 DEF MdInPlace
    <3>. QED BY <2>2, <3>1 DEF Vectors
  <2>4. md' = [md EXCEPT !.start_match_ptr = start, !.match_call_count = 0, !.offset_vector = v]
    <3>1. "offset_vector" \in DOMAIN md
      BY <1>1 DEF MdInPlace, MdFields
    <3>. QED BY <1>8, <2>2, <3>1 DEF BeginMatch
  <2>5. MdInPlace(md')
    <3>1. PICK d : d = [md EXCEPT !.start_match_ptr = start, !.match_call_count = 0, !.offset_vector = v]
      OBVIOUS
    <3>2. /\ DOMAIN d = DOMAIN md /\ d.offset_vector = v /\ d.recursive = md.recursive
          /\ d.end_match_ptr = md.end_match_ptr /\ d.start_match_ptr = start
          /\ d.end_offset_top = md.end_offset_top
      BY <1>1, <3>1 DEF MdInPlace, MdFields
    <3>. QED BY <1>1, <2>3, <2>4, <3>1, <3>2 DEF MdInPlace
  <2>6. PICK options : frame' = [Idle EXCEPT !.eptr = start, !.mstart = start, !.ims = options]
    BY <1>8 DEF BeginMatch
  <2>7. frame'.eptr = start /\ frame'.mstart = start /\ frame'.offset_top = 2
    BY <2>6 DEF Idle
  <2>8. InPlace(frame')
    BY <2>7 DEF InPlace, InSubject, OffsetTop
  <2>9. AllWaiting(frames')
    BY <2>1, NoMatches DEF AllWaiting
  <2>10. Keeps
    BY <2>5, <2>8, <2>9 DEF Keeps, Kept, MdKept
  <2>. QED BY <1>1, <1>5, <1>6, <2>1, <2>5, <2>10, PlacesNext, MdInPlaceNext DEF SearchInv
<1>. QED BY <1>4, <1>7, <1>8

LEMMA MatchInPlace ==
  ASSUME SearchInv, Plain, WellFormed, CodeInv, CapturesForward, re' = re, Match
  PROVE  SearchInv'
<1>1. phase = "match" /\ MatchStep /\ UNCHANGED searchVars
  BY DEF Match
<1>2. UNCHANGED <<job, phase, start_match, result>>
  BY <1>1 DEF searchVars
<1>3. Keeps
  BY <1>1, MatchKeepsPlaces DEF InPlaces, SearchInv
<1>4. PlacesInv'
  BY <1>2, <1>3, PlacesNext
<1>. QED BY <1>1, <1>2, <1>4, CallIsFixed DEF SearchInv, PlacesInv

\* What pcre_exec() copies to the caller's vector is in the subject or unset.
LEMMA OffsetsInPlace ==
  ASSUME Plain, WellFormed, job.offsetcount \in Nat, MdInPlace(md), NEW i \in DOMAIN Matched.offsets
  PROVE  Matched.offsets[i] \in -1..End
<1>1. PICK n \in Nat : n = End
  BY EndIsNatural
<1>2. PICK c \in Nat : c = job.offsetcount
  OBVIOUS
<1>3. PICK k \in Nat : OCount = 3 * k
  BY VectorParts DEF WellFormed
<1>4. PICK m \in Nat : m = OCount
  BY <1>3
<1>5. PICK v : v = md.offset_vector
  OBVIOUS
<1>6. \A e \in 0..(m - 1) : v[e] \in -1..n
  BY <1>1, <1>4, <1>5 DEF MdInPlace, Vectors
<1>7. PICK a, b \in 0..n : a = md.start_match_ptr /\ b = md.end_match_ptr
  BY <1>1 DEF MdInPlace
<1>8. a \in -1..n /\ b \in -1..n /\ -1 \in -1..n
  BY <1>7
<1>9. Matched.offsets = IF c < 2 THEN <<>> ELSE UserOffsets
  BY <1>2 DEF Matched
<1>10. Matched.offsets = UserOffsets
  BY <1>9, NoMatches
<1>11. i \in 0..(c - 1)
  BY <1>2, <1>10 DEF UserOffsets
<1>12. UserOffsets[i] = CASE i = 0 -> a
                          [] i = 1 -> b
                          [] i > 1 /\ ~(m > c) /\ i < m -> v[i]
                          [] i > 1 /\ m > c /\ c >= 4 -> v[i]
                          [] OTHER -> -1
  BY <1>2, <1>4, <1>5, <1>7, <1>11 DEF UserOffsets, UsingTemporaryOffsets
<1>13. (~(m > c) /\ i < m) \/ m > c => i \in 0..(m - 1)
  BY <1>11
<1>. QED BY <1>1, <1>6, <1>8, <1>10, <1>12, <1>13

\* The next start is in the subject as well.
LEMMA NextStartInSubject ==
  ASSUME Plain, start_match \in 0..End, MdInPlace(md), ~NoOtherStart
  PROVE  NextStart \in 0..End
<1>1. PICK n \in Nat : n = End
  BY EndIsNatural
<1>2. PICK s \in Nat : s = start_match /\ s <= n
  BY <1>1
<1>3. PICK b : b = Bumpalong
  OBVIOUS
<1>4. b \in 0..n
  <2>1. CASE rrc = "SKIP"
    BY <1>1, <1>3, <2>1 DEF Bumpalong, MdInPlace
  <2>2. CASE rrc # "SKIP"
    <3>1. s < n
      BY <1>1, <1>2, <2>2 DEF NoOtherStart
    <3>2. s + 1 \in Nat
      OBVIOUS
    <3>3. Utf8 => SkipTrails(M, s + 1) = s + 1
      BY <3>2, NothingToSkip
    <3>4. b = s + 1
      BY <1>2, <1>3, <2>2, <3>3 DEF Bumpalong
    <3>. QED BY <3>1, <3>4
  <2>. QED BY <2>1, <2>2
<1>5. SplitsNewline(b) => b < n
  BY <1>1 DEF SplitsNewline
<1>6. NextStart = IF SplitsNewline(b) THEN b + 1 ELSE b
  BY <1>3 DEF NextStart
<1>. QED BY <1>1, <1>4, <1>5, <1>6

LEMMA ReturnInPlace ==
  ASSUME SearchInv, Plain, WellFormed, re' = re, MatchReturned
  PROVE  SearchInv'
<1>1. /\ phase = "match" /\ start_match \in 0..End /\ job.offsetcount \in Nat /\ MdInPlace(md)
      /\ UNCHANGED <<job, md>>
  BY DEF MatchReturned, SearchInv
<1>2. End' = End
  BY <1>1, CallIsFixed
<1>3. MdInPlace(md)'
  BY <1>1, MdInPlaceNext
<1>4. CASE rrc = "MATCH"
  <2>1. result' = Matched /\ phase' = "ended" /\ start_match' = start_match
    BY <1>4 DEF MatchReturned, Errors
  <2>2. \A i \in DOMAIN Matched.offsets : Matched.offsets[i] \in -1..End
    BY <1>1, OffsetsInPlace
  <2>. QED BY <1>1, <1>2, <2>1, <2>2 DEF SearchInv
<1>5. ASSUME NEW reason, Answer(reason), start_match' = start_match
      PROVE  SearchInv'
  <2>1. phase' = "ended" /\ result'.offsets = <<>>
    BY <1>5 DEF Answer
  <2>. QED BY <1>1, <1>2, <1>5, <2>1, NoMatches DEF SearchInv
<1>6. CASE phase' = "scan" /\ start_match' = NextStart /\ ~NoOtherStart
  <2>1. NextStart \in 0..End
    BY <1>1, <1>6, NextStartInSubject
  <2>. QED BY <1>1, <1>2, <1>3, <1>6, <2>1 DEF SearchInv
<1>7. \/ rrc = "MATCH"
      \/ \E reason : Answer(reason) /\ start_match' = start_match
      \/ phase' = "scan" /\ start_match' = NextStart /\ ~NoOtherStart
  BY DEF MatchReturned, Returns, Verdicts, Errors
<1>. QED BY <1>4, <1>5, <1>6, <1>7

LEMMA ExecKeepsPlaces ==
  ASSUME SearchInv, MachineInv, WellFormed, PlainCall, CapturesForward, Exec, re' = re
  PROVE  SearchInv'
<1>1. phase # "idle" /\ Plain /\ job.offsetcount \in Int
  <2>1. phase # "idle"
    BY DEF Exec, Call, Scan, Match, MatchReturned
  <2>. QED BY <2>1 DEF PlainCall, Plain
<1>2. CASE Call
  BY <1>1, <1>2, CallInPlace
<1>3. CASE Scan
  BY <1>1, <1>3, ScanInPlace
<1>4. CASE Match
  <2>1. CodeInv
    BY <1>4 DEF Match, MachineInv, CodeInv
  <2>. QED BY <1>1, <1>4, <2>1, MatchInPlace
<1>5. CASE MatchReturned
  BY <1>1, <1>5, ReturnInPlace
<1>. QED BY <1>2, <1>3, <1>4, <1>5 DEF Exec

LEMMA CallBeginsInSubject ==
  ASSUME NEW j, pcre_exec(j), PlainCall'
  PROVE  SearchInv'
<1>1. job' = j /\ phase' = "called" /\ md' = NewMd /\ start_match' = j.start_offset
  BY DEF pcre_exec
<1>2. start_match' \in 0..End'
  BY <1>1 DEF PlainCall
<1>. QED BY <1>1, <1>2 DEF SearchInv, NewMd

\* What is done next keeps every place in the subject.
LEMMA NextKeepsPlaces ==
  ASSUME CountsInv, PatternInv, MachineInv, SearchInv, CodeIsWellFormed, CapturesForward,
         PlainCall, PlainCall', [NextFind]_<<vars, findVars>>
  PROVE  SearchInv'
<1>1. CASE Compile /\ UNCHANGED findVars
  <2>1. at \notin {"ended", "studied"} /\ UNCHANGED <<execVars, step>>
    BY <1>1, CompileGoesOn DEF Compile, findVars
  <2>2. phase = "idle"
    BY <2>1 DEF PatternInv
  <2>. QED BY <2>1, <2>2, SearchInvStays
<1>2. CASE Study /\ step = "none" /\ UNCHANGED findVars
  <2>1. UNCHANGED execVars /\ at = "ended"
    BY <1>2 DEF Study
  <2>2. phase = "idle"
    BY <1>2, <2>1 DEF PatternInv
  <2>. QED BY <2>1, <2>2, SearchInvStays
<1>3. CASE CallExec /\ step = "none" /\ UNCHANGED findVars
  BY <1>3, CallBeginsInSubject DEF CallExec
<1>4. CASE Execute /\ UNCHANGED findVars
  <2>1. re' = re /\ Exec
    BY <1>4 DEF Execute
  <2>2. phase # "idle"
    BY <2>1 DEF Exec, Call, Scan, Match, MatchReturned
  <2>. QED BY <2>1, <2>2, ExecKeepsPlaces, PatternIsWellFormed
<1>5. CASE Begin
  BY <1>5, SearchInvStays DEF Begin
<1>6. CASE FindInString
  <2>1. re' = re
    BY <1>6 DEF FindInString
  <2>2. CASE pcre_exec(FindJob)
    BY <2>2, CallBeginsInSubject
  <2>3. CASE UNCHANGED execVars
    BY <2>1, <2>3, SearchInvStays
  <2>. QED BY <1>6, <2>2, <2>3 DEF FindInString, Replies
<1>7. CASE FindReturns \/ Deliver
  BY <1>7, SearchInvStays DEF FindReturns, Deliver
<1>8. CASE UNCHANGED <<vars, findVars>>
  BY <1>8, SearchInvStays DEF vars
<1>. QED BY <1>1, <1>2, <1>3, <1>4, <1>5, <1>6, <1>7, <1>8 DEF NextFind, Enumerate

\* match() and its callers, and what pcre_exec answers, stay in the subject, for
\* every well-formed pattern, every plain call, and every message.
THEOREM MatchStaysInSubject ==
  SpecFind /\ []CodeIsWellFormed /\ []PlainCall /\ []CapturesForward => []StaysInSubject
<1>1. Init /\ InitFind => CountsInv /\ PatternInv /\ MachineInv /\ SearchInv
  BY InitFinds DEF FindInv, Init, C!InitCompile, InitExec, InitFind, PatternInv, MachineInv, SearchInv
<1>2. CountsInv /\ PatternInv /\ MachineInv /\ CodeIsWellFormed /\ [NextFind]_<<vars, findVars>>
        => (PatternInv /\ MachineInv)'
  BY NextKeepsCode
<1>3. CountsInv /\ [NextFind]_<<vars, findVars>> => CountsInv'
  BY NextKeepsTheCounts
<1>4. CountsInv /\ PatternInv /\ MachineInv /\ SearchInv /\ CodeIsWellFormed /\ CapturesForward
        /\ PlainCall /\ PlainCall' /\ [NextFind]_<<vars, findVars>>
        => SearchInv'
  BY NextKeepsPlaces
<1>5. SearchInv => StaysInSubject
  BY DEF SearchInv, PlacesInv, InPlace, AllWaiting, Waiting, StaysInSubject
<1>. QED BY <1>1, <1>2, <1>3, <1>4, <1>5, PTL DEF SpecFind

\* match() keeps within all its bounds: its stack, the code and the subject.
THEOREM MatchStaysInBounds ==
  SpecFind /\ []CodeIsWellFormed /\ []PlainCall /\ []CapturesForward => []StaysInBounds
<1>1. DepthBounded /\ StaysInCode /\ StaysInSubject => StaysInBounds
  BY DEF StaysInBounds
<1>. QED BY <1>1, DepthIsBounded, MatchStaysInCode, MatchStaysInSubject, PTL
=============================================================================
