----------------------------- MODULE PcreChars -----------------------------
(***************************************************************************)
(* Characters as the PCRE library under FSRegex sees them: the tables of    *)
(* the C locale, the UTF-8 coding, the newline conventions and the          *)
(* extended classes.  A subject or a pattern is a sequence of bytes and a   *)
(* position in it is an offset from 0, as the pointers of the code are.     *)
(* A byte read past the end is the NUL that ends FScript's strings.         *)
(***************************************************************************)
EXTENDS Integers, Sequences, FiniteSets

Byte == 0..255

At(s, i) == IF i \in 0..(Len(s) - 1) THEN s[i + 1] ELSE 0

-----------------------------------------------------------------------------
(* The tables pcre_maketables builds, for the C locale of the default ones. *)
Digits   == 48..57
Uppers   == 65..90
Lowers   == 97..122
Letters  == Uppers \cup Lowers
Spaces   == (9..13) \cup {32}                       \* isspace()
Graphics == 33..126

\* The character sets a class may name, by cbit_ offset.
Cbit(name) ==
  CASE name = "digit"  -> Digits
    [] name = "upper"  -> Uppers
    [] name = "lower"  -> Lowers
    [] name = "word"   -> Letters \cup Digits \cup {95}
    [] name = "space"  -> Spaces
    [] name = "xdigit" -> Digits \cup (65..70) \cup (97..102)
    [] name = "graph"  -> Graphics
    [] name = "print"  -> Graphics \cup {32}
    [] name = "punct"  -> Graphics \ (Letters \cup Digits)
    [] name = "cntrl"  -> (0..31) \cup {127}

\* The tests match() makes of a byte: a space here leaves VT (0x0b) out.
Ctype(name) ==
  CASE name = "space"  -> Spaces \ {11}
    [] name = "letter" -> Letters
    [] name = "digit"  -> Digits
    [] name = "xdigit" -> Cbit("xdigit")
    [] name = "word"   -> Cbit("word")

Lcc(c) == IF c \in Uppers THEN c + 32 ELSE c
Fcc(c) == IF c \in Lowers THEN c - 32 ELSE Lcc(c)

-----------------------------------------------------------------------------
(* UTF-8.  ExtraBytes is _pcre_utf8_table4, for a byte from 0xc0 on.        *)
ExtraBytes(b) ==
  CASE b < 192 -> 0
    [] b \in 192..223 -> 1
    [] b \in 224..239 -> 2
    [] b \in 240..247 -> 3
    [] b \in 248..251 -> 4
    [] b >= 252 -> 5

Trails(b) == b \in 128..191                          \* (b & 0xc0) == 0x80

\* GETCHAR: the character at offset i, which has extra more bytes.
Decoded(s, i, extra) ==
  LET v[k \in 0..extra] == IF k = 0 THEN At(s, i) % 2^(6 - extra)
                           ELSE v[k - 1] * 64 + (At(s, i + k) % 64)
  IN IF extra = 0 THEN At(s, i) ELSE v[extra]

GETCHAR(s, i) == Decoded(s, i, ExtraBytes(At(s, i)))

GETCHARLEN(s, i) == 1 + ExtraBytes(At(s, i))

\* BACKCHAR: from offset i back to the first byte of the character there.
BACKCHAR(s, i) ==
  LET b[k \in 0..i] == IF Trails(At(s, k)) /\ k > 0 THEN b[k - 1] ELSE k
  IN b[i]

Table1 == <<127, 2047, 65535, 2097151, 67108863, 2147483647>>
Table2 == <<0, 192, 224, 240, 248, 252>>

\* The bytes _pcre_ord2utf8 writes, the last one first.
OrdToUtf8(cvalue) ==
  LET i == CHOOSE k \in 1..6 : /\ cvalue <= Table1[k]
                               /\ \A j \in 1..(k - 1) : cvalue > Table1[j]
  IN [k \in 1..i |-> IF k = 1 THEN Table2[i] + cvalue \div 64^(i - 1)
                     ELSE 128 + ((cvalue \div 64^(i - k)) % 64)]

\* Whether the character that starts at p fails the tests of
\* _pcre_valid_utf8; ab is the number of its additional bytes.
BadCharacter(s, p, ab) ==
  LET c == At(s, p)
      d == At(s, p + 1)
  IN \/ c < 192
     \/ Len(s) - p - 1 < ab
     \/ ab > 3
     \/ ~Trails(d)
     \/ ab = 1 /\ c < 194
     \/ ab = 2 /\ ((c = 224 /\ d < 160) \/ (c = 237 /\ d >= 160))
     \/ ab = 3 /\ ((c = 240 /\ d < 144) \/ c > 244 \/ (c = 244 /\ d > 143))
     \/ \E k \in 2..ab : ~Trails(At(s, p + k))

\* The offset of the first bad character, -1 if the string is valid.
ValidUtf8(s) ==
  LET v[p \in 0..Len(s)] ==
        LET ab == ExtraBytes(At(s, p))
        IN IF p = Len(s) THEN -1
           ELSE IF At(s, p) < 128 THEN v[p + 1]
           ELSE IF BadCharacter(s, p, ab) THEN p
           ELSE v[p + 1 + ab]
  IN v[0]

-----------------------------------------------------------------------------
(* Newlines.  A convention is a record: type "FIXED" with its bytes nl, or   *)
(* "ANY" or "ANYCRLF".  Both tests give the newline's length, 0 if there is *)
(* none.                                                                    *)
LF == 10
CR == 13
Newline == [lf      |-> [type |-> "FIXED", nl |-> <<LF>>],
            cr      |-> [type |-> "FIXED", nl |-> <<CR>>],
            crlf    |-> [type |-> "FIXED", nl |-> <<CR, LF>>],
            any     |-> [type |-> "ANY", nl |-> <<>>],
            anycrlf |-> [type |-> "ANYCRLF", nl |-> <<>>]]

\* The tests both functions make of the character c: of the CR and the LF they
\* take the length from the character beside.
NewlineChar(c, lf, cr, nl, utf8) ==
  CASE c = LF -> lf
    [] c = CR -> cr
    [] nl.type = "ANY" /\ c \in {11, 12} -> 1
    [] nl.type = "ANY" /\ c = 133 -> IF utf8 THEN 2 ELSE 1
    [] nl.type = "ANY" /\ c \in {8232, 8233} -> 3
    [] OTHER -> 0

\* The character at offset p, in UTF-8 or a byte.
CharOf(s, p, utf8) == IF utf8 THEN GETCHAR(s, p) ELSE At(s, p)

\* _pcre_is_newline: the newline that starts at offset p.
IsNewlineAt(s, p, nl, utf8) ==
  NewlineChar(CharOf(s, p, utf8), 1,
              IF p < Len(s) - 1 /\ At(s, p + 1) = LF THEN 2 ELSE 1, nl, utf8)

\* _pcre_was_newline: the newline that ends at offset p; its last character
\* starts at q.
NewlineBefore(s, q, nl, utf8) ==
  NewlineChar(CharOf(s, q, utf8),
              IF q > 0 /\ At(s, q - 1) = CR THEN 2 ELSE 1, 1, nl, utf8)

WasNewlineAt(s, p, nl, utf8) ==
  NewlineBefore(s, IF utf8 THEN BACKCHAR(s, p - 1) ELSE p - 1, nl, utf8)

\* The macros IS_NEWLINE and WAS_NEWLINE, with the length they leave in nllen.
NewlineLen(s, p, nl, utf8) ==
  IF nl.type # "FIXED"
  THEN IF p < Len(s) THEN IsNewlineAt(s, p, nl, utf8) ELSE 0
  ELSE IF /\ p <= Len(s) - Len(nl.nl)
          /\ \A k \in 1..Len(nl.nl) : At(s, p + k - 1) = nl.nl[k]
       THEN Len(nl.nl) ELSE 0

IS_NEWLINE(s, p, nl, utf8) == NewlineLen(s, p, nl, utf8) > 0

WAS_NEWLINE(s, p, nl, utf8) ==
  IF nl.type # "FIXED"
  THEN p > 0 /\ WasNewlineAt(s, p, nl, utf8) > 0
  ELSE /\ p >= Len(nl.nl)
       /\ \A k \in 1..Len(nl.nl) : At(s, p - Len(nl.nl) + k - 1) = nl.nl[k]

-----------------------------------------------------------------------------
(* An extended class: a map of the bytes, if there is one, and a list of     *)
(* single characters and ranges, negated or not.                            *)
XClass(c, data) ==
  LET listed == \/ c < 256 /\ c \in data.map
                \/ \E k \in DOMAIN data.list :
                     c >= data.list[k][1] /\ c <= data.list[k][2]
  IN listed # data.negated

\* The white space of \h, of \v and of \R, as the switches list it.
HSpaces == {9, 32, 160, 5760, 6158} \cup (8192..8202) \cup {8239, 8287, 12288}
VSpaces == (10..13) \cup {133, 8232, 8233}
=============================================================================
