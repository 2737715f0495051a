----------------------------- MODULE PcreTypes -----------------------------
(***************************************************************************)
(* The character types (\d, \s, \w, ., \C, \R, \h, \v and their opposites)  *)
(* as match() tests them.  The code tests them in seven places: once for a  *)
(* single item, and for the minimum, the lazy rest and the greedy rest of a *)
(* repeat, each of the three in a copy for UTF-8 and a copy for bytes.      *)
(* Every copy is translated on its own: m is what the tests read            *)
(* of match_data, e the offset of the item, and the result the offset after *)
(* it, or NoMatch.                                                          *)
(***************************************************************************)
EXTENDS PcreCode

NoMatch == -1

\* m is [s |-> subject, nl |-> newline convention, utf8, bsr_anycrlf].
AtNewline(m, e) == IS_NEWLINE(m.s, e, m.nl, m.utf8)
Ended(m, e)     == e >= Len(m.s)

\* GETCHARTEST and the offset GETCHARINCTEST leaves.
CharAt(m, e) == IF m.utf8 THEN GETCHAR(m.s, e) ELSE At(m.s, e)
CharEnd(m, e) == e + (IF m.utf8 THEN GETCHARLEN(m.s, e) ELSE 1)

\* while (eptr < end && (*eptr & 0xc0) == 0x80) eptr++
SkipTrails(m, e) ==
  LET k[p \in e..Len(m.s)] == IF p < Len(m.s) /\ Trails(m.s[p + 1])
                              THEN k[p + 1] ELSE p
  IN IF e > Len(m.s) THEN e ELSE k[e]

If(holds, e) == IF holds THEN e ELSE NoMatch

\* The switch of \R on a character c that ends at e.
AnyNlEnd(m, c, e) ==
  IF c = CR
  THEN IF ~Ended(m, e) /\ At(m.s, e) = LF THEN e + 1 ELSE e
  ELSE If(c = LF \/ (c \in VSpaces \ {CR} /\ ~m.bsr_anycrlf), e)

-----------------------------------------------------------------------------
(* A single item.                                                           *)
SingleSpace(type, m, e) ==
  LET c == CharAt(m, e)
      d == CharEnd(m, e)
  IN IF Ended(m, e) THEN NoMatch
     ELSE CASE type = "ANYNL"      -> AnyNlEnd(m, c, d)
            [] type = "NOT_HSPACE" -> If(c \notin HSpaces, d)
            [] type = "HSPACE"     -> If(c \in HSpaces, d)
            [] type = "NOT_VSPACE" -> If(c \notin VSpaces, d)
            [] type = "VSPACE"     -> If(c \in VSpaces, d)

SingleType(type, m, e) ==
  LET c == CharAt(m, e)
      d == CharEnd(m, e)
  IN IF Ended(m, e) THEN NoMatch
     ELSE CASE type = "ANY"     -> If(~AtNewline(m, e),
                                      IF m.utf8 THEN SkipTrails(m, e + 1) ELSE e + 1)
            [] type = "ALLANY"  -> IF m.utf8 THEN SkipTrails(m, e + 1) ELSE e + 1
            [] type = "ANYBYTE" -> e + 1
            [] type = "NOT_DIGIT" -> If(~(c < 256 /\ c \in Ctype("digit")), d)
            [] type = "DIGIT"     -> If(c < 256 /\ c \in Ctype("digit"), d)
            [] type = "NOT_WHITESPACE" -> If(~(c < 256 /\ c \in Ctype("space")), d)
            [] type = "WHITESPACE"     -> If(c < 256 /\ c \in Ctype("space"), d)
            [] type = "NOT_WORDCHAR"   -> If(~(c < 256 /\ c \in Ctype("word")), d)
            [] type = "WORDCHAR"       -> If(c < 256 /\ c \in Ctype("word"), d)
            [] OTHER -> SingleSpace(type, m, e)

-----------------------------------------------------------------------------
(* The minimum of a repeat.  In UTF-8 the positive types test the byte, not  *)
(* the character; in bytes the room was tested before the loop, and only    *)
(* the white space tests it again.                                          *)
MinUtf8Space(type, m, e) ==
  LET c == GETCHAR(m.s, e)
      d == e + GETCHARLEN(m.s, e)
  IN IF Ended(m, e) THEN NoMatch
     ELSE CASE type = "ANYNL"      -> AnyNlEnd(m, c, d)
            [] type = "NOT_HSPACE" -> If(c \notin HSpaces, d)
            [] type = "HSPACE"     -> If(c \in HSpaces, d)
            [] type = "NOT_VSPACE" -> If(c \notin VSpaces, d)
            [] type = "VSPACE"     -> If(c \in VSpaces, d)

MinUtf8Type(type, m, e) ==
  LET b == At(m.s, e)
      c == GETCHAR(m.s, e)
      room == ~Ended(m, e)
      Ascii(set) == b < 128 /\ b \in set
  IN CASE type = "ANY"     -> If(room /\ ~AtNewline(m, e), SkipTrails(m, e + 1))
       [] type = "ALLANY"  -> If(room, SkipTrails(m, e + 1))
       [] type = "ANYBYTE" -> e + 1
       [] type = "NOT_DIGIT" -> If(room /\ ~(c < 128 /\ c \in Ctype("digit")),
                                   e + GETCHARLEN(m.s, e))
       [] type = "DIGIT"      -> If(room /\ Ascii(Ctype("digit")), e + 1)
       [] type = "WHITESPACE" -> If(room /\ Ascii(Ctype("space")), e + 1)
       [] type = "WORDCHAR"   -> If(room /\ Ascii(Ctype("word")), e + 1)
       [] type = "NOT_WHITESPACE" -> If(room /\ ~Ascii(Ctype("space")),
                                        SkipTrails(m, e + 1))
       [] type = "NOT_WORDCHAR" -> If(room /\ ~Ascii(Ctype("word")),
                                      SkipTrails(m, e + 1))
       [] OTHER -> MinUtf8Space(type, m, e)

MinByteType(type, m, e) ==
  LET c == At(m.s, e)
      room == ~Ended(m, e)
  IN CASE type = "ANY"        -> If(~AtNewline(m, e), e + 1)
       [] type \in {"ALLANY", "ANYBYTE"} -> e + 1
       [] type = "ANYNL" -> IF room THEN AnyNlEnd(m, c, e + 1) ELSE NoMatch
       [] type = "NOT_HSPACE" -> If(room /\ c \notin HSpaces, e + 1)
       [] type = "HSPACE"     -> If(room /\ c \in HSpaces, e + 1)
       [] type = "NOT_VSPACE" -> If(room /\ c \notin VSpaces, e + 1)
       [] type = "VSPACE"     -> If(room /\ c \in VSpaces, e + 1)
       [] type = "NOT_DIGIT"  -> If(c \notin Ctype("digit"), e + 1)
       [] type = "DIGIT"      -> If(c \in Ctype("digit"), e + 1)
       [] type = "NOT_WHITESPACE" -> If(c \notin Ctype("space"), e + 1)
       [] type = "WHITESPACE"     -> If(c \in Ctype("space"), e + 1)
       [] type = "NOT_WORDCHAR"   -> If(c \notin Ctype("word"), e + 1)
       [] type = "WORDCHAR"       -> If(c \in Ctype("word"), e + 1)

-----------------------------------------------------------------------------
(* One more item of a lazy repeat; the loop has tested the end, and the      *)
(* newline for ANY.                                                         *)
LazyUtf8Type(type, m, e) ==
  LET c == GETCHAR(m.s, e)
      d == e + GETCHARLEN(m.s, e)
  IN IF Ended(m, e) \/ (type = "ANY" /\ AtNewline(m, e)) THEN NoMatch
     ELSE CASE type \in {"ANY", "ALLANY", "ANYBYTE"} -> d
            [] type = "ANYNL"      -> AnyNlEnd(m, c, d)
            [] type = "NOT_HSPACE" -> If(c \notin HSpaces, d)
            [] type = "HSPACE"     -> If(c \in HSpaces, d)
            [] type = "NOT_VSPACE" -> If(c \notin VSpaces, d)
            [] type = "VSPACE"     -> If(c \in VSpaces, d)
            [] type = "NOT_DIGIT" -> If(~(c < 256 /\ c \in Ctype("digit")), d)
            [] type = "DIGIT"     -> If(c < 256 /\ c \in Ctype("digit"), d)
            [] type = "NOT_WHITESPACE" -> If(~(c < 256 /\ c \in Ctype("space")), d)
            [] type = "WHITESPACE"     -> If(c < 256 /\ c \in Ctype("space"), d)
            [] type = "NOT_WORDCHAR"   -> If(~(c < 256 /\ c \in Ctype("word")), d)
            [] type = "WORDCHAR"       -> If(c < 256 /\ c \in Ctype("word"), d)

LazyByteType(type, m, e) ==
  LET c == At(m.s, e)
      d == e + 1
  IN IF Ended(m, e) \/ (type = "ANY" /\ AtNewline(m, e)) THEN NoMatch
     ELSE CASE type \in {"ANY", "ALLANY", "ANYBYTE"} -> d
            [] type = "ANYNL"      -> AnyNlEnd(m, c, d)
            [] type = "NOT_HSPACE" -> If(c \notin HSpaces, d)
            [] type = "HSPACE"     -> If(c \in HSpaces, d)
            [] type = "NOT_VSPACE" -> If(c \notin VSpaces, d)
            [] type = "VSPACE"     -> If(c \in VSpaces, d)
            [] type = "NOT_DIGIT"  -> If(c \notin Ctype("digit"), d)
            [] type = "DIGIT"      -> If(c \in Ctype("digit"), d)
            [] type = "NOT_WHITESPACE" -> If(c \notin Ctype("space"), d)
            [] type = "WHITESPACE"     -> If(c \in Ctype("space"), d)
            [] type = "NOT_WORDCHAR"   -> If(c \notin Ctype("word"), d)
            [] type = "WORDCHAR"       -> If(c \in Ctype("word"), d)

-----------------------------------------------------------------------------
(* One more item of a greedy repeat.  An opposite type shares the loop of    *)
(* its type for the white space in UTF-8.                                   *)
GreedyUtf8Space(type, m, e) ==
  LET c == GETCHAR(m.s, e)
      d == e + GETCHARLEN(m.s, e)
      gothspace == c \in HSpaces
      gotvspace == c \in VSpaces
  IN CASE type = "ANYNL" ->
            IF c = CR THEN IF ~Ended(m, e + 1) /\ At(m.s, e + 1) = LF
                           THEN e + 2 ELSE e + 1
            ELSE If(~(/\ c # LF
                      /\ m.bsr_anycrlf \/ c \notin {11, 12, 133, 8232, 8233}), d)
       [] type \in {"HSPACE", "NOT_HSPACE"} ->
            If(gothspace # (type = "NOT_HSPACE"), d)
       [] type \in {"VSPACE", "NOT_VSPACE"} ->
            If(gotvspace # (type = "NOT_VSPACE"), d)

GreedyUtf8Type(type, m, e) ==
  LET c == GETCHAR(m.s, e)
      d == e + GETCHARLEN(m.s, e)
  IN IF Ended(m, e) THEN NoMatch
     ELSE CASE type = "ANY" -> If(~AtNewline(m, e), SkipTrails(m, e + 1))
            [] type = "ALLANY"    -> SkipTrails(m, e + 1)
            [] type = "ANYBYTE"   -> e + 1
            [] type = "NOT_DIGIT" -> If(~(c < 256 /\ c \in Ctype("digit")), d)
            [] type = "DIGIT"     -> If(~(c >= 256 \/ c \notin Ctype("digit")), d)
            [] type = "NOT_WHITESPACE" -> If(~(c < 256 /\ c \in Ctype("space")), d)
            [] type = "WHITESPACE" -> If(~(c >= 256 \/ c \notin Ctype("space")), d)
            [] type = "NOT_WORDCHAR" -> If(~(c < 256 /\ c \in Ctype("word")), d)
            [] type = "WORDCHAR"  -> If(~(c >= 256 \/ c \notin Ctype("word")), d)
            [] OTHER -> GreedyUtf8Space(type, m, e)

GreedyByteType(type, m, e) ==
  LET c == At(m.s, e)
      d == e + 1
  IN IF Ended(m, e) THEN NoMatch
     ELSE CASE type = "ANY" -> If(~AtNewline(m, e), d)
            [] type \in {"ALLANY", "ANYBYTE"} -> d
            [] type = "ANYNL" ->
                 IF c = CR THEN IF ~Ended(m, d) /\ At(m.s, d) = LF THEN d + 1 ELSE d
                 ELSE If(~(/\ c # LF
                           /\ m.bsr_anycrlf \/ c \notin {11, 12, 133}), d)
            [] type = "NOT_HSPACE" -> If(~(c \in {9, 32, 160}), d)
            [] type = "HSPACE"     -> If(c \in {9, 32, 160}, d)
            [] type = "NOT_VSPACE" -> If(~(c \in {10, 11, 12, 13, 133}), d)
            [] type = "VSPACE"     -> If(c \in {10, 11, 12, 13, 133}, d)
            [] type = "NOT_DIGIT"  -> If(c \notin Ctype("digit"), d)
            [] type = "DIGIT"      -> If(c \in Ctype("digit"), d)
            [] type = "NOT_WHITESPACE" -> If(c \notin Ctype("space"), d)
            [] type = "WHITESPACE"     -> If(c \in Ctype("space"), d)
            [] type = "NOT_WORDCHAR"   -> If(c \notin Ctype("word"), d)
            [] type = "WORDCHAR"       -> If(c \in Ctype("word"), d)
=============================================================================
