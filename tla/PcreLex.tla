------------------------------- MODULE PcreLex -------------------------------
(***************************************************************************)
(* How the compiler reads a pattern: escape sequences, counts, POSIX class  *)
(* names, and the look ahead for a group (find_parens) or for what follows  *)
(* a repeat (check_auto_possessive).  s is the pattern, a sequence of       *)
(* bytes; p, q are offsets in it.  Numbers are below 2^31: those that wrap   *)
(* an int are left out.                                                     *)
(***************************************************************************)
EXTENDS PcreCode, FiniteSetsExt

\* The characters of the patterns, by their ASCII code; for the grave accent,
\* which no string of this language may hold, there is a tab.
Ascii == " !\"#$%&'()*+,-./0123456789:;<=>?@ABCDEFGHIJKLMNOPQRSTUVWXYZ[\\]^_\tabcdefghijklmnopqrstuvwxyz{|}~"
Ord == [ch \in {SubSeq(Ascii, i, i) : i \in 1..95} |->
          31 + CHOOSE i \in 1..95 : SubSeq(Ascii, i, i) = ch]
Bytes(string) == [i \in 1..Len(string) |-> Ord[SubSeq(string, i, i)]]
Chars(string) == {Ord[SubSeq(string, i, i)] : i \in 1..Len(string)}
Name(c) == SubSeq(Ascii, c - 31, c - 31)

Text(s, p, q) == SubSeq(s, p + 1, q)                       \* from p up to q
StartsWith(s, p, string) ==
  \A k \in 1..Len(string) : At(s, p + k - 1) = Ord[SubSeq(string, k, k)]

\* Past the bytes of a set; past the next newline, or to the end.
Span(s, p, set) == Min({q \in p..(Len(s) + p) : At(s, q) \notin set})
PastNewline(s, p, nl, utf8) ==
  LET past(q) == IF q < Len(s) THEN q + NewlineLen(s, q, nl, utf8) ELSE q
  IN past(Min({q \in p..(Len(s) - 1) : IS_NEWLINE(s, q, nl, utf8)} \cup {Len(s)}))

Value(c) == IF c \in Digits THEN c - 48 ELSE Lcc(c) - 87   \* of a hexadecimal digit
Number(s, p, q, base) ==
  LET n[k \in p..q] == IF k = p THEN 0 ELSE n[k - 1] * base + Value(At(s, k - 1))
  IN n[q]
DigitsEnd(s, p) == Span(s, p, Digits)
Decimal(s, p) == Number(s, p, DigitsEnd(s, p), 10)

-----------------------------------------------------------------------------
(* check_escape: the escape that starts at p.  kind is "char", "ref", or the *)
(* letter of an ESC_ code; ptr is its last byte; err is 0 or the number of  *)
(* the error.                                                               *)
Escape(kind, n, ptr) == [kind |-> kind, n |-> n, ptr |-> ptr, err |-> 0]
BadEscape(err, ptr) == [kind |-> "char", n |-> 0, ptr |-> ptr, err |-> err]

\* The table escapes: letters with a meaning of their own, and plain values.
EscapeLetters == Chars("ABCDEGHKPQRSVWXZbdhkpsvwz")
EscapeValue == [c \in {Ord["a"], Ord["e"], Ord["f"], Ord["n"], Ord["r"], Ord["t"]} |->
                  CASE c = Ord["a"] -> 7  [] c = Ord["e"] -> 27 [] c = Ord["f"] -> 12
                    [] c = Ord["n"] -> 10 [] c = Ord["r"] -> 13 [] c = Ord["t"] -> 9]

\* \g{n}, \gn, with - for a group counted backwards.  n is the number, last its
\* last byte.
NumberedGroup(n, negated, last, bracount) ==
  IF n = 0 THEN BadEscape(58, last)
  ELSE IF negated /\ n > bracount THEN BadEscape(15, last)
  ELSE Escape("ref", IF negated THEN bracount - (n - 1) ELSE n, last)

BracedGroup(s, from, to, braced, negated, bracount) ==
  IF braced /\ At(s, to) # Ord["}"] THEN BadEscape(57, to)
  ELSE NumberedGroup(Number(s, from, to, 10), negated, IF braced THEN to ELSE to - 1,
                     bracount)

SignedGroup(s, start, braced, bracount) ==
  LET negated == At(s, start) = Ord["-"]
      from == IF negated THEN start + 1 ELSE start
  IN BracedGroup(s, from, DigitsEnd(s, from), braced, negated, bracount)

GroupEscape(s, p, bracount) ==
  LET braced == At(s, p + 2) = Ord["{"]
      inside == Span(s, p + 3, Digits \cup {Ord["-"]})
  IN CASE At(s, p + 2) \in Chars("<'") -> Escape("g", 0, p + 1)
       [] braced /\ At(s, inside) \notin {0, Ord["}"]} -> Escape("k", 0, p + 1)
       [] OTHER -> SignedGroup(s, IF braced THEN p + 3 ELSE p + 2, braced, bracount)

\* A digit: a reference if there may be such a group, else an octal number.
DigitEscape(s, p, bracount, utf8, isclass) ==
  LET c == At(s, p + 1)
      n == Decimal(s, p + 1)
      octal == Min({p + 4, Span(s, p + 1, 48..55)})
      value == Number(s, p + 1, octal, 8)
  IN IF c # 48 /\ ~isclass /\ (n < 10 \/ n <= bracount)
     THEN Escape("ref", n, DigitsEnd(s, p + 1) - 1)
     ELSE IF c >= 56 THEN Escape("char", 0, p)
     ELSE IF ~utf8 /\ value > 255 THEN BadEscape(51, octal - 1)
     ELSE Escape("char", value, octal - 1)

HexEscape(s, p, utf8) ==
  LET brace == Span(s, p + 3, Cbit("xdigit"))
      zeros == Min({Span(s, p + 3, {48}), brace})
      two   == Min({p + 4, Span(s, p + 2, Cbit("xdigit"))})
  IN IF At(s, p + 2) = Ord["{"] /\ At(s, brace) = Ord["}"]
     THEN IF brace - zeros > (IF utf8 THEN 8 ELSE 2) THEN BadEscape(34, brace)
          ELSE Escape("char", Number(s, p + 3, brace, 16), brace)
     ELSE Escape("char", Number(s, p + 2, two, 16), two - 1)

ControlEscape(s, p) ==
  LET c == IF At(s, p + 2) \in Cbit("lower") THEN Fcc(At(s, p + 2)) ELSE At(s, p + 2)
  IN IF At(s, p + 2) = 0 THEN BadEscape(2, p + 2)
     ELSE Escape("char", IF (c \div 64) % 2 = 1 THEN c - 64 ELSE c + 64, p + 2)

\* c is the character after the backslash, and last its last byte.
EscapeOf(c, last, s, p, bracount, options, isclass) ==
  CASE c = 0 -> BadEscape(1, p + 1)
    [] c \in EscapeLetters -> Escape(Name(c), 0, p + 1)
    [] c \in DOMAIN EscapeValue -> Escape("char", EscapeValue[c], p + 1)
    [] c \in Chars("lLNuU") -> BadEscape(37, p + 1)
    [] c = Ord["g"] -> GroupEscape(s, p, bracount)
    [] c \in Digits -> DigitEscape(s, p, bracount, "UTF8" \in options, isclass)
    [] c = Ord["x"] -> HexEscape(s, p, "UTF8" \in options)
    [] c = Ord["c"] -> ControlEscape(s, p)
    [] c \in Chars("FIJMOTYijmoqy") ->
         IF "EXTRA" \in options THEN BadEscape(3, p + 1) ELSE Escape("char", c, p + 1)
    [] OTHER -> Escape("char", c, last)

CharLen(s, p, utf8) == IF utf8 THEN GETCHARLEN(s, p) ELSE 1

check_escape(s, p, bracount, options, isclass) ==
  EscapeOf(CharOf(s, p + 1, "UTF8" \in options), p + CharLen(s, p + 1, "UTF8" \in options),
           s, p, bracount, options, isclass)

-----------------------------------------------------------------------------
(* Counts.  p is the offset past the {.                                     *)
is_counted_repeat(s, p) ==
  LET q == DigitsEnd(s, p)
      r == DigitsEnd(s, q + 1)
  IN /\ q > p
     /\ \/ At(s, q) = Ord["}"]
        \/ At(s, q) = Ord[","] /\ At(s, r) = Ord["}"]

\* max is -1 for no limit; ptr is the closing brace.
read_repeat_counts(s, p) ==
  LET q    == DigitsEnd(s, p)
      r    == DigitsEnd(s, q + 1)
      min  == Decimal(s, p)
      max  == IF At(s, q) = Ord["}"] THEN min
              ELSE IF At(s, q + 1) = Ord["}"] THEN -1 ELSE Decimal(s, q + 1)
      end  == IF At(s, q) = Ord["}"] THEN q ELSE r
  IN CASE min > 65535 -> [min |-> 0, max |-> 0, ptr |-> q, err |-> 5]
       [] min <= 65535 /\ max > 65535 -> [min |-> 0, max |-> 0, ptr |-> r, err |-> 5]
       [] min <= 65535 /\ max >= 0 /\ max < min ->
            [min |-> 0, max |-> 0, ptr |-> r, err |-> 4]
       [] OTHER -> [min |-> min, max |-> max, ptr |-> end, err |-> 0]

-----------------------------------------------------------------------------
(* POSIX classes: p is the [; the result is the offset of the closing :]    *)
(* (or .] or =]), or -1.                                                    *)
check_posix_syntax(s, p) ==
  LET terminator == At(s, p + 1)
      e[q \in (p + 2)..(Len(s) + p + 3)] ==
        IF At(s, q) = 0 THEN -1
        ELSE IF At(s, q) = Ord["\\"] /\ At(s, q + 1) = Ord["]"] THEN e[q + 2]
        ELSE IF At(s, q) = Ord["]"] THEN -1
        ELSE IF At(s, q) = terminator /\ At(s, q + 1) = Ord["]"] THEN q
        ELSE e[q + 1]
  IN e[p + 2]

\* The bytes of the classes, as posix_class_maps makes them of the tables.
PosixClass ==
  [alpha  |-> (Cbit("word") \ Cbit("digit")) \ {95},
   lower  |-> Cbit("lower"),
   upper  |-> Cbit("upper"),
   alnum  |-> Cbit("word") \ {95},
   ascii  |-> Cbit("print") \cup Cbit("cntrl"),
   blank  |-> Cbit("space") \ (10..13),
   cntrl  |-> Cbit("cntrl"),
   digit  |-> Cbit("digit"),
   graph  |-> Cbit("graph"),
   print  |-> Cbit("print"),
   punct  |-> Cbit("punct"),
   space  |-> Cbit("space"),
   word   |-> Cbit("word"),
   xdigit |-> Cbit("xdigit")]
\* The name that is the text from p up to q; "none" is no name.
check_posix_name(s, p, q) ==
  IF \E n \in DOMAIN PosixClass : Bytes(n) = Text(s, p, q)
  THEN CHOOSE n \in DOMAIN PosixClass : Bytes(n) = Text(s, p, q)
  ELSE "none"

-----------------------------------------------------------------------------
(* find_parens.  The capturing groups that open at or after p, each the      *)
(* bytes of its name, <<>> for none; the scan stops where the pattern ends   *)
(* inside a class, a quotation or a comment.                                *)
Stop == -1
Quotation(s, p) ==                                \* p is past \Q; to the E of \E
  LET e[q \in p..(Len(s) + p + 2)] ==
        IF At(s, q) = 0 THEN Stop
        ELSE IF At(s, q) = Ord["\\"]
        THEN IF At(s, q + 1) = Ord["E"] THEN q + 1 ELSE e[q + 2]
        ELSE e[q + 1]
  IN e[p]

\* Past the ^ and the empty quotations at the head of a class.
ClassHead(s, p) ==
  LET h[q \in p..(Len(s) + p + 4), negated \in BOOLEAN] ==
        IF StartsWith(s, q, "\\E") THEN h[q + 2, negated]
        ELSE IF StartsWith(s, q, "\\Q\\E") THEN h[q + 4, negated]
        ELSE IF ~negated /\ At(s, q) = Ord["^"] THEN h[q + 1, TRUE]
        ELSE [ptr |-> q, negated |-> negated]
  IN h[p, FALSE]

\* p is the first character of a class; the result is its ], or Stop.
ClassEnd(s, p, javascript) ==
  LET e[q \in p..(Len(s) + p + 4)] ==
        IF At(s, q) = Ord["]"] THEN q
        ELSE IF At(s, q) = 0 THEN Stop
        ELSE IF At(s, q) = Ord["\\"]
        THEN IF At(s, q + 1) = 0 THEN Stop
             ELSE IF At(s, q + 1) = Ord["Q"]
             THEN IF Quotation(s, q + 2) = Stop THEN Stop
                  ELSE e[Quotation(s, q + 2) + 1]
             ELSE e[q + 2]
        ELSE e[q + 1]
  IN IF At(s, p + 1) = Ord["]"] /\ ~javascript THEN e[p + 2] ELSE e[p + 1]

Parens(s, p, xmode, javascript) ==
  LET skip(q) == IF q = Stop THEN Len(s) ELSE q + 1
      f[q \in p..(2 * Len(s) + 4)] ==
        IF q >= Len(s) THEN <<>>
        ELSE CASE At(s, q) = Ord["\\"] ->
                    f[skip(IF At(s, q + 1) = Ord["Q"] THEN Quotation(s, q + 2)
                           ELSE q + 1)]
               [] At(s, q) = Ord["["] ->
                    f[skip(ClassEnd(s, ClassHead(s, q + 1).ptr, javascript))]
               [] xmode /\ At(s, q) = Ord["#"] ->
                    f[skip(Span(s, q, Byte \ {0, LF}))]
               [] At(s, q) = Ord["("] /\ At(s, q + 1) \notin Chars("?*") ->
                    <<(<<>>)>> \o f[q + 1]
               [] At(s, q) = Ord["("] /\ At(s, q + 1) \in Chars("?*") ->
                    LET r == IF At(s, q + 2) = Ord["P"] THEN q + 3 ELSE q + 2
                        term == IF At(s, r) = Ord["<"] THEN Ord[">"] ELSE Ord["'"]
                        end  == Span(s, r + 1, Byte \ {0, term})
                    IN IF \/ At(s, r) = Ord["'"]
                          \/ At(s, r) = Ord["<"] /\ At(s, r + 1) \notin Chars("!=")
                       THEN <<Text(s, r + 1, end)>> \o f[end + 1] ELSE f[r + 1]
               [] OTHER -> f[q + 1]
  IN f[p]

\* The number of the group, or -1; by its number or by its name.
find_parens(s, p, bracount, wanted(_, _), xmode, javascript) ==
  LET first(found) == IF found = {} THEN -1 ELSE bracount + Min(found)
      among(groups) == first({i \in DOMAIN groups : wanted(bracount + i, groups[i])})
  IN among(Parens(s, p, xmode, javascript))

-----------------------------------------------------------------------------
(* check_auto_possessive: the item cannot match what follows it at p, so an *)
(* unlimited repeat of it need not give anything back.                      *)
SkipExtended(s, p, nl, utf8) ==
  LET e[q \in p..(Len(s) + p)] ==
        LET from(r) == IF At(s, r) = Ord["#"] THEN e[PastNewline(s, r + 1, nl, utf8)]
                       ELSE r
        IN from(Span(s, q, Ctype("space")))
  IN e[p]

\* A character c of which the item takes none, for a character next.
DisjointFromChar(op, item, next, caseless, utf8) ==
  LET othercase == IF utf8 /\ next >= 128 THEN -1 ELSE Fcc(next)
      in(set) == next <= 127 /\ next \in set
  IN CASE op = "CHAR"   -> item # next
       [] op = "CHARNC" -> item # next /\ item # othercase
       [] op = "NOT"    -> item = next \/ (caseless /\ item = othercase)
       [] op = "DIGIT"  -> ~in(Ctype("digit"))
       [] op = "NOT_DIGIT" -> in(Ctype("digit"))
       [] op = "WHITESPACE" -> ~in(Ctype("space"))
       [] op = "NOT_WHITESPACE" -> in(Ctype("space"))
       [] op = "WORDCHAR" -> ~in(Ctype("word"))
       [] op = "NOT_WORDCHAR" -> in(Ctype("word"))
       [] op = "HSPACE" -> next \notin HSpaces
       [] op = "NOT_HSPACE" -> next \in HSpaces
       [] op = "VSPACE" -> next \notin VSpaces
       [] op = "NOT_VSPACE" -> next \in VSpaces
       [] OTHER -> FALSE

\* The same for a type as the next item, by the letter of its escape.
DisjointFromType(op, item, letter) ==
  LET in(set) == item <= 127 /\ item \in set
  IN CASE op \in {"CHAR", "CHARNC"} ->
            CASE letter = "d" -> ~in(Ctype("digit")) [] letter = "D" -> in(Ctype("digit"))
              [] letter = "s" -> ~in(Ctype("space")) [] letter = "S" -> in(Ctype("space"))
              [] letter = "w" -> ~in(Ctype("word"))  [] letter = "W" -> in(Ctype("word"))
              [] letter = "h" -> item \notin HSpaces [] letter = "H" -> item \in HSpaces
              [] letter = "v" -> item \notin VSpaces [] letter = "V" -> item \in VSpaces
              [] OTHER -> FALSE
       [] op = "DIGIT"          -> letter \in {"D", "s", "W", "h", "v"}
       [] op = "NOT_DIGIT"      -> letter = "d"
       [] op = "WHITESPACE"     -> letter \in {"S", "d", "w"}
       [] op = "NOT_WHITESPACE" -> letter \in {"s", "h", "v"}
       [] op = "HSPACE"         -> letter \in {"S", "H", "d", "w"}
       [] op = "NOT_HSPACE"     -> letter = "h"
       [] op = "VSPACE"         -> letter \in {"V", "d", "w"}
       [] op = "NOT_VSPACE"     -> letter = "v"
       [] op = "WORDCHAR"       -> letter \in {"W", "s", "h", "v"}
       [] op = "NOT_WORDCHAR"   -> letter \in {"w", "d"}
       [] OTHER -> FALSE

Metacharacters == Chars("*+?{^.$|()[\\") \cup {0}       \* ctype_meta

\* The next item is an escape, or the character at p; a quantifier after it
\* that allows zero of it leaves nothing to tell.
Ignorable(s, q, nl, options) ==
  IF "EXTENDED" \in options THEN SkipExtended(s, q, nl, "UTF8" \in options) ELSE q
AtLeastOne(s, end) == At(s, end) \notin Chars("*?") /\ ~StartsWith(s, end, "{0,")

DisjointFromEscape(op, item, esc, s, nl, options) ==
  /\ esc.err = 0
  /\ AtLeastOne(s, Ignorable(s, esc.ptr + 1, nl, options))
  /\ IF esc.kind # "char" THEN DisjointFromType(op, item, esc.kind)
     ELSE DisjointFromChar(op, item, esc.n, "CASELESS" \in options, "UTF8" \in options)

DisjointFromNext(op, item, s, p, nl, options, bracount) ==
  IF At(s, p) = Ord["\\"]
  THEN DisjointFromEscape(op, item, check_escape(s, p, bracount, options, FALSE), s, nl,
                          options)
  ELSE /\ At(s, p) \notin Metacharacters
       /\ AtLeastOne(s, Ignorable(s, p + CharLen(s, p, "UTF8" \in options), nl, options))
       /\ DisjointFromChar(op, item, CharOf(s, p, "UTF8" \in options),
                           "CASELESS" \in options, "UTF8" \in options)

check_auto_possessive(op, item, s, ptr, nl, options, bracount) ==
  DisjointFromNext(op, item, s, Ignorable(s, ptr, nl, options), nl, options, bracount)
=============================================================================
