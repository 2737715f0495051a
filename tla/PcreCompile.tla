----------------------------- MODULE PcreCompile -----------------------------
(***************************************************************************)
(* pcre_compile2(), compile_regex() and compile_branch(): a pattern is read *)
(* twice, by the same code.  The first pass finds how many groups there are *)
(* and measures the code, the second writes it.  Here both write the code,  *)
(* and the tests the code makes in one pass only name that pass.  A step    *)
(* reads one item of the pattern; compile_regex, which compile_branch calls *)
(* for every group, has its locals in group and those of its callers in     *)
(* outer.  What is only about sizes (workspace, lengths, the offset of an   *)
(* error) is left out.                                                      *)
(***************************************************************************)
EXTENDS PcreLex, PcreScan

VARIABLES
  source,     \* the arguments: pattern, options, newline and bsr conventions
  at,         \* "called", "branch", "class", "group" (its end) or "ended"
  pass,       \* 1 or 2
  ptr,        \* the offset of the next item of the pattern
  code,       \* the instructions written so far
  cd,         \* compile_data: what the whole pattern shares
  branch,     \* the locals of compile_branch
  class,      \* the class being read
  group,      \* the locals of compile_regex, and of its caller for the group
  outer,      \* the branches and groups around, the outermost first
  errorcode,  \* 0, or the number of the error
  re          \* the compiled pattern

compileVars == <<source, at, pass, ptr, code, cd, branch, class, group, outer,
                 errorcode, re>>
fixedVars == <<source, pass, re>>

-----------------------------------------------------------------------------
(* firstbyte and reqbyte: a byte with two flags, or one of two others.      *)
REQ_UNSET == [c |-> -2, caseless |-> FALSE, vary |-> FALSE]
REQ_NONE  == [c |-> -1, caseless |-> FALSE, vary |-> FALSE]

Pattern  == source.pattern
Options  == branch.options
IsUtf8   == "UTF8" \in Options
Here     == At(Pattern, ptr)
IMS      == {"CASELESS", "MULTILINE", "DOTALL"}
NlOf(name) == Newline[name]

\* What reads an item that no match has to begin with; what notes, before an
\* item, the bytes that hold should it be repeated zero times.
NoFirst(b) == [b EXCEPT !.firstbyte = IF @ = REQ_UNSET THEN REQ_NONE ELSE @]
ZeroFirst(b) == [b EXCEPT !.zerofirstbyte = b.firstbyte]
ZeroReq(b)   == [b EXCEPT !.zeroreqbyte = b.reqbyte]

Quantifies == \/ Here \in Chars("*+?")
              \/ Here = Ord["{"] /\ is_counted_repeat(Pattern, ptr + 1)
Ignored == /\ "EXTENDED" \in Options
           /\ Here \in Ctype("space") \cup {Ord["#"]}

\* Automatic callouts come before every item that is not a quantifier.
Emitted == IF "AUTO_CALLOUT" \in Options
           THEN Append(code, [op |-> "CALLOUT", n |-> 255]) ELSE code
NewItem == Len(Emitted) + 1

FailWith(error) ==
  /\ errorcode' = error /\ at' = "ended"
  /\ UNCHANGED <<source, pass, ptr, code, cd, branch, class, group, outer, re>>

\* The loop goes on at p with the code and the locals it now has.
Goes(p, instructions, b, shared) ==
  /\ ptr' = p /\ code' = instructions /\ branch' = b /\ cd' = shared
  /\ UNCHANGED <<at, class, group, outer, errorcode, fixedVars>>
Emits(ins, b, p) == Goes(p, Append(Emitted, ins), b, cd)

InBranch == at = "branch" /\ ~branch.inescq
Item(set) == InBranch /\ ~Ignored /\ Here # 0 /\ Here \in set

-----------------------------------------------------------------------------
(* Quoted text and what PCRE_EXTENDED ignores.                              *)
EndQuote ==
  /\ at = "branch" /\ branch.inescq
  /\ StartsWith(Pattern, ptr, "\\E")
  /\ Goes(ptr + 2, code, [branch EXCEPT !.inescq = FALSE], cd)

SkipIgnored ==
  /\ InBranch /\ Ignored
  /\ Goes(IF Here = Ord["#"]
          THEN PastNewline(Pattern, ptr + 1, NlOf(cd.newline), IsUtf8)
          ELSE ptr + 1, code, branch, cd)

\* ^ is the start of a match only where it cannot match at inner lines.
Circumflex ==
  /\ Item({Ord["^"]})
  /\ LET b == IF "MULTILINE" \in Options THEN NoFirst(branch) ELSE branch
     IN Emits([op |-> "CIRC"], [b EXCEPT !.previous = 0], ptr + 1)

Dollar == Item({Ord["$"]})
          /\ Emits([op |-> "DOLL"], [branch EXCEPT !.previous = 0], ptr + 1)

Dot ==
  /\ Item({Ord["."]})
  /\ Emits([op |-> IF "DOTALL" \in Options THEN "ALLANY" ELSE "ANY"],
           [ZeroReq(ZeroFirst(NoFirst(branch))) EXCEPT !.previous = NewItem],
           ptr + 1)

-----------------------------------------------------------------------------
(* An ordinary character, quoted or not; and a character class that turns    *)
(* out to be one (ONE_CHAR).  With case ignored, of a character of several   *)
(* bytes none is the first or the required byte.                            *)
OneByte(c, vary) == [c |-> c, caseless |-> branch.caseless, vary |-> vary]

OneChar(b, c) ==
  LET bytes == CharBytes(c, IsUtf8)
      sure  == Len(bytes) = 1 \/ ~b.caseless
      first == OneByte(bytes[1], FALSE)
      last  == OneByte(bytes[Len(bytes)], cd.req_varyopt)
  IN IF b.firstbyte = REQ_UNSET
     THEN [ZeroReq(b) EXCEPT
             !.zerofirstbyte = REQ_NONE,
             !.firstbyte = IF sure THEN first ELSE REQ_NONE,
             !.reqbyte = IF ~sure THEN REQ_NONE ELSE IF Len(bytes) > 1 THEN last ELSE @]
     ELSE [ZeroReq(ZeroFirst(b)) EXCEPT !.reqbyte = IF sure THEN last ELSE @]

WithNewlineFlag(flags, chars) ==
  IF chars \cap {CR, LF} = {} THEN flags ELSE flags \cup {"HASCRORLF"}

CharIns(c) == [op |-> IF "CASELESS" \in Options THEN "CHARNC" ELSE "CHAR", c |-> c]
WithChar(c) == [cd EXCEPT !.external_flags = WithNewlineFlag(@, {c})]

EmitsChar(c, b, p) ==
  Goes(p, Append(Emitted, CharIns(c)), [OneChar(b, c) EXCEPT !.previous = NewItem],
       WithChar(c))

Special == Chars("^$.[*+?(\\|)") \cup {0}
NormalChar ==
  /\ at = "branch"
  /\ \/ branch.inescq /\ Here # 0 /\ ~StartsWith(Pattern, ptr, "\\E")
     \/ InBranch /\ ~Ignored /\ Here \notin Special /\ ~Quantifies
  /\ IF Here = Ord["]"] /\ ~branch.inescq
        /\ "JAVASCRIPT_COMPAT" \in cd.external_options
     THEN FailWith(64)
     ELSE IF IsUtf8 /\ Here >= 192
     THEN EmitsChar(GETCHAR(Pattern, ptr), branch, ptr + GETCHARLEN(Pattern, ptr))
     ELSE EmitsChar(Here, branch, ptr + 1)

-----------------------------------------------------------------------------
(* Classes.  The items between the brackets are read into class: count is    *)
(* the code's guess of how many characters they are, and flip says that an  *)
(* item of them was a complement.                                           *)
NoClass == [negated |-> FALSE, flip |-> FALSE, first |-> TRUE, count |-> 0,
            lastchar |-> -1, bits |-> {}, list |-> <<>>, utf8 |-> FALSE]

ClassStart ==
  /\ Item({Ord["["]})
  /\ LET head == ClassHead(Pattern, ptr + 1)
         b == [branch EXCEPT !.previous = NewItem]
     IN IF At(Pattern, ptr + 1) \in Chars(":.=") /\ check_posix_syntax(Pattern, ptr) >= 0
        THEN FailWith(IF At(Pattern, ptr + 1) = Ord[":"] THEN 13 ELSE 31)
        ELSE IF /\ At(Pattern, head.ptr) = Ord["]"]
                /\ "JAVASCRIPT_COMPAT" \in cd.external_options
        THEN Emits([op |-> IF head.negated THEN "ALLANY" ELSE "FAIL"],
                   ZeroFirst(NoFirst(b)), head.ptr + 1)
        ELSE /\ at' = "class" /\ ptr' = head.ptr /\ branch' = b /\ code' = Emitted
             /\ class' = [NoClass EXCEPT !.negated = head.negated]
             /\ UNCHANGED <<cd, group, outer, errorcode, fixedVars>>

ClassEnds == Here = 0 \/ (Here = Ord["]"] /\ ~class.first /\ ~branch.inescq)
InClass == at = "class" /\ ~ClassEnds
ClassGoes(p, set, inescq) ==
  /\ ptr' = p /\ class' = [set EXCEPT !.first = FALSE]
  /\ branch' = [branch EXCEPT !.inescq = inescq]
  /\ UNCHANGED <<at, code, cd, group, outer, errorcode, fixedVars>>

PosixAt == /\ Here = Ord["["] /\ At(Pattern, ptr + 1) \in Chars(":.=")
           /\ check_posix_syntax(Pattern, ptr) >= 0

EndClassQuote ==
  /\ InClass /\ branch.inescq /\ StartsWith(Pattern, ptr, "\\E")
  /\ ClassGoes(ptr + 2, class, FALSE)

\* A complement sets flip; the count of 10 only says that it is not one
\* character.
ClassPosix ==
  /\ InClass /\ ~branch.inescq /\ PosixAt
  /\ LET end     == check_posix_syntax(Pattern, ptr)
         negated == At(Pattern, ptr + 2) = Ord["^"]
         name    == check_posix_name(Pattern, IF negated THEN ptr + 3 ELSE ptr + 2, end)
         cased   == IF "CASELESS" \in Options /\ name \in {"lower", "upper"}
                    THEN "alpha" ELSE name
         bits    == PosixClass[cased]
     IN IF At(Pattern, ptr + 1) # Ord[":"] THEN FailWith(31)
        ELSE IF name = "none" THEN FailWith(30)
        ELSE ClassGoes(end + 2,
               [class EXCEPT !.bits = @ \cup (IF negated THEN Byte \ bits ELSE bits),
                             !.flip = @ \/ negated, !.count = 10], FALSE)

-----------------------------------------------------------------------------
(* The escapes for sets of characters, within a class.                      *)
MaxChar == 2147483647
ClassSpaces(bits, letter) ==         \* \s is without VT, \S with it
  IF letter = "s" THEN (bits \cup Cbit("space")) \ {11}
  ELSE bits \cup (Byte \ Cbit("space")) \cup {11}

HList == <<<<5760, 5760>>, <<6158, 6158>>, <<8192, 8202>>, <<8239, 8239>>,
           <<8287, 8287>>, <<12288, 12288>>>>
NotHList == <<<<256, 5759>>, <<5761, 6157>>, <<6159, 8191>>, <<8203, 8238>>,
              <<8240, 8286>>, <<8288, 12287>>, <<12289, MaxChar>>>>
VList == <<<<8232, 8233>>>>
NotVList == <<<<256, 8231>>, <<8233, MaxChar>>>>
ClassLists == [h |-> HList, H |-> NotHList, v |-> VList, V |-> NotVList]

ClassType(letter) ==
  LET with(bits) == [class EXCEPT !.bits = @ \cup bits, !.count = @ + 2]
      flipped(bits) == [with(Byte \ bits) EXCEPT !.flip = TRUE]
      listed(bits) == IF IsUtf8 THEN [with(bits) EXCEPT !.utf8 = TRUE,
                                        !.list = @ \o ClassLists[letter]]
                      ELSE with(bits)
  IN CASE letter = "d" -> with(Cbit("digit"))
       [] letter = "D" -> flipped(Cbit("digit"))
       [] letter = "w" -> with(Cbit("word"))
       [] letter = "W" -> flipped(Cbit("word"))
       [] letter = "s" -> [with({}) EXCEPT !.bits = ClassSpaces(class.bits, "s")]
       [] letter = "S" -> [flipped(Byte) EXCEPT !.bits = ClassSpaces(class.bits, "S")]
       [] letter = "h" -> listed(HSpaces \cap Byte)
       [] letter = "H" -> listed(Byte \ HSpaces)
       [] letter = "v" -> listed(VSpaces \cap Byte)
       [] letter = "V" -> listed(Byte \ VSpaces)

InClassEscape == InClass /\ ~branch.inescq /\ Here = Ord["\\"]
EscapeInClass(p) == check_escape(Pattern, p, cd.bracount, Options, TRUE)
ClassTypeLetters == {"d", "D", "w", "W", "s", "S", "h", "H", "v", "V"}

ReadClassEscape(esc) ==
  CASE esc.err # 0 -> FailWith(esc.err)
    [] esc.err = 0 /\ esc.kind = "Q" ->
         IF StartsWith(Pattern, esc.ptr + 1, "\\E")
         THEN ClassGoes(esc.ptr + 3, class, FALSE)
         ELSE ClassGoes(esc.ptr + 1, class, TRUE)
    [] esc.err = 0 /\ esc.kind = "E" -> ClassGoes(esc.ptr + 1, class, FALSE)
    [] esc.err = 0 /\ esc.kind \in ClassTypeLetters ->
         ClassGoes(esc.ptr + 1, ClassType(esc.kind), FALSE)
    [] OTHER ->
         /\ esc.kind \notin {"char", "b", "X", "R"}
         /\ "EXTRA" \in Options
         /\ FailWith(7)

ClassEscape == InClassEscape /\ ReadClassEscape(EscapeInClass(ptr))

\* Single characters and ranges.  p is the last byte of the character c.
EscapedChar(esc) ==
  [ptr |-> esc.ptr,
   c |-> CASE esc.kind = "char" -> esc.n   [] esc.kind = "b" -> 8
           [] esc.kind \in {"X", "R"} -> Ord[esc.kind]
           [] OTHER -> At(Pattern, esc.ptr)]
CharAtPtr(p) == [c |-> CharOf(Pattern, p, IsUtf8), ptr |-> p + CharLen(Pattern, p, IsUtf8) - 1]

ClassChar == IF Here = Ord["\\"] /\ ~branch.inescq THEN EscapedChar(EscapeInClass(ptr))
             ELSE CharAtPtr(ptr)

PastEmptyQuotes(p, quote) ==
  LET e[q \in p..(Len(Pattern) + p)] ==
        IF StartsWith(Pattern, q, quote) THEN e[q + Len(quote)] ELSE q
  IN e[p]

\* What follows c: the end of a range, or nothing (d = c).  Between the two
\* there may be the ends of quotations and the start of one.
Lone(c, q, inescq) == [d |-> c, ptr |-> q, inescq |-> inescq, err |-> 0]
RangeTo(c, item, quoted) ==
  [d |-> item.c, ptr |-> item.ptr + 1, inescq |-> quoted, err |-> IF item.c < c THEN 8 ELSE 0]

EscapedEnd(c, q, esc) ==
  CASE esc.err # 0 -> [Lone(c, q, FALSE) EXCEPT !.err = esc.err]
    [] esc.err = 0 /\ esc.kind \in {"char", "b", "X", "R"} ->
         RangeTo(c, EscapedChar(esc), FALSE)
    [] OTHER -> Lone(c, q, FALSE)

EndAt(c, q, r, quoted) ==
  IF At(Pattern, r) = 0 \/ (~quoted /\ At(Pattern, r) = Ord["]"]) THEN Lone(c, q, FALSE)
  ELSE IF ~quoted /\ At(Pattern, r) = Ord["\\"] THEN EscapedEnd(c, q, EscapeInClass(r))
  ELSE RangeTo(c, CharAtPtr(r), quoted)

EndPast(c, q, quote) ==
  LET quoted == StartsWith(Pattern, quote, "\\Q")
  IN EndAt(c, q, IF quoted THEN quote + 2 ELSE quote, quoted)

EndOfRange(c, q, inescq) ==
  IF inescq \/ At(Pattern, q) # Ord["-"] THEN Lone(c, q, inescq)
  ELSE EndPast(c, q, PastEmptyQuotes(PastEmptyQuotes(q + 1, "\\E"), "\\Q\\E"))

RangeEnd(c, p) ==
  LET q == PastEmptyQuotes(p + 1, "\\E")
  IN EndOfRange(c, q, q = p + 1 /\ branch.inescq)

\* The characters c..d: in UTF-8 those past the map are listed.  The other
\* case of a character is known only below 128 then.
InBits(set, c, d) ==
  LET caseless == "CASELESS" \in Options
      cases    == IF caseless THEN {Fcc(k) : k \in c..d} ELSE {}
  IN [set EXCEPT !.bits = @ \cup (c..d) \cup cases, !.count = @ + (d - c + 1),
                 !.lastchar = IF c = d /\ caseless THEN Fcc(d) ELSE d]

WithRange(c, d) ==
  LET caseless == "CASELESS" \in Options
      listed   == [class EXCEPT !.utf8 = TRUE, !.list = Append(@, <<c, d>>)]
  IN IF ~(IsUtf8 /\ (d > 255 \/ (caseless /\ d > 127))) THEN InBits(class, c, d)
     ELSE IF caseless /\ c < d /\ c <= 127 THEN InBits(listed, c, 127) ELSE listed

IsClassChar(esc) ==
  /\ esc.err = 0 /\ esc.kind \notin {"Q", "E"} \cup ClassTypeLetters
  /\ "EXTRA" \in Options => esc.kind \in {"char", "b", "X", "R"}

AddRange(c, end) ==
  IF end.err # 0 THEN FailWith(end.err)
  ELSE /\ ptr' = end.ptr
       /\ class' = [WithRange(c, end.d) EXCEPT !.first = FALSE]
       /\ branch' = [branch EXCEPT !.inescq = end.inescq]
       /\ cd' = [cd EXCEPT !.external_flags = WithNewlineFlag(@, {c, end.d})]
       /\ UNCHANGED <<at, code, group, outer, errorcode, fixedVars>>

AddItem(item) == AddRange(item.c, RangeEnd(item.c, item.ptr))

ClassItem ==
  /\ InClass
  /\ ~(branch.inescq /\ StartsWith(Pattern, ptr, "\\E"))
  /\ ~(~branch.inescq /\ PosixAt)
  /\ InClassEscape => IsClassChar(EscapeInClass(ptr))
  /\ AddItem(ClassChar)

\* The end of the class: one character is matched as one, and in UTF-8 a
\* class with listed characters is an extended one, unless an item of it was
\* a complement: then it takes every character past the map, or none.
ClassAsOneChar ==
  /\ class.count = 1 /\ ~class.utf8
  /\ ~IsUtf8 \/ ~class.negated \/ class.lastchar < 128

ClassIns ==
  IF class.utf8 /\ ~class.flip
  THEN [op |-> "XCLASS", negated |-> class.negated, list |-> class.list,
        map |-> IF class.count > 0 THEN class.bits ELSE {}]
  ELSE [op |-> IF class.negated = class.flip THEN "CLASS" ELSE "NCLASS",
        map |-> IF class.negated THEN Byte \ class.bits ELSE class.bits]

CloseClass ==
  /\ at = "class" /\ ClassEnds
  /\ IF Here = 0 THEN FailWith(6)
     ELSE /\ at' = "branch" /\ ptr' = ptr + 1
          /\ IF ClassAsOneChar
             THEN IF class.negated
                  THEN /\ code' = Append(code, [op |-> "NOT", c |-> class.lastchar])
                       /\ branch' = ZeroReq(ZeroFirst(NoFirst(branch)))
                       /\ cd' = cd
                  ELSE /\ code' = Append(code, CharIns(class.lastchar))
                       /\ branch' = OneChar(branch, class.lastchar)
                       /\ cd' = WithChar(class.lastchar)
             ELSE /\ code' = Append(code, ClassIns)
                  /\ branch' = ZeroReq(ZeroFirst(NoFirst(branch)))
                  /\ cd' = cd
          /\ class' = NoClass
          /\ UNCHANGED <<group, outer, errorcode, fixedVars>>

-----------------------------------------------------------------------------
(* Repeats.  The counts, and what follows them; q.max is -1 for no limit.    *)
Counts ==
  CASE Here = Ord["*"] -> [min |-> 0, max |-> -1, ptr |-> ptr, err |-> 0]
    [] Here = Ord["+"] -> [min |-> 1, max |-> -1, ptr |-> ptr, err |-> 0]
    [] Here = Ord["?"] -> [min |-> 0, max |-> 1, ptr |-> ptr, err |-> 0]
    [] OTHER -> read_repeat_counts(Pattern, ptr + 1)

WithSuffix(q) ==
  LET suffix == At(Pattern, q.ptr + 1)
      lazy   == branch.ungreedy
  IN [min |-> q.min, max |-> q.max,
      possessive |-> suffix = Ord["+"],
      lazy |-> IF suffix = Ord["+"] THEN FALSE
               ELSE IF suffix = Ord["?"] THEN ~lazy ELSE lazy,
      ptr |-> IF suffix \in Chars("+?") THEN q.ptr + 2 ELSE q.ptr + 1]

\* The loop goes on after a quantifier: nothing is left to be repeated.
EndRepeat(q, instructions, b, shared) ==
  Goes(q.ptr, instructions, [b EXCEPT !.previous = 0],
       [shared EXCEPT !.req_varyopt = @ \/ q.min # q.max])

\* The item may be there zero times, and what holds is what held before it.
BeforeRepeat(q) ==
  IF q.min = 0 THEN [branch EXCEPT !.firstbyte = branch.zerofirstbyte,
                                   !.reqbyte = branch.zeroreqbyte]
  ELSE branch

NoPartial(q) == [cd EXCEPT !.external_flags = IF q.max = 1 THEN @
                                              ELSE @ \cup {"NOPARTIAL"}]
Quantified == InBranch /\ ~Ignored /\ Quantifies
Previous == code[branch.previous]
Repeatable(ops) == /\ Quantified /\ Counts.err = 0 /\ branch.previous # 0
                   /\ Previous.op \in ops

NothingToRepeat ==
  /\ Quantified
  /\ \/ Counts.err # 0 /\ FailWith(Counts.err)
     \/ Counts.err = 0 /\ branch.previous = 0 /\ FailWith(9)

\* An atomic group around the code from p on.  The calls in it of groups are
\* left as they are.
WrapOnce(instructions, p) ==
  LET len == Len(instructions) - p + 2
  IN SubSeq(instructions, 1, p - 1) \o <<[op |-> "ONCE", link |-> len]>>
     \o SubSeq(instructions, p, Len(instructions)) \o <<[op |-> "KET", link |-> len]>>

-----------------------------------------------------------------------------
(* Single items.                                                            *)
LazyRep == [STAR |-> "MINSTAR", PLUS |-> "MINPLUS", QUERY |-> "MINQUERY",
            UPTO |-> "MINUPTO"]
PossessiveRep == [STAR |-> "POSSTAR", PLUS |-> "POSPLUS", QUERY |-> "POSQUERY",
                  UPTO |-> "POSUPTO"]

RepeatOf(item, rep, n) ==
  CASE item.op \in {"CHAR", "CHARNC"} ->
         [op |-> "CHARREP", rep |-> rep, n |-> n, c |-> item.c]
    [] item.op = "NOT" -> [op |-> "NOTREP", rep |-> rep, n |-> n, c |-> item.c]
    [] OTHER -> [op |-> "TYPEREP", rep |-> rep, n |-> n, type |-> item.op]

\* A possessive x{1,n} is not one repeat, but an atomic group of two items.
SingleRepeats(item, q) ==
  LET kind(rep) == IF q.possessive THEN PossessiveRep[rep]
                   ELSE IF q.lazy THEN LazyRep[rep] ELSE rep
      upto(n) == RepeatOf(item, kind(IF n = 1 THEN "QUERY" ELSE "UPTO"), n)
      after == IF q.lazy THEN "MINUPTO" ELSE "UPTO"
  IN CASE q.max = 0 -> <<>>
       [] q.min = 0 /\ q.max = -1 -> <<RepeatOf(item, kind("STAR"), 0)>>
       [] q.min = 0 /\ q.max > 0  -> <<upto(q.max)>>
       [] q.min = 1 /\ q.max = -1 -> <<RepeatOf(item, kind("PLUS"), 0)>>
       [] q.min = 1 /\ q.max = 1  -> <<item>>
       [] q.min = 1 /\ q.max > 1  -> <<item, RepeatOf(item, after, q.max - 1)>>
       [] q.min > 1 ->
            <<RepeatOf(item, "EXACT", q.min)>> \o
            (IF q.max = -1 THEN <<RepeatOf(item, kind("STAR"), 0)>>
             ELSE IF q.max > q.min THEN <<upto(q.max - q.min)>> ELSE <<>>)

\* Whether the item can never match what follows the quantifier.
AutoPossessive(item, q) ==
  LET c == IF item.op \in {"CHAR", "CHARNC", "NOT"} THEN item.c ELSE 0
  IN q.max = -1 /\ check_auto_possessive(item.op, c, Pattern, q.ptr,
                     NlOf(cd.newline), Options, cd.bracount)

Possessive(item, q) ==
  IF ~q.possessive /\ AutoPossessive(item, q)
  THEN [q EXCEPT !.possessive = TRUE, !.lazy = FALSE] ELSE q

RepeatSingleBy(item, q) ==
  LET single == item.op \in {"CHAR", "CHARNC"} /\ Len(CharBytes(item.c, IsUtf8)) = 1
      b == IF single /\ q.min > 1
           THEN [BeforeRepeat(q) EXCEPT !.reqbyte = OneByte(item.c, cd.req_varyopt)]
           ELSE BeforeRepeat(q)
      new == SubSeq(code, 1, branch.previous - 1) \o SingleRepeats(item, q)
  IN EndRepeat(q, IF q.possessive /\ q.min = 1 /\ q.max > 1
                  THEN WrapOnce(new, branch.previous) ELSE new, b,
               IF q.max = 0 THEN cd ELSE NoPartial(q))

RepeatSingleItem ==
  /\ Repeatable({"CHAR", "CHARNC", "NOT"} \cup CharTypes)
  /\ RepeatSingleBy(Previous, Possessive(Previous, WithSuffix(Counts)))

-----------------------------------------------------------------------------
(* Classes and references: the repeat follows them.                         *)
RepeatClassBy(q) ==
  LET cr == [op |-> "CR", min |-> q.min, lazy |-> q.lazy,
             max |-> IF q.max = -1 THEN INT_MAX ELSE q.max]
      new == IF q.possessive THEN WrapOnce(Append(code, cr), branch.previous)
             ELSE Append(code, cr)
  IN IF q.max = 0
     THEN EndRepeat(q, SubSeq(code, 1, branch.previous - 1), BeforeRepeat(q), cd)
     ELSE EndRepeat(q, new, BeforeRepeat(q), NoPartial(q))

RepeatClassItem == Repeatable(ClassOps \cup {"REF"}) /\ RepeatClassBy(WithSuffix(Counts))

-----------------------------------------------------------------------------
(* Groups: the code is copied as often as the group must be there, then, in  *)
(* nested optional groups, as often as it may be.  g holds the code, the    *)
(* calls that wait for their group (hwm; those from save on are in the last *)
(* copy), the group's place and length, and the optional groups left open.  *)
Insert(instructions, p, new) ==
  SubSeq(instructions, 1, p - 1) \o new \o SubSeq(instructions, p, Len(instructions))

\* One more copy, k instructions past the last.
CopyGroup(g, k) ==
  [g EXCEPT !.code = @ \o SubSeq(g.code, g.p, g.p + g.len - 1),
            !.hwm  = @ \o [i \in 1..(Len(@) - g.save) |-> @[g.save + i] + g.len + k],
            !.save = Len(g.hwm)]

Mandatory(g, n) ==
  LET m[i \in 0..n] == IF i = 0 THEN g ELSE CopyGroup(m[i - 1], 0)
  IN m[n]

Zero(q) == [op |-> IF q.lazy THEN "BRAMINZERO" ELSE "BRAZERO"]
OpenGroup == [op |-> "BRA", link |-> 0]

Optional(g, q, n) ==
  LET o[i \in 0..n] ==
        LET before == o[i - 1]
            open   == [before EXCEPT !.code = @ \o <<Zero(q), OpenGroup>>,
                                     !.bras = Append(@, Len(before.code) + 2)]
            last   == [before EXCEPT !.code = Append(@, Zero(q))]
        IN IF i = 0 THEN g
           ELSE IF i < n THEN CopyGroup(open, 2) ELSE CopyGroup(last, 1)
  IN o[n]

CloseOptional(g) ==
  LET n == Len(g.bras)
      k[i \in 0..n] ==
        LET open == k[i - 1]
            bra  == g.bras[n + 1 - i]
            len  == Len(open) + 1 - bra
        IN IF i = 0 THEN g.code
           ELSE Append([open EXCEPT ![bra].link = len], [op |-> "KET", link |-> len])
  IN [g EXCEPT !.code = k[n]]

\* Before a group that may be left out.  Calls of what follows are adjusted.
ZeroTimes(g, q) ==
  LET ins == IF q.max = 0 THEN <<[op |-> "SKIPZERO"]>>
             ELSE IF q.max <= 1 THEN <<Zero(q)>> ELSE <<Zero(q), OpenGroup>>
      adjusted == adjust_recurse(g.code, g.hwm, g.save, g.p, Len(ins))
  IN [g EXCEPT !.code = Insert(adjusted.code, g.p, ins), !.hwm = adjusted.hwm,
               !.p = @ + Len(ins), !.bras = IF Len(ins) = 2 THEN <<g.p + 1>> ELSE <<>>]

\* An unlimited repeat: the last copy's KET loops.  If the group may match
\* nothing it becomes one that is left when it does.
Unlimited(g, q, fromend) ==
  LET ket  == Len(g.code) + 1 - fromend
      bra  == ket - g.code[ket].link
      loop == [g.code EXCEPT ![ket].op = IF q.lazy THEN "KETRMIN" ELSE "KETRMAX"]
      empty == /\ loop[bra].op # "ONCE"
               /\ \E alt \in Range(Alternatives(loop, bra)) :
                    could_be_empty_branch(loop, alt, ket)
  IN [g EXCEPT !.code =
        IF pass = 2 /\ empty
        THEN [loop EXCEPT ![bra].op = CASE @ = "BRA" -> "SBRA" [] @ = "CBRA" -> "SCBRA"
                                        [] @ = "COND" -> "SCOND"]
        ELSE loop]

RepeatedGroup(q) ==
  LET p == branch.previous
      g == [code |-> code, hwm |-> cd.hwm, save |-> branch.save_hwm, p |-> p,
            len |-> Len(code) + 1 - p, bras |-> <<>>]
      fromend == Len(code) + 1 - KetOf(code, p)
      least == IF q.min = 0 THEN ZeroTimes(g, q) ELSE Mandatory(g, q.min - 1)
      more  == IF q.min = 0 THEN q.max - 1 ELSE q.max - q.min
  IN IF q.max = 0 THEN least
     ELSE IF q.max = -1 THEN Unlimited(least, q, fromend)
     ELSE CloseOptional(Optional(least, q, more))

RepeatGroup ==
  /\ Repeatable({"BRA", "CBRA", "ONCE", "COND"})
  /\ LET q == WithSuffix(Counts)
         r == RepeatedGroup(q)
         b == BeforeRepeat(q)
         first == q.min > 1 /\ branch.groupset /\ b.reqbyte.c < 0
     IN IF pass = 2 /\ Previous.op = "COND" /\ code[branch.previous + 1].op = "DEF"
        THEN FailWith(55)
        ELSE EndRepeat(q,
               IF q.possessive /\ q.max # 0 THEN WrapOnce(r.code, branch.previous)
               ELSE r.code,
               [b EXCEPT !.reqbyte = IF first THEN b.firstbyte ELSE @],
               [cd EXCEPT !.hwm = r.hwm])

\* (?!) with a quantifier stays as it is.
RepeatFail ==
  /\ Repeatable({"FAIL"})
  /\ LET q == WithSuffix(Counts)
     IN EndRepeat(q, code, BeforeRepeat(q), cd)

-----------------------------------------------------------------------------
(* Opening a group.  compile_branch is called for its first branch.         *)
NewBranch(options) ==
  [options |-> options, firstbyte |-> REQ_UNSET, reqbyte |-> REQ_UNSET,
   zerofirstbyte |-> REQ_UNSET, zeroreqbyte |-> REQ_UNSET,
   caseless |-> "CASELESS" \in options, ungreedy |-> "UNGREEDY" \in options,
   inescq |-> FALSE, groupset |-> FALSE, previous |-> 0, save_hwm |-> 0]

NewGroup(op, start, oldims, reset, bracount, vary) ==
  [op |-> op, start |-> start, last_branch |-> start, oldims |-> oldims,
   lookbehind |-> op \in {"ASSERTBACK", "ASSERTBACK_NOT"}, reset |-> reset,
   firstbyte |-> REQ_UNSET, reqbyte |-> REQ_UNSET, orig_bracount |-> bracount,
   max_bracount |-> bracount, tempreqvary |-> vary]

\* What a branch begins with: the options, if they are not those of before,
\* and in a lookbehind the place for its length.
BranchHead(options, g) ==
  (IF options \cap IMS # g.oldims
   THEN <<[op |-> "OPT", ims |-> options \cap IMS]>> ELSE <<>>)
  \o (IF g.lookbehind THEN <<[op |-> "REVERSE", n |-> 0]>> ELSE <<>>)

\* bracket is the group's first instruction, cond what a condition adds; p is
\* the offset of the group's contents.
Open(bracket, cond, p, options, reset, shared) ==
  LET g == NewGroup(bracket.op, NewItem, Options \cap IMS, reset, shared.bracount,
                    shared.req_varyopt)
  IN /\ code' = Emitted \o <<bracket>> \o cond \o BranchHead(options, g)
     /\ group' = g
     /\ outer' = Append(outer,
          [branch |-> [branch EXCEPT
                         !.previous = IF bracket.op \in LookOps THEN 0 ELSE NewItem,
                         !.save_hwm = Len(cd.hwm)],
           group |-> group])
     /\ branch' = NewBranch(options)
     /\ ptr' = p /\ cd' = shared
     /\ UNCHANGED <<at, class, errorcode, fixedVars>>

Bracketed(op) == [op |-> op, link |-> 0]
OpenPlain(op, p) == Open(Bracketed(op), <<>>, p, Options, FALSE, cd)
OpenNumbered(p, shared) ==
  Open([op |-> "CBRA", link |-> 0, n |-> cd.bracount + 1], <<>>, p, Options, FALSE,
       [shared EXCEPT !.bracount = @ + 1])

GroupAt == Item({Ord["("]})
After(string) == GroupAt /\ StartsWith(Pattern, ptr, string)
IsVerb == After("(*") /\ At(Pattern, ptr + 2) \in Cbit("upper") \cup Cbit("lower")

CapturingGroup ==
  /\ GroupAt /\ ~IsVerb /\ At(Pattern, ptr + 1) # Ord["?"]
  /\ IF "NO_AUTO_CAPTURE" \in Options THEN OpenPlain("BRA", ptr + 1)
     ELSE OpenNumbered(ptr + 1, cd)

\* The groups that do not capture, and the assertions.
UncapturingGroup ==
  \/ After("(?:") /\ OpenPlain("BRA", ptr + 3)
  \/ After("(?|") /\ Open(Bracketed("BRA"), <<>>, ptr + 3, Options, TRUE, cd)
  \/ After("(?>") /\ OpenPlain("ONCE", ptr + 3)
  \/ After("(?=") /\ OpenPlain("ASSERT", ptr + 3)
  \/ After("(?!") /\ ~After("(?!)") /\ OpenPlain("ASSERT_NOT", ptr + 3)
  \/ After("(?<=") /\ OpenPlain("ASSERTBACK", ptr + 4)
  \/ After("(?<!") /\ OpenPlain("ASSERTBACK_NOT", ptr + 4)

\* (?!) always fails, and is an instruction.
EmptyNegativeAssertion ==
  After("(?!)") /\ Emits([op |-> "FAIL"], [branch EXCEPT !.previous = 0], ptr + 4)

Comment ==
  /\ After("(?#")
  /\ LET end == Span(Pattern, ptr + 3, Byte \ {0, Ord[")"]})
     IN IF At(Pattern, end) = 0 THEN FailWith(18)
        ELSE Goes(end + 1, Emitted, [branch EXCEPT !.save_hwm = Len(cd.hwm)], cd)

VerbNames == VerbOps \cup {"F"}

Verb ==
  /\ IsVerb
  /\ LET end == Span(Pattern, ptr + 2, Cbit("upper") \cup Cbit("lower"))
         named == {v \in VerbNames : Bytes(v) = Text(Pattern, ptr + 2, end)}
     IN IF At(Pattern, end) = Ord[":"] THEN FailWith(59)
        ELSE IF At(Pattern, end) # Ord[")"] \/ named = {} THEN FailWith(60)
        ELSE LET verb == CHOOSE v \in named : TRUE
                 op == IF verb = "F" THEN "FAIL" ELSE verb
             IN Goes(end + 1, Append(Emitted, [op |-> op]),
                     [branch EXCEPT !.previous = 0],
                     [cd EXCEPT !.had_accept = @ \/ op = "ACCEPT"])

ManualCallout ==
  /\ After("(?C")
  /\ LET end == DigitsEnd(Pattern, ptr + 3)
         n   == Decimal(Pattern, ptr + 3)
     IN IF At(Pattern, end) # Ord[")"] THEN FailWith(39)
        ELSE IF n > 255 THEN FailWith(38)
        ELSE Emits([op |-> "CALLOUT", n |-> n],
                   [branch EXCEPT !.previous = 0], end + 1)

-----------------------------------------------------------------------------
(* The options (?i) and (?i:...).  At the very start of a pattern they are   *)
(* the pattern's own.                                                       *)
OptionLetters == [i |-> "CASELESS", m |-> "MULTILINE", s |-> "DOTALL", x |-> "EXTENDED",
                  U |-> "UNGREEDY", X |-> "EXTRA", J |-> "DUPNAMES"]
IsOption(c) == c \in {Ord[l] : l \in DOMAIN OptionLetters}

OptionsAt(p) ==
  LET end == Span(Pattern, p, {Ord["-"]} \cup {Ord[l] : l \in DOMAIN OptionLetters})
      minus == Span(Pattern, p, {Ord[l] : l \in DOMAIN OptionLetters})
      among(from, to) == {OptionLetters[Name(At(Pattern, q))] :
                            q \in {r \in from..(to - 1) : IsOption(At(Pattern, r))}}
  IN [end |-> end, set |-> among(p, minus), unset |-> among(minus, end)]

OptionsStart == IF After("(?R-") THEN ptr + 3 ELSE ptr + 2    \* (?R-i) is (?-i)

OptionGroup ==
  /\ After("(?")
  /\ At(Pattern, OptionsStart) \notin Chars("#|:(=!<>&'+PRC") \cup Digits
  /\ ~(At(Pattern, OptionsStart) = Ord["-"] /\ At(Pattern, OptionsStart + 1) \in Digits)
  /\ LET o == OptionsAt(OptionsStart)
         newoptions == (Options \cup o.set) \ o.unset
         shared == [cd EXCEPT !.external_flags =
                      IF "DUPNAMES" \in o.set \cup o.unset THEN @ \cup {"JCHANGED"} ELSE @]
         b == [branch EXCEPT !.options = newoptions, !.previous = 0]
     IN CASE At(Pattern, o.end) = Ord[":"] ->
               Open(Bracketed("BRA"), <<>>, o.end + 1, newoptions, FALSE, shared)
          [] At(Pattern, o.end) = Ord[")"] ->
               IF Len(Emitted) = 1
               THEN Goes(o.end + 1, Emitted, b,
                         [shared EXCEPT !.external_options = newoptions])
               ELSE Goes(o.end + 1,
                         IF newoptions \cap IMS = Options \cap IMS THEN Emitted
                         ELSE Append(Emitted, [op |-> "OPT", ims |-> newoptions \cap IMS]),
                         [b EXCEPT !.caseless = "CASELESS" \in newoptions,
                                   !.ungreedy = "UNGREEDY" \in newoptions], shared)
          [] OTHER -> FailWith(12)

-----------------------------------------------------------------------------
(* Names.  The table is kept in the order of the names.                     *)
WordEnd(p) == Span(Pattern, p, Ctype("word"))
MAX_NAME_SIZE == 32

Less(a, b) ==                       \* in the order of memcmp and strcmp
  \E k \in 1..Len(b) :
    /\ k > Len(a) \/ a[k] < b[k]
    /\ \A j \in 1..(k - 1) : j <= Len(a) /\ a[j] = b[j]

AddName(name, n) ==
  LET later == {i \in DOMAIN cd.names : Less(name, cd.names[i].name)}
      slot  == Min(later \cup {Len(cd.names) + 1})
  IN Insert(cd.names, slot, <<[name |-> name, n |-> n]>>)

NameStart == IF After("(?P<") THEN ptr + 4 ELSE ptr + 3
IsNamedGroup == \/ After("(?P<") \/ After("(?'")
                \/ After("(?<") /\ At(Pattern, ptr + 3) \in Ctype("word")

NamedGroup ==
  /\ IsNamedGroup
  /\ LET end  == WordEnd(NameStart)
         name == Text(Pattern, NameStart, end)
         terminator == IF At(Pattern, NameStart - 1) = Ord["<"] THEN Ord[">"] ELSE Ord["'"]
     IN CASE pass = 1 /\ At(Pattern, end) # terminator -> FailWith(42)
          [] pass = 1 /\ At(Pattern, end) = terminator /\ Len(name) > MAX_NAME_SIZE ->
               FailWith(48)
          [] pass = 2 /\ "DUPNAMES" \notin Options
             /\ (\E i \in DOMAIN cd.names : cd.names[i].name = name) -> FailWith(43)
          [] OTHER -> OpenNumbered(end + 1,
               IF pass = 2 THEN [cd EXCEPT !.names = AddName(name, cd.bracount + 1)] ELSE cd)

BadGroup ==
  \/ /\ After("(?<") /\ At(Pattern, ptr + 3) \notin Ctype("word") \cup Chars("=!")
     /\ FailWith(24)
  \/ After("(?P") /\ At(Pattern, ptr + 3) \notin Chars("=><") /\ FailWith(41)

\* A group by its name: one already met, or one that is still to come.
NameOf(name, matches(_)) ==
  LET found == {i \in DOMAIN cd.names : matches(cd.names[i].name)}
  IN IF found = {} THEN -1 ELSE cd.names[Min(found)].n
Ahead(p, wanted(_, _)) ==
  find_parens(Pattern, p, cd.bracount, wanted, "EXTENDED" \in Options,
              "JAVASCRIPT_COMPAT" \in cd.external_options)
NameAhead(p, name) == LET wanted(n, nm) == nm = name IN Ahead(p, wanted)
NumberAhead(p, number) == LET wanted(n, nm) == n = number IN Ahead(p, wanted)

-----------------------------------------------------------------------------
(* References and calls, by name or by number.                              *)
EmitsReference(n, b, p) ==
  Goes(p, Append(Emitted, [op |-> "REF", n |-> n]),
       [NoFirst(b) EXCEPT !.previous = NewItem],
       [cd EXCEPT !.backref_map = @ \cup {MapBit(n)},
                  !.top_backref = IF n > @ THEN n ELSE @])

\* The branches being compiled, the innermost first.
CurrentBranches ==
  <<group.last_branch>> \o
  [i \in 1..Len(outer) |-> outer[Len(outer) + 1 - i].group.last_branch]

\* A call, in an atomic group.  A group that is not there yet must come; one
\* that is still open must not be able to match nothing before the call.  p
\* is the offset of the closing delimiter.
EmitsCall(number, b, p) ==
  LET called == IF number = 0 THEN 1 ELSE find_bracket(Emitted, number)
      later  == pass = 2 /\ called = NoBracket
      endless == /\ pass = 2 /\ ~later /\ Emitted[called].link = 0
                 /\ could_be_empty(Emitted, called, NewItem, CurrentBranches)
      link   == IF pass = 1 THEN 1 ELSE IF later THEN number ELSE called
  IN IF later /\ NumberAhead(p, number) < 0 THEN FailWith(15)
     ELSE IF endless THEN FailWith(40)
     ELSE Goes(p + 1,
               Emitted \o <<[op |-> "ONCE", link |-> 2], [op |-> "RECURSE", link |-> link],
                            [op |-> "KET", link |-> 2]>>,
               [NoFirst(b) EXCEPT !.previous = NewItem, !.save_hwm = Len(cd.hwm)],
               IF later THEN [cd EXCEPT !.hwm = Append(@, NewItem + 1)] ELSE cd)

\* start is the offset of a name, closed by the terminator.
ByName(start, terminator, call, b) ==
  LET end  == WordEnd(start)
      name == Text(Pattern, start, end)
      same(nm) == nm = name
      n == IF pass = 1 THEN 0
           ELSE IF NameOf(name, same) > 0 THEN NameOf(name, same)
           ELSE NameAhead(end, name)
  IN CASE pass = 1 /\ Len(name) = 0 -> FailWith(62)
       [] pass = 1 /\ Len(name) > 0 /\ At(Pattern, end) # terminator -> FailWith(42)
       [] pass = 1 /\ At(Pattern, end) = terminator /\ Len(name) > MAX_NAME_SIZE ->
            FailWith(48)
       [] pass = 2 /\ n <= 0 -> FailWith(15)
       [] OTHER -> IF call THEN EmitsCall(n, b, end)
                   ELSE EmitsReference(n, b, end + 1)

\* start is the offset of a number, perhaps signed.
ByNumber(start, terminator, b) ==
  LET sign == At(Pattern, start)
      from == IF sign \in Chars("+-") THEN start + 1 ELSE start
      end  == DigitsEnd(Pattern, from)
      n    == Decimal(Pattern, from)
      number == IF sign = Ord["-"] THEN cd.bracount - n + 1
                ELSE IF sign = Ord["+"] THEN cd.bracount + n ELSE n
  IN CASE sign = Ord["+"] /\ end = from -> FailWith(63)
       [] sign = Ord["-"] /\ end = from -> FailWith(12)
       [] At(Pattern, end) # terminator /\ (sign \in Chars("+-") => end > from) ->
            FailWith(29)
       [] sign \in Chars("+-") /\ end > from /\ At(Pattern, end) = terminator /\ n = 0 ->
            FailWith(58)
       [] sign = Ord["-"] /\ At(Pattern, end) = terminator /\ n > cd.bracount ->
            FailWith(15)
       [] OTHER -> EmitsCall(number, b, end)

ReferenceByName == After("(?P=") /\ ByName(ptr + 4, Ord[")"], FALSE, branch)
CallByName == \/ After("(?P>") /\ ByName(ptr + 4, Ord[")"], TRUE, branch)
              \/ After("(?&") /\ ByName(ptr + 3, Ord[")"], TRUE, branch)
CallByNumber ==
  \/ /\ After("(?R")
     /\ At(Pattern, ptr + 3) = Ord["-"] => At(Pattern, ptr + 4) \in Digits
     /\ ByNumber(ptr + 3, Ord[")"], branch)
  \/ /\ After("(?") /\ At(Pattern, ptr + 2) \in Digits \cup {Ord["+"]}
     /\ ByNumber(ptr + 2, Ord[")"], branch)
  \/ /\ After("(?-") /\ At(Pattern, ptr + 3) \in Digits
     /\ ByNumber(ptr + 2, Ord[")"], branch)

-----------------------------------------------------------------------------
(* Conditional groups.  p is the offset past the second parenthesis.  A      *)
(* condition is an assertion, or a word: a name, a number with or without a *)
(* sign, R for a recursion, or DEFINE.                                      *)
ConditionAt(p) ==
  LET start == CASE StartsWith(Pattern, p, "R&") -> p + 2
                 [] At(Pattern, p) \in Chars("<'-+") -> p + 1
                 [] OTHER -> p
      end == WordEnd(start)
      quoted == At(Pattern, p) \in Chars("<'")
      terminator == IF At(Pattern, p) = Ord["<"] THEN Ord[">"] ELSE Ord["'"]
      close == IF quoted THEN end + 1 ELSE end
      numeric == \A q \in start..(end - 1) : At(Pattern, q) \in Digits
  IN [word |-> Text(Pattern, start, end),
      number |-> IF numeric THEN Decimal(Pattern, start) ELSE -1,
      sign |-> IF At(Pattern, p) \in Chars("+-") THEN At(Pattern, p) ELSE 0,
      plain |-> start = p,                          \* neither quoted nor signed
      recursion |-> StartsWith(Pattern, p, "R&"),
      end |-> close + 1,
      err |-> CASE start = end -> 28
                [] start # end /\ \/ quoted /\ At(Pattern, end) # terminator
                                  \/ At(Pattern, close) # Ord[")"] -> 26
                [] OTHER -> 0]

Cref(n) == [op |-> "CREF", n |-> n]
Refused(err) == [op |-> "CREF", n |-> 0, err |-> err]

\* The instruction, or an error.  A name is found by its beginning: by any of
\* the names that start with the word.
SignedCondition(c) ==
  LET n == IF c.sign = Ord["-"] THEN cd.bracount - c.number + 1
           ELSE cd.bracount + c.number
  IN IF c.number <= 0 THEN Refused(58)
     ELSE IF n <= 0 \/ n > cd.final_bracount THEN Refused(15)
     ELSE [Refused(0) EXCEPT !.n = n]

WordCondition(c) ==
  LET begins(nm) == IsPrefix(c.word, nm)
      op     == IF c.recursion THEN "RREF" ELSE "CREF"
      known  == NameOf(c.word, begins)
      ahead  == NameAhead(c.end, c.word)
      digits == SubSeq(c.word, 2, Len(c.word))
      calls  == Decimal(digits, 0)
  IN CASE known >= 0 -> [op |-> op, n |-> known, err |-> 0]
       [] known < 0 /\ ahead > 0 -> [op |-> op, n |-> ahead, err |-> 0]
       [] known < 0 /\ ahead <= 0 /\ ~c.plain -> Refused(15)
       [] OTHER ->
            IF c.word[1] = Ord["R"]
            THEN IF \E i \in DOMAIN digits : digits[i] \notin Digits THEN Refused(15)
                 ELSE [op |-> "RREF", n |-> IF calls = 0 THEN RREF_ANY ELSE calls,
                       err |-> 0]
            ELSE IF c.word = Bytes("DEFINE") THEN [op |-> "DEF", err |-> 0]
            ELSE IF c.number > 0 /\ c.number <= cd.final_bracount
            THEN [op |-> "CREF", n |-> c.number, err |-> 0]
            ELSE Refused(IF c.number = 0 THEN 35 ELSE 15)

OpenCondition(c, chosen) ==
  LET opens(ins) == Open(Bracketed("COND"), <<ins>>, c.end, Options, FALSE, cd)
  IN CASE c.err # 0 -> FailWith(c.err)
       [] c.err = 0 /\ pass = 1 -> opens(Cref(0))
       [] c.err = 0 /\ pass = 2 /\ chosen.err # 0 -> FailWith(chosen.err)
       [] OTHER -> opens(IF chosen.op = "DEF" THEN [op |-> "DEF"]
                         ELSE [op |-> chosen.op, n |-> chosen.n])

OpenConditionOf(c) ==
  OpenCondition(c, IF c.sign # 0 THEN SignedCondition(c) ELSE WordCondition(c))

ConditionalGroup ==
  /\ After("(?(")
  /\ IF At(Pattern, ptr + 3) = Ord["?"] /\ At(Pattern, ptr + 4) \in Chars("=!<")
     THEN Open(Bracketed("COND"), <<>>, ptr + 2, Options, FALSE, cd)
     ELSE OpenConditionOf(ConditionAt(ptr + 3))

-----------------------------------------------------------------------------
(* Escapes outside classes.                                                 *)
EscapeOps ==
  [A |-> "SOD", G |-> "SOM", K |-> "SET_SOM", B |-> "NOT_WORD_BOUNDARY",
   b |-> "WORD_BOUNDARY", D |-> "NOT_DIGIT", d |-> "DIGIT", S |-> "NOT_WHITESPACE",
   s |-> "WHITESPACE", W |-> "NOT_WORDCHAR", w |-> "WORDCHAR", C |-> "ANYBYTE",
   R |-> "ANYNL", H |-> "NOT_HSPACE", h |-> "HSPACE", V |-> "NOT_VSPACE",
   v |-> "VSPACE", Z |-> "EODN", z |-> "EOD"]

\* \g<name>, \g'name' and the same with a number: a call.  p is the delimiter.
\* (The code reads on after the error 57 and answers with it, or with one it
\* meets then.)
CallEscape(p, b) ==
  LET terminator == IF At(Pattern, p) = Ord["<"] THEN Ord[">"] ELSE Ord["'"]
      signed == At(Pattern, p + 1) \in Chars("+-")
      end == IF signed THEN DigitsEnd(Pattern, p + 2) ELSE WordEnd(p + 1)
      number == \A q \in (p + 1)..(end - 1) : At(Pattern, q) \in Digits
  IN IF At(Pattern, end) # terminator THEN FailWith(57)
     ELSE IF signed \/ number THEN ByNumber(p + 1, terminator, b)
     ELSE ByName(p + 1, terminator, TRUE, b)

\* \k<name>, \k'name' and \k{name}: a reference. p is the delimiter.
NameFollows(p) == At(Pattern, p) \in Chars("<'{")
NameEscape(p, b) ==
  LET delimiter == At(Pattern, p)
      terminator == IF delimiter = Ord["<"] THEN Ord[">"]
                    ELSE IF delimiter = Ord["{"] THEN Ord["}"] ELSE Ord["'"]
  IN ByName(p + 1, terminator, FALSE, b)

\* esc is the escape, p the offset past it, and b the branch's locals with what
\* holds should a repeat follow.
\* (A \k with no name after it is left out: its number is emitted as if it were
\* an instruction, the one of a character, with what follows as its operand.)
ReadEscape(esc, p, b) ==
  LET kind == esc.kind
      type == kind \in DOMAIN EscapeOps /\ EscapeOps[kind] \in CharTypes
      typed == IF type THEN [ZeroReq(ZeroFirst(NoFirst(branch))) EXCEPT !.previous = NewItem]
               ELSE [b EXCEPT !.previous = 0]
  IN CASE esc.err # 0 -> FailWith(esc.err)
       [] esc.err = 0 /\ kind = "Q" ->
            IF StartsWith(Pattern, p, "\\E") THEN Goes(p + 2, Emitted, branch, cd)
            ELSE Goes(p, Emitted, [branch EXCEPT !.inescq = TRUE], cd)
       [] esc.err = 0 /\ kind = "E" -> Goes(p, Emitted, branch, cd)
       [] esc.err = 0 /\ kind = "g" -> CallEscape(p, b)
       [] esc.err = 0 /\ kind = "k" /\ NameFollows(p) -> NameEscape(p, b)
       [] esc.err = 0 /\ kind = "ref" -> EmitsReference(esc.n, b, p)
       [] esc.err = 0 /\ kind \in {"X", "P", "p"} -> FailWith(45)
       [] esc.err = 0 /\ kind \in DOMAIN EscapeOps ->
            Emits([op |-> EscapeOps[kind]], typed, p)
       [] OTHER -> kind = "char" /\ EmitsChar(esc.n, branch, p)

ReadEscapeAt(esc) == ReadEscape(esc, esc.ptr + 1, ZeroReq(ZeroFirst(branch)))

EscapeItem ==
  /\ Item({Ord["\\"]})
  /\ ReadEscapeAt(check_escape(Pattern, ptr, cd.bracount, Options, FALSE))

-----------------------------------------------------------------------------
(* compile_regex: the end of a branch.  What every match begins with, and    *)
(* must contain, is what all the branches agree on.                         *)
SameByte(a, b) == a.c = b.c /\ a.caseless = b.caseless

Merged(g) ==
  LET first == branch.firstbyte
      clash == g.firstbyte.c >= 0 /\ g.firstbyte # first
      req   == IF clash /\ g.reqbyte.c < 0 THEN g.firstbyte ELSE g.reqbyte
      gfirst == IF clash THEN REQ_NONE ELSE g.firstbyte
      breq  == IF gfirst.c < 0 /\ first.c >= 0 /\ branch.reqbyte.c < 0 THEN first
               ELSE branch.reqbyte
  IN IF g.last_branch = g.start
     THEN [g EXCEPT !.firstbyte = first, !.reqbyte = branch.reqbyte]
     ELSE [g EXCEPT !.firstbyte = gfirst,
                    !.reqbyte = IF SameByte(req, breq)
                                THEN [req EXCEPT !.vary = @ \/ breq.vary] ELSE REQ_NONE]

BranchLength == find_fixedlength(Emitted, group.last_branch)
BadLookbehind == pass = 2 /\ group.lookbehind /\ BranchLength < 0

\* The code with the length of a lookbehind's branch filled in.
Measured ==
  LET reverse == IF Emitted[group.last_branch + 1].op = "OPT" THEN group.last_branch + 2
                 ELSE group.last_branch + 1
  IN IF pass = 2 /\ group.lookbehind
     THEN [Emitted EXCEPT ![reverse].n = BranchLength] ELSE Emitted

EndsBranch(set) == at = "branch" /\ (~branch.inescq \/ Here = 0) /\ ~Ignored /\ Here \in set
WithBracount == IF cd.bracount > group.max_bracount THEN cd.bracount
                ELSE group.max_bracount

\* Until the group is closed an ALT's link leads back to the branch before it.
NextAlternative ==
  /\ EndsBranch({Ord["|"]})
  /\ LET alt == Len(Measured) + 1
         g   == [Merged(group) EXCEPT !.last_branch = alt, !.max_bracount = WithBracount]
     IN IF BadLookbehind THEN FailWith(IF BranchLength = HasAnyByte THEN 36 ELSE 25)
        ELSE /\ code' = Measured \o <<[op |-> "ALT", link |-> alt - group.last_branch]>>
                        \o BranchHead(Options, g)
             /\ group' = g
             /\ branch' = NewBranch(Options)
             /\ cd' = IF group.reset THEN [cd EXCEPT !.bracount = group.orig_bracount] ELSE cd
             /\ ptr' = ptr + 1
             /\ UNCHANGED <<at, class, outer, errorcode, fixedVars>>

\* The links of the branches turned forwards, the KET, and the options that
\* were there before the group.
Branches(instructions) ==
  LET b[p \in DOMAIN instructions] ==
        IF instructions[p].link = 0 THEN <<p>>
        ELSE Append(b[p - instructions[p].link], p)
  IN b[group.last_branch]

Closed ==
  LET starts == Append(Branches(Measured), Len(Measured) + 1)
      next(p) == Min({q \in Range(starts) : q > p})
  IN [p \in DOMAIN Measured |->
        IF p \in Range(starts) THEN [Measured[p] EXCEPT !.link = next(p) - p]
        ELSE Measured[p]]
     \o <<[op |-> "KET", link |-> Len(Measured) + 1 - group.start]>>
     \o (IF Options \cap IMS # group.oldims /\ Here = Ord[")"]
         THEN <<[op |-> "OPT", ims |-> group.oldims]>> ELSE <<>>)

\* The group as an item of the branch around it.
WithGroup(b, g, branches) ==
  LET single == g.op = "COND" /\ branches = 1
      first  == IF single THEN REQ_NONE ELSE g.firstbyte
      req    == IF single THEN REQ_NONE ELSE g.reqbyte
      zero   == [ZeroReq(ZeroFirst(b)) EXCEPT !.groupset = FALSE]
      needs(c, r) == IF r.c >= 0 THEN [c EXCEPT !.reqbyte = r] ELSE c
  IN CASE g.op = "ASSERT" -> needs(zero, req)
       [] g.op \in LookOps \ {"ASSERT"} -> zero
       [] g.op \notin LookOps /\ b.firstbyte = REQ_UNSET ->
            needs([zero EXCEPT !.firstbyte = IF first.c >= 0 THEN first ELSE REQ_NONE,
                               !.groupset = first.c >= 0,
                               !.zerofirstbyte = REQ_NONE], req)
       [] OTHER ->
            needs(zero, IF first.c >= 0 /\ req.c < 0
                        THEN [first EXCEPT !.vary = g.tempreqvary] ELSE req)

EndGroup ==
  /\ EndsBranch({0, Ord[")"]})
  /\ outer # <<>>
  /\ LET branches == Len(Branches(Measured))
         define == group.op = "COND" /\ code[group.start + 1].op = "DEF"
         around == Last(outer)
     IN CASE BadLookbehind -> FailWith(IF BranchLength = HasAnyByte THEN 36 ELSE 25)
          [] ~BadLookbehind /\ pass = 2 /\ define /\ branches > 1 -> FailWith(54)
          [] ~BadLookbehind /\ pass = 2 /\ group.op = "COND" /\ ~define /\ branches > 2 ->
               FailWith(27)
          [] OTHER ->
               IF Here = 0 THEN FailWith(14)
               ELSE /\ code' = Closed
                    /\ branch' = IF define THEN around.branch
                                 ELSE WithGroup(around.branch, Merged(group), branches)
                    /\ group' = around.group
                    /\ outer' = Front(outer)
                    /\ cd' = [cd EXCEPT !.bracount = WithBracount]
                    /\ ptr' = ptr + 1
                    /\ UNCHANGED <<at, class, errorcode, fixedVars>>

-----------------------------------------------------------------------------
(* pcre_compile2.                                                           *)
PUBLIC_OPTIONS == {"CASELESS", "EXTENDED", "ANCHORED", "MULTILINE", "DOTALL",
  "DOLLAR_ENDONLY", "EXTRA", "UNGREEDY", "UTF8", "NO_AUTO_CAPTURE", "NO_UTF8_CHECK",
  "AUTO_CALLOUT", "FIRSTLINE", "DUPNAMES", "JAVASCRIPT_COMPAT"}

\* The items (*CR) ... at the start of a pattern choose the conventions.
StartVerbs == [cr |-> "(*CR)", lf |-> "(*LF)", crlf |-> "(*CRLF)", any |-> "(*ANY)",
               anycrlf |-> "(*ANYCRLF)"]
BsrVerbs == [anycrlf |-> "(*BSR_ANYCRLF)", unicode |-> "(*BSR_UNICODE)"]

AtStart ==
  LET a[p \in 0..Len(Pattern), nl \in DOMAIN Newline \cup {"none", "bad"},
        bsr \in {"anycrlf", "unicode", "none", "bad"}] ==
        LET nls  == {n \in DOMAIN StartVerbs : StartsWith(Pattern, p, StartVerbs[n])}
            bsrs == {b \in DOMAIN BsrVerbs : StartsWith(Pattern, p, BsrVerbs[b])}
            n == CHOOSE x \in nls : TRUE
            b == CHOOSE x \in bsrs : TRUE
        IN IF nls # {} THEN a[p + Len(StartVerbs[n]), n, bsr]
           ELSE IF bsrs # {} THEN a[p + Len(BsrVerbs[b]), nl, b]
           ELSE [ptr |-> p, newline |-> nl, bsr |-> bsr]
  IN a[0, source.newline, source.bsr]

\* A pass starts: compile_regex with the bracket that is the whole pattern.
StartsPass(n, options, shared) ==
  LET g == NewGroup("BRA", 1, options \cap IMS, FALSE, 0, FALSE)
  IN /\ at' = "branch" /\ pass' = n
     /\ ptr' = AtStart.ptr
     /\ code' = <<Bracketed("BRA")>>
     /\ group' = g /\ branch' = NewBranch(options) /\ outer' = <<>>
     /\ cd' = shared

NewCd(newline, bsr, options) ==
  [bracount |-> 0, final_bracount |-> 0, names |-> <<>>, top_backref |-> 0,
   backref_map |-> {}, external_options |-> options, external_flags |-> {},
   req_varyopt |-> FALSE, had_accept |-> FALSE, hwm |-> <<>>,
   newline |-> IF newline = "none" THEN "lf" ELSE newline, bsr |-> bsr]

BadSource ==
  CASE /\ "UTF8" \in source.options /\ "NO_UTF8_CHECK" \notin source.options
       /\ ValidUtf8(Pattern) >= 0 -> 44
    [] ~(source.options \subseteq PUBLIC_OPTIONS) -> 17
    [] AtStart.bsr = "bad" \/ AtStart.newline = "bad" -> 56
    [] OTHER -> 0

Start ==
  /\ at = "called"
  /\ IF BadSource # 0 THEN FailWith(BadSource)
     ELSE /\ StartsPass(1, source.options,
                        NewCd(AtStart.newline, AtStart.bsr, source.options))
          /\ UNCHANGED <<source, class, errorcode, re>>

AtTop == EndsBranch({0, Ord[")"]}) /\ outer = <<>>

\* What the passes share, with what the second starts anew.
KeepsCount == [cd EXCEPT !.final_bracount = WithBracount, !.names = <<>>,
                         !.hwm = <<>>]                                  \* a mutant

Anew == [cd EXCEPT !.final_bracount = WithBracount, !.bracount = 0, !.names = <<>>,
                   !.hwm = <<>>, !.req_varyopt = FALSE, !.had_accept = FALSE]

SecondPass ==
  /\ AtTop /\ pass = 1
  /\ StartsPass(2, cd.external_options, Anew)
  /\ UNCHANGED <<source, class, errorcode, re>>

\* The calls of groups that came later find them.  An atomic group put around
\* a call since (WrapOnce) has moved it from the place noted: what is there is
\* read as the number of a group, as if no group had it.
Whole == Append(Closed, [op |-> "END"])
IsCall(whole, p) == whole[p].op = "RECURSE"
Called(whole, p) == find_bracket(whole, whole[p].link)

Resolved(whole) ==
  LET calls == Range(cd.hwm)
  IN [p \in DOMAIN whole |->
        IF p \in calls THEN [whole[p] EXCEPT !.link = Called(whole, p)] ELSE whole[p]]

FinishError(whole) ==
  CASE Here # 0 -> 22
    [] /\ Here = 0
       /\ \E p \in Range(cd.hwm) : IsCall(whole, p) => Called(whole, p) = NoBracket -> 53
    [] Here = 0 /\ cd.top_backref > WithBracount -> 15
    [] OTHER -> 0

\* Case matters not for a byte that has but one.
WithCase(byte) == [c |-> byte.c, caseless |-> byte.caseless /\ Fcc(byte.c) # byte.c]

\* free: the pattern is not anchored.  first and req are what it has of a first
\* and a required byte.
RealPcre(instructions, free, first, req) ==
  LET set   == free /\ first.c >= 0
      needs == /\ ~cd.had_accept /\ req.c >= 0
               /\ free \/ req.vary
      start == cd.external_options
  IN [code |-> instructions, options |-> IF free THEN start ELSE start \cup {"ANCHORED"},
      flags |-> cd.external_flags \cup (IF set THEN {"FIRSTSET"} ELSE {})
                \cup (IF free /\ ~set /\ is_startline(instructions, 1, cd.backref_map)
                      THEN {"STARTLINE"} ELSE {})
                \cup (IF needs THEN {"REQCHSET"} ELSE {}),
      newline |-> AtStart.newline, bsr |-> AtStart.bsr,
      first_byte |-> IF set THEN WithCase(first) ELSE NoChar,
      req_byte |-> IF needs THEN WithCase(req) ELSE NoChar,
      top_bracket |-> WithBracount, top_backref |-> cd.top_backref, names |-> cd.names,
      studied |-> FALSE, start_bits |-> {}]

FinishWith(instructions, anchored, g) ==
  re' = RealPcre(instructions, "ANCHORED" \notin cd.external_options /\ ~anchored.yes,
                 IF g.firstbyte.c >= 0 THEN g.firstbyte
                 ELSE find_firstassertedchar(instructions, 1, anchored.options,
                                             "UTF8" \in cd.external_options),
                 g.reqbyte)

FinishCode(instructions) ==
  FinishWith(instructions,
             is_anchored(instructions, 1, cd.external_options \cap IMS, cd.backref_map),
             Merged(group))

EndOfPattern(whole) ==
  IF FinishError(whole) # 0 THEN FailWith(FinishError(whole))
  ELSE /\ FinishCode(Resolved(whole)) /\ at' = "ended"
       /\ UNCHANGED <<source, pass, ptr, code, cd, branch, class, group, outer,
                      errorcode>>

Finish == AtTop /\ pass = 2 /\ EndOfPattern(Whole)

-----------------------------------------------------------------------------
ReadItem ==
  \/ EndQuote \/ SkipIgnored \/ Circumflex \/ Dollar \/ Dot \/ NormalChar
  \/ ClassStart \/ EndClassQuote \/ ClassPosix \/ ClassEscape \/ ClassItem \/ CloseClass
  \/ NothingToRepeat \/ RepeatSingleItem \/ RepeatClassItem \/ RepeatGroup \/ RepeatFail
  \/ CapturingGroup \/ UncapturingGroup \/ EmptyNegativeAssertion \/ Comment \/ Verb
  \/ ManualCallout \/ OptionGroup \/ NamedGroup \/ BadGroup
  \/ ReferenceByName \/ CallByName \/ CallByNumber \/ ConditionalGroup \/ EscapeItem
  \/ NextAlternative \/ EndGroup

NoRe == [code |-> <<>>]
Idle == NewGroup("BRA", 1, {}, FALSE, 0, FALSE)

InitCompile(sources) ==
  /\ source \in sources
  /\ at = "called" /\ pass = 1 /\ ptr = 0 /\ code = <<>>
  /\ cd = NewCd("none", "none", {}) /\ branch = NewBranch({}) /\ class = NoClass
  /\ group = Idle /\ outer = <<>> /\ errorcode = 0 /\ re = NoRe

Compile == Start \/ ReadItem \/ SecondPass \/ Finish
=============================================================================
