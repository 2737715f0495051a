------------------------------ MODULE PcreCode ------------------------------
(***************************************************************************)
(* The compiled form of a pattern: what pcre_compile2 builds and the two    *)
(* matching functions, pcre_study and FSRegex's calls read.  The code is a  *)
(* sequence of instructions, one record for an opcode with its operands;    *)
(* a link counts instructions where the code's counts bytes.  The fields:   *)
(*   op    the opcode, without the OP_ of the enumeration;                  *)
(*   link  the distance to the next alternative or to the KET (a bracket or *)
(*         ALT), back to the start (a KET), or the index of the group       *)
(*         called (RECURSE);                                                *)
(*   n     a group's number, a repeat's count, a callout's number, the      *)
(*         characters a REVERSE goes back;                                  *)
(*   c     a character; type: a character type; ims: a set of options;      *)
(*   map   the bytes of a class; list, negated: an extended class;          *)
(*   min, max, lazy: the bounds of a repeated class or reference.           *)
(* The enumeration has three families of single-item repeats: of a         *)
(* character (OP_STAR ...), of a negated one (OP_NOTSTAR ...) and of a type *)
(* (OP_TYPESTAR ...).  Here they are CHARREP, NOTREP and TYPEREP, with the  *)
(* kind of repeat in the field rep.                                         *)
(***************************************************************************)
EXTENDS PcreChars

INT_MAX == 2147483647

-----------------------------------------------------------------------------
(* The enumeration of opcodes, in the groups the code tells apart.          *)
CharTypes == {"NOT_DIGIT", "DIGIT", "NOT_WHITESPACE", "WHITESPACE",
              "NOT_WORDCHAR", "WORDCHAR", "ANY", "ALLANY", "ANYBYTE", "ANYNL",
              "NOT_HSPACE", "HSPACE", "NOT_VSPACE", "VSPACE"}
SimpleAssertions == {"SOD", "SOM", "EOD", "EODN", "CIRC", "DOLL",
                     "WORD_BOUNDARY", "NOT_WORD_BOUNDARY"}
GreedyReps     == {"STAR", "PLUS", "QUERY", "UPTO"}
LazyReps       == {"MINSTAR", "MINPLUS", "MINQUERY", "MINUPTO"}
PossessiveReps == {"POSSTAR", "POSPLUS", "POSQUERY", "POSUPTO"}
Reps == GreedyReps \cup LazyReps \cup PossessiveReps \cup {"EXACT"}
RepOps     == {"CHARREP", "NOTREP", "TYPEREP"}
ClassOps   == {"CLASS", "NCLASS", "XCLASS"}
LookOps    == {"ASSERT", "ASSERT_NOT", "ASSERTBACK", "ASSERTBACK_NOT"}
SBraOps    == {"SBRA", "SCBRA", "SCOND"}              \* op >= OP_SBRA
CaptureOps == {"CBRA", "SCBRA"}
BracketOps == LookOps \cup SBraOps \cup {"ONCE", "BRA", "CBRA", "COND"}
KetOps     == {"KET", "KETRMAX", "KETRMIN"}
ConditionOps == {"CREF", "RREF", "DEF"}
VerbOps    == {"PRUNE", "COMMIT", "SKIP", "THEN", "FAIL", "ACCEPT"}
RREF_ANY == 65535

\* The bytes of a character in the code.
CharBytes(c, utf8) == IF utf8 /\ c >= 128 THEN OrdToUtf8(c) ELSE <<c>>

-----------------------------------------------------------------------------
(* The chains of alternatives.  p is the index of a bracket or of an ALT.   *)
NextAlt(code, p) == p + code[p].link

IsLastAlt(code, p) == code[NextAlt(code, p)].op # "ALT"

\* do p += GET(p, 1); while (*p == OP_ALT): the KET of the group.
KetOf(code, p) ==
  LET k[q \in 1..Len(code)] == IF IsLastAlt(code, q) THEN NextAlt(code, q)
                               ELSE k[NextAlt(code, q)]
  IN k[p]

\* The indices of a group's bracket and of its ALTs, in order.
Alternatives(code, p) ==
  LET a[q \in 1..Len(code)] == IF IsLastAlt(code, q) THEN <<q>>
                               ELSE <<q>> \o a[NextAlt(code, q)]
  IN a[p]

-----------------------------------------------------------------------------
(* The least and the most times a repeat takes its item: rep_min, rep_max    *)
(* and the operands of UPTO, EXACT and CRRANGE.                             *)
RepMin(rep, n) == IF rep \in {"PLUS", "MINPLUS", "POSPLUS"} THEN 1
                  ELSE IF rep = "EXACT" THEN n ELSE 0
RepMax(rep, n) ==
  IF rep \in {"STAR", "MINSTAR", "POSSTAR", "PLUS", "MINPLUS", "POSPLUS"}
  THEN INT_MAX
  ELSE IF rep \in {"QUERY", "MINQUERY", "POSQUERY"} THEN 1 ELSE n

\* A class, an extended class or a reference is followed by its repeat.
Once == [op |-> "CR", min |-> 1, max |-> 1, lazy |-> FALSE]
IsRepeated(code, p) == code[p + 1].op = "CR"
Quantifier(code, p) == IF IsRepeated(code, p) THEN code[p + 1] ELSE Once
AfterItem(code, p)  == IF IsRepeated(code, p) THEN p + 2 ELSE p + 1
=============================================================================
