----------------------------- MODULE PcreStudy -----------------------------
(***************************************************************************)
(* pcre_study(): the bytes a match of the compiled pattern may begin with.  *)
(* pcre_exec moves a start on to the next of them.                          *)
(***************************************************************************)
EXTENDS PcreCode, FiniteSetsExt

\* set_bit: the first byte of a character, in both cases if case is ignored.
FirstBytes(c, caseless, utf8) ==
  LET b == CharBytes(c, utf8)[1]
  IN IF caseless /\ b \in Letters THEN {b, Fcc(b)} ELSE {b}

\* The bytes of a character type; VT is no space here.
MappedTypes == {"NOT_DIGIT", "DIGIT", "NOT_WHITESPACE", "WHITESPACE",
                "NOT_WORDCHAR", "WORDCHAR"}
TypeBytes(type) ==
  CASE type = "DIGIT"          -> Cbit("digit")
    [] type = "NOT_DIGIT"      -> Byte \ Cbit("digit")
    [] type = "WHITESPACE"     -> Cbit("space") \ {11}
    [] type = "NOT_WHITESPACE" -> Byte \ (Cbit("space") \ {11})
    [] type = "WORDCHAR"       -> Cbit("word")
    [] type = "NOT_WORDCHAR"   -> Byte \ Cbit("word")

\* In UTF-8 the bytes from 128 on are characters: one whose eighth of the map
\* is not empty sets the lead byte it has.  A negated class takes all the
\* characters past 255.
ClassBytes(class, utf8) ==
  LET eighth(c) == {b \in class.map : b \div 8 = c \div 8}
  IN IF ~utf8 THEN class.map
     ELSE (class.map \cap (0..127))
          \cup {192 + c \div 64 : c \in {d \in 128..255 : eighth(d) # {}}}
          \cup (IF class.op = "NCLASS" THEN 196..255 ELSE {})

-----------------------------------------------------------------------------
(* What one item adds, and whether the scan of its branch is over ("DONE"),  *)
(* goes on ("CONTINUE"), or gives up ("FAIL").                              *)
Adds(rc, bytes) == [rc |-> rc, bytes |-> bytes]
GivesUp == Adds("FAIL", {})

TypeRepeat(item) ==
  CASE item.rep = "POSPLUS" -> GivesUp
    [] item.rep \in {"PLUS", "MINPLUS", "EXACT"} ->
         IF item.type \in MappedTypes THEN Adds("DONE", TypeBytes(item.type)) ELSE GivesUp
    [] OTHER ->
         IF item.type \in {"ANY", "ALLANY"} THEN GivesUp
         ELSE Adds("CONTINUE",
                   IF item.type \in MappedTypes THEN TypeBytes(item.type) ELSE {})

ItemAdds(code, p, caseless, utf8) ==
  LET item == code[p]
  IN CASE item.op \in {"CHAR", "CHARNC"} ->
            Adds("DONE", FirstBytes(item.c, caseless, utf8))
       [] item.op = "CHARREP" ->
            Adds(IF item.rep \in {"PLUS", "MINPLUS", "POSPLUS", "EXACT"} THEN "DONE"
                 ELSE "CONTINUE", FirstBytes(item.c, caseless, utf8))
       [] item.op \in MappedTypes -> Adds("DONE", TypeBytes(item.op))
       [] item.op = "TYPEREP" -> TypeRepeat(item)
       [] item.op \in {"CLASS", "NCLASS"} ->
            Adds(IF Quantifier(code, p).min = 0 THEN "CONTINUE" ELSE "DONE",
                 ClassBytes(item, utf8))
       [] OTHER -> GivesUp

StudiedGroups == {"BRA", "SBRA", "CBRA", "SCBRA", "ONCE", "ASSERT"}
PassedGroups  == {"ASSERT_NOT", "ASSERTBACK", "ASSERTBACK_NOT"}

\* The branch that starts at alt is scanned from p on, then the alternatives
\* after it.  rc is "CONTINUE" if one of them can match nothing; an OPT is in
\* force for the rest of its group.  The number of a group that is repeated
\* though it may match nothing is read as an instruction, and ends the scan.
set_start_bits(code, caseless, utf8) ==
  LET s[alt \in DOMAIN code, p \in DOMAIN code, icase \in BOOLEAN] ==
        LET op     == code[p].op
            group  == IF op = "SCBRA" THEN GivesUp ELSE s[p, p + 1, icase]
            inner  == s[p + 1, p + 2, icase]                \* of a BRAZERO
            past(q) == s[alt, KetOf(code, q) + 1, icase]
            others == IF IsLastAlt(code, alt) THEN Adds("DONE", {})
                      ELSE s[NextAlt(code, alt), NextAlt(code, alt) + 1, icase]
            item   == ItemAdds(code, p, icase, utf8)
            with(first, rest) == [rest EXCEPT !.bytes = @ \cup first.bytes]
            joined(first, rest) == CASE first.rc = "FAIL" -> GivesUp
                                   [] first.rc = "DONE" -> with(first, others)
                                   [] first.rc = "CONTINUE" -> with(first, rest)
        IN CASE op \in KetOps -> Adds("CONTINUE", {})
             [] op = "ALT" -> IF others.rc = "FAIL" THEN GivesUp
                              ELSE [others EXCEPT !.rc = "CONTINUE"]
             [] op = "CALLOUT" -> s[alt, p + 1, icase]
             [] op = "OPT" -> s[alt, p + 1, "CASELESS" \in code[p].ims]
             [] op \in PassedGroups -> past(p)
             [] op = "SKIPZERO" -> past(p + 1)
             [] op \in {"BRAZERO", "BRAMINZERO"} ->
                  IF inner.rc = "FAIL" \/ code[p + 1].op = "SCBRA" THEN GivesUp
                  ELSE with(inner, past(p + 1))
             [] op \in StudiedGroups -> joined(group, past(p))
             [] OTHER -> joined(item, s[alt, AfterItem(code, p), icase])
  IN s[1, 2, caseless]

\* pcre_study: nothing is learnt of a pattern that is anchored or has a first
\* byte, or if a match may begin with anything.
pcre_study(re) ==
  LET scan == set_start_bits(re.code, "CASELESS" \in re.options, "UTF8" \in re.options)
      useful == /\ "ANCHORED" \notin re.options
                /\ re.flags \cap {"FIRSTSET", "STARTLINE"} = {}
                /\ scan.rc = "DONE"
  IN [re EXCEPT !.studied = useful, !.start_bits = IF useful THEN scan.bytes ELSE {}]
=============================================================================
