------------------------------ MODULE PcreScan ------------------------------
(***************************************************************************)
(* What the compiler asks of code it has already produced: the groups and   *)
(* the recursions in it, the length of a lookbehind, whether a group may    *)
(* match an empty string, how every match must begin.  A group that is      *)
(* still open has a link of 0.                                              *)
(***************************************************************************)
EXTENDS PcreCode, FiniteSetsExt, SequencesExt

NoBracket == 0

\* find_bracket, find_recurse: a group by its number, as long as it is not
\* one of those that may match an empty string and are repeated.
find_bracket(code, number) ==
  LET found == {i \in DOMAIN code : code[i].op = "CBRA" /\ code[i].n = number}
  IN IF found = {} THEN NoBracket ELSE Min(found)

find_recurse(code, from) == {i \in from..Len(code) : code[i].op = "RECURSE"}

\* adjust_recurse: k instructions are about to be inserted at group; calls of
\* what comes after are to go on finding it.  Of the calls that wait for a
\* group not compiled yet (hwm, from save_hwm on) the place is adjusted.
adjust_recurse(code, hwm, save_hwm, group, k) ==
  LET waits(i) == \E h \in (save_hwm + 1)..Len(hwm) : hwm[h] = i
      calls == find_recurse(code, group)
  IN [code |-> [i \in DOMAIN code |->
                  IF i \in calls /\ ~waits(i) /\ code[i].link >= group
                  THEN [code[i] EXCEPT !.link = @ + k] ELSE code[i]],
      hwm  |-> [h \in DOMAIN hwm |->
                  IF h > save_hwm /\ hwm[h] \in calls THEN hwm[h] + k ELSE hwm[h]]]

-----------------------------------------------------------------------------
\* first_significant_code: from p past what matches nothing.  The options are
\* those that an OPT on the way leaves, when bit is the one of interest.
first_significant_code(code, p, options, bit, skipassert) ==
  LET f[q \in p..(Len(code) + 1), opts \in SUBSET {"CASELESS", "MULTILINE", "DOTALL"}] ==
        LET here == [ptr |-> q, options |-> opts]
        IN IF q > Len(code) THEN here
           ELSE CASE code[q].op = "OPT" ->
                       f[q + 1, IF bit # "none" /\ (bit \in code[q].ims) # (bit \in opts)
                                THEN code[q].ims ELSE opts]
                  [] code[q].op \in {"ASSERT_NOT", "ASSERTBACK", "ASSERTBACK_NOT"} ->
                       IF skipassert THEN f[KetOf(code, q) + 1, opts] ELSE here
                  [] code[q].op \in {"WORD_BOUNDARY", "NOT_WORD_BOUNDARY"} ->
                       IF skipassert THEN f[q + 1, opts] ELSE here
                  [] code[q].op \in {"CALLOUT"} \cup ConditionOps -> f[q + 1, opts]
                  [] OTHER -> here
  IN f[p, options]

-----------------------------------------------------------------------------
(* find_fixedlength: the characters that every match of the branch at p has; *)
(* -1 if they are not always as many, -2 if the branch has \C.              *)
NotFixed == -1
HasAnyByte == -2
ZeroWidth == SimpleAssertions \cup ConditionOps \cup {"REVERSE", "OPT", "CALLOUT"}
FixedTypes == CharTypes \ {"ANYBYTE", "ANYNL", "HSPACE", "NOT_HSPACE", "VSPACE",
                           "NOT_VSPACE"}

find_fixedlength(code, p) ==
  LET f[cc \in 1..(Len(code) + 1), length \in Int, sofar \in Int] ==
        LET op == IF cc > Len(code) THEN "END" ELSE code[cc].op
            add(n, next) == f[next, length, sofar + n]
        IN CASE op \in {"BRA", "CBRA", "ONCE", "COND"} ->
                  LET d == f[cc + 1, NotFixed, 0]
                  IN IF d < 0 THEN d ELSE add(d, KetOf(code, cc) + 1)
             [] op \in {"ALT", "END"} \cup KetOps ->
                  IF length >= 0 /\ length # sofar THEN NotFixed
                  ELSE IF op = "ALT" THEN f[cc + 1, sofar, 0] ELSE sofar
             [] op \in LookOps -> add(0, KetOf(code, cc) + 1)
             [] op \in ZeroWidth -> add(0, cc + 1)
             [] op \in {"CHAR", "CHARNC", "NOT"} \cup FixedTypes -> add(1, cc + 1)
             [] op \in {"CHARREP", "TYPEREP"} ->
                  IF code[cc].rep = "EXACT" THEN add(code[cc].n, cc + 1) ELSE NotFixed
             [] op = "ANYBYTE" -> HasAnyByte
             [] op \in ClassOps ->
                  IF cc = Len(code) \/ ~IsRepeated(code, cc) THEN add(1, cc + 1)
                  ELSE IF code[cc + 1].min = code[cc + 1].max
                  THEN add(code[cc + 1].min, cc + 2) ELSE NotFixed
             [] OTHER -> NotFixed
  IN f[p + 1, NotFixed, 0]

-----------------------------------------------------------------------------
(* could_be_empty_branch: whether the branch that starts at p can match      *)
(* nothing, as far as the code goes that lies before end.                   *)
AlwaysTakes == (CharTypes \cup {"CHAR", "CHARNC", "NOT"}) \ {"ANYNL", "HSPACE",
                 "NOT_HSPACE", "VSPACE", "NOT_VSPACE"}

could_be_empty_branch(code, p, end) ==
  LET e[q \in 1..(Len(code) + 1)] ==                    \* the code from q on
        LET i == first_significant_code(code, q, {}, "none", TRUE).ptr
        IN IF i >= end THEN TRUE
           ELSE CASE code[i].op = "ASSERT" -> e[KetOf(code, i) + 1]
                  [] code[i].op \in {"BRAZERO", "BRAMINZERO", "SKIPZERO"} ->
                       e[KetOf(code, i + 1) + 1]
                  [] code[i].op \in {"BRA", "CBRA", "ONCE", "COND"} ->
                       \/ code[i].link = 0
                       \/ /\ \E alt \in Range(Alternatives(code, i)) : e[alt + 1]
                          /\ e[KetOf(code, i) + 1]
                  [] code[i].op \in ClassOps ->
                       Quantifier(code, i).min = 0 /\ e[AfterItem(code, i)]
                  [] code[i].op \in AlwaysTakes -> FALSE
                  [] code[i].op \in RepOps ->
                       /\ code[i].rep # "EXACT" /\ RepMin(code[i].rep, code[i].n) = 0
                       /\ e[i + 1]
                  [] code[i].op \in {"ALT"} \cup KetOps -> TRUE
                  [] OTHER -> e[i + 1]
  IN e[p + 1]

\* could_be_empty: in every branch being compiled, from the group on.
could_be_empty(code, group, end, current) ==
  \A i \in DOMAIN current :
    (\A j \in 1..i : current[j] >= group) => could_be_empty_branch(code, current[i], end)

-----------------------------------------------------------------------------
(* How every match begins.  The options are threaded through the groups in   *)
(* the order in which they are looked at, as the code does by a pointer.    *)
MapBit(n) == IF n < 32 THEN n ELSE 0
Starred(ins, type) == ins.op = "TYPEREP" /\ ins.type = type
                      /\ ins.rep \in {"STAR", "MINSTAR", "POSSTAR"}

is_anchored(code, start, startoptions, backref_map) ==
  LET a[p \in 1..Len(code), opts \in SUBSET {"CASELESS", "MULTILINE", "DOTALL"},
        map \in SUBSET (0..31)] ==
        LET f    == first_significant_code(code, p + 1, opts, "MULTILINE", FALSE)
            s    == code[f.ptr]
            here ==
              CASE s.op \in {"BRA", "ASSERT", "ONCE", "COND"} -> a[f.ptr, f.options, map]
                [] s.op = "CBRA" -> a[f.ptr, f.options, map \cup {MapBit(s.n)}]
                [] s.op \in {"SOD", "SOM"} -> [yes |-> TRUE, options |-> f.options]
                [] s.op = "CIRC" ->
                     [yes |-> "MULTILINE" \notin f.options, options |-> f.options]
                [] OTHER -> [yes |-> Starred(s, "ALLANY") /\ map \cap backref_map = {},
                             options |-> f.options]
        IN IF ~here.yes \/ IsLastAlt(code, p) THEN here
           ELSE a[NextAlt(code, p), here.options, map]
  IN a[start, startoptions, {}]

is_startline(code, start, backref_map) ==
  LET l[p \in 1..Len(code), map \in SUBSET (0..31)] ==
        LET q == first_significant_code(code, p + 1, {}, "none", FALSE).ptr
            s == code[q]
        IN /\ CASE s.op \in {"BRA", "ASSERT", "ONCE", "COND"} -> l[q, map]
                [] s.op = "CBRA" -> l[q, map \cup {MapBit(s.n)}]
                [] s.op = "CIRC" -> TRUE
                [] OTHER -> Starred(s, "ANY") /\ map \cap backref_map = {}
           /\ IsLastAlt(code, p) \/ l[NextAlt(code, p), map]
  IN l[start, {}]

\* A byte that an assertion at the start of every alternative demands, with
\* whether case matters; -1 if there is none.  The number of a capturing
\* group is read as its first instruction, which ends the search.
NoChar == [c |-> -1, caseless |-> FALSE]
find_firstassertedchar(code, start, startoptions, utf8) ==
  LET d[p \in 1..Len(code), opts \in SUBSET {"CASELESS", "MULTILINE", "DOTALL"},
        inassert \in BOOLEAN, c \in [c : -1..255, caseless : BOOLEAN]] ==
        LET f == first_significant_code(code, p + 1, opts, "CASELESS", TRUE)
            s == code[f.ptr]
            sub == d[f.ptr, f.options, s.op = "ASSERT", NoChar]
            taken == \/ s.op \in {"CHAR", "CHARNC"}
                     \/ /\ s.op = "CHARREP"
                        /\ s.rep \in {"EXACT", "PLUS", "MINPLUS", "POSPLUS"}
            byte == CharBytes(s.c, utf8)[1]
            next(found, o) == IF IsLastAlt(code, p) THEN [char |-> found, options |-> o]
                              ELSE d[NextAlt(code, p), o, inassert, found]
            none == [char |-> NoChar, options |-> f.options]
        IN CASE code[p].op = "CBRA" -> none
             [] s.op \in {"BRA", "CBRA", "ASSERT", "ONCE", "COND"} /\ code[p].op # "CBRA" ->
                  IF sub.char.c < 0 \/ (c.c >= 0 /\ c # sub.char) THEN none
                  ELSE next(sub.char, sub.options)
             [] taken /\ code[p].op # "CBRA" ->
                  IF ~inassert \/ (c.c >= 0 /\ c # [c |-> byte, caseless |-> FALSE])
                  THEN none
                  ELSE next(IF c.c >= 0 THEN c
                            ELSE [c |-> byte, caseless |-> "CASELESS" \in f.options],
                            f.options)
             [] OTHER -> none
  IN d[start, startoptions, FALSE, NoChar].char
=============================================================================
