--------------------------- MODULE PatternMeaning ---------------------------
(***************************************************************************)
(* What a pattern means, apart from how it is compiled and matched: a       *)
(* pattern is a tree, its text is what an application passes, and its       *)
(* meaning on a subject is the sequence of its matches from a place, in the *)
(* order in which a Perl-compatible engine must prefer them.                *)
(***************************************************************************)
EXTENDS PcreLex, SequencesExt

-----------------------------------------------------------------------------
(* The trees.  Groups carry the number that their place in the text gives    *)
(* them.  max is Unlimited for a repeat without a limit; suffix is "", "?"   *)
(* (lazy) or "+" (possessive).                                              *)
Unlimited == -1
Str(string)      == [kind |-> "chars", text |-> Bytes(string)]
AnyOf(string, set) == [kind |-> "set", text |-> Bytes(string), set |-> set]
Place(string)    == [kind |-> "place", text |-> Bytes(string), name |-> string]
Cat(parts)       == [kind |-> "cat", parts |-> parts]
Alt(parts)       == [kind |-> "alt", parts |-> parts]
Rep(part, quantifier, min, max, suffix) ==
  [kind |-> "rep", part |-> part, min |-> min, max |-> max, suffix |-> suffix,
   text |-> Bytes(quantifier)]
Group(n, part)   == [kind |-> "group", n |-> n, part |-> part]
Plain(part)      == [kind |-> "plain", part |-> part, text |-> Bytes("(?:")]
Atom(part)       == [kind |-> "atom", part |-> part, text |-> Bytes("(?>")]
Look(part)       == [kind |-> "look", part |-> part, text |-> Bytes("(?=")]
LookNot(part)    == [kind |-> "looknot", part |-> part, text |-> Bytes("(?!")]
Back(part)       == [kind |-> "back", part |-> part, text |-> Bytes("(?<=")]
BackNot(part)    == [kind |-> "backnot", part |-> part, text |-> Bytes("(?<!")]
Ref(n)           == [kind |-> "ref", n |-> n]
CallOf(n)        == [kind |-> "call", n |-> n]
IfSet(n, yes, no) == [kind |-> "if", n |-> n, yes |-> yes, no |-> no]

NumberText(n) == <<Ord["0"] + n>>

RECURSIVE TextOf(_)
TextOf(t) ==
  CASE t.kind \in {"chars", "set", "place"} -> t.text
    [] t.kind = "cat" -> FlattenSeq([i \in DOMAIN t.parts |-> TextOf(t.parts[i])])
    [] t.kind = "alt" ->
         Tail(FlattenSeq([i \in DOMAIN t.parts |-> Bytes("|") \o TextOf(t.parts[i])]))
    [] t.kind = "rep" -> TextOf(t.part) \o t.text \o Bytes(t.suffix)
    [] t.kind = "group" -> Bytes("(") \o TextOf(t.part) \o Bytes(")")
    [] t.kind \in {"plain", "atom", "look", "looknot", "back", "backnot"} ->
         t.text \o TextOf(t.part) \o Bytes(")")
    [] t.kind = "ref" -> Bytes("\\") \o NumberText(t.n)
    [] t.kind = "call" -> Bytes("(?") \o NumberText(t.n) \o Bytes(")")
    [] t.kind = "if" -> Bytes("(?(") \o NumberText(t.n) \o Bytes(")") \o TextOf(t.yes)
                        \o Bytes("|") \o TextOf(t.no) \o Bytes(")")

-----------------------------------------------------------------------------
(* The meaning.  A match is its end and the groups set so far, as pairs of    *)
(* offsets; s is the subject, whole the pattern all calls refer to.         *)
Unset == <<-1, -1>>
Ends(i, caps) == [end |-> i, caps |-> caps]

WordAt(s, i) == i >= 0 /\ i < Len(s) /\ At(s, i) \in Cbit("word")
Holds(name, s, i) ==
  CASE name = "^" -> i = 0
    [] name = "$" -> i = Len(s) \/ (i = Len(s) - 1 /\ At(s, i) = LF)
    [] name = "\\b" -> WordAt(s, i - 1) # WordAt(s, i)
    [] name = "\\B" -> WordAt(s, i - 1) = WordAt(s, i)

RECURSIVE GroupsOf(_)
GroupsOf(t) ==                         \* the groups of a tree, with their number
  CASE t.kind \in {"cat", "alt"} -> UNION {GroupsOf(t.parts[i]) : i \in DOMAIN t.parts}
    [] t.kind = "group" -> {t} \cup GroupsOf(t.part)
    [] t.kind \in {"rep", "plain", "atom", "look", "looknot", "back", "backnot"} ->
         GroupsOf(t.part)
    [] t.kind = "if" -> GroupsOf(t.yes) \cup GroupsOf(t.no)
    [] OTHER -> {}

RECURSIVE Kinds(_)
Kinds(t) ==                            \* the kinds of its items
  {t.kind} \cup
  CASE t.kind \in {"cat", "alt"} -> UNION {Kinds(t.parts[i]) : i \in DOMAIN t.parts}
    [] t.kind \in {"rep", "group", "plain", "atom", "look", "looknot", "back", "backnot"} ->
         Kinds(t.part)
    [] t.kind = "if" -> Kinds(t.yes) \cup Kinds(t.no)
    [] OTHER -> {}

GroupNumbered(whole, n) ==
  IF n = 0 THEN whole ELSE CHOOSE g \in GroupsOf(whole) : g.n = n

FirstOnly(matches) == IF matches = <<>> THEN <<>> ELSE <<Head(matches)>>
\* Each match of the first list is gone on with, in order.
Then(matches, more(_)) == FlattenSeq([k \in DOMAIN matches |-> more(matches[k])])

RECURSIVE Matches(_, _, _, _, _)
RECURSIVE Times(_, _, _, _, _, _)

\* The k-th turn of a repeat, from m on.  A turn past the least number that
\* has matched nothing is the last.
Times(t, k, whole, s, m, icase) ==
  LET turn == Then(Matches(t.part, whole, s, m, icase), LAMBDA r :
                IF r.end = m.end /\ k + 1 >= t.min /\ t.max = Unlimited THEN <<r>>
                ELSE Times(t, k + 1, whole, s, r, icase))
  IN IF k < t.min THEN turn
     ELSE IF k = t.max THEN <<m>>
     ELSE IF t.suffix = "?" THEN <<m>> \o turn ELSE turn \o <<m>>

Matches(t, whole, s, m, icase) ==
  LET i == m.end
      fold(c) == IF icase THEN Lcc(c) ELSE c
      takes(text) == /\ i + Len(text) <= Len(s)
                     /\ \A k \in DOMAIN text : fold(At(s, i + k - 1)) = fold(text[k])
      only(condition, match) == IF condition THEN <<match>> ELSE <<>>
      inside(match) == Matches(t.part, whole, s, match, icase)
  IN CASE t.kind = "chars" -> only(takes(t.text), [m EXCEPT !.end = i + Len(t.text)])
       [] t.kind = "set" -> only(i < Len(s) /\ At(s, i) \in t.set, [m EXCEPT !.end = i + 1])
       [] t.kind = "place" -> only(Holds(t.name, s, i), m)
       [] t.kind = "cat" ->
            IF t.parts = <<>> THEN <<m>>
            ELSE Then(Matches(Head(t.parts), whole, s, m, icase),
                      LAMBDA r : Matches(Cat(Tail(t.parts)), whole, s, r, icase))
       [] t.kind = "alt" ->
            FlattenSeq([k \in DOMAIN t.parts |-> Matches(t.parts[k], whole, s, m, icase)])
       [] t.kind = "rep" -> IF t.suffix = "+" THEN FirstOnly(Times(t, 0, whole, s, m, icase))
                            ELSE Times(t, 0, whole, s, m, icase)
       [] t.kind = "group" ->
            [k \in DOMAIN inside(m) |->
               [inside(m)[k] EXCEPT !.caps[t.n] = <<i, inside(m)[k].end>>]]
       [] t.kind = "plain" -> inside(m)
       [] t.kind = "atom" -> FirstOnly(inside(m))
       [] t.kind = "look" -> Then(FirstOnly(inside(m)), LAMBDA r : <<[r EXCEPT !.end = i]>>)
       [] t.kind = "looknot" -> only(inside(m) = <<>>, m)
       [] t.kind \in {"back", "backnot"} ->
            LET behind == {j \in 0..i : \E k \in DOMAIN inside([m EXCEPT !.end = j]) :
                                          inside([m EXCEPT !.end = j])[k].end = i}
            IN only((behind # {}) = (t.kind = "back"), m)
       [] t.kind = "ref" ->
            LET cap == m.caps[t.n]
                text == SubSeq(s, cap[1] + 1, cap[2])
            IN only(cap # Unset /\ takes(text), [m EXCEPT !.end = i + Len(text)])
       [] t.kind = "call" ->
            Then(FirstOnly(Matches(GroupNumbered(whole, t.n), whole, s, m, icase)),
                 LAMBDA r : <<[m EXCEPT !.end = r.end]>>)
       [] t.kind = "if" ->
            Matches(IF m.caps[t.n] # Unset THEN t.yes ELSE t.no, whole, s, m, icase)

\* All the matches of a pattern that start at i; and the first start that has
\* one, Len(s) + 1 if none has.
MatchesAt(t, s, i, icase) ==
  LET n == Cardinality(GroupsOf(t))
  IN Matches(t, t, s, Ends(i, [k \in 1..n |-> Unset]), icase)

FirstStart(t, s, from, icase) ==
  Min({i \in from..Len(s) : MatchesAt(t, s, i, icase) # <<>>} \cup {Len(s) + 1})

\* Where the matches from i end.
MatchEnds(t, s, i) ==
  LET found == MatchesAt(t, s, i, FALSE)
  IN {found[k].end : k \in DOMAIN found}
=============================================================================
