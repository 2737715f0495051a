------------------------------- MODULE PcreDfa -------------------------------
(***************************************************************************)
(* pcre_dfa_exec(): the other matching function.  It goes through the       *)
(* subject once from a given start and keeps every state the match may be   *)
(* in, so that it finds all the matches from there, the longest first.      *)
(* x is one call of the application: the compiled pattern, the job and the  *)
(* text (m, as in PcreTypes); k is one call of internal_dfa_exec, which     *)
(* calls itself for assertions, atomic groups and subroutines.              *)
(***************************************************************************)
EXTENDS PcreTypes, FiniteSetsExt, SequencesExt

\* A state: an instruction, how many times it has been matched, the options
\* in force, the characters to be skipped before it is looked at (a negative
\* offset in the code).
State(offset, count, ims, data) ==
  [offset |-> offset, count |-> count, ims |-> ims, data |-> data]

\* What one state does: states at this character (popped: the last of them is
\* taken back) and at a later one; a match; a jump over an atomic group's text.
Effect(acts, news) == [acts |-> acts, popped |-> FALSE, news |-> news,
                       matched |-> FALSE, jump |-> 0, again |-> <<>>, err |-> "none"]
Nothing == Effect(<<>>, <<>>)
Refuses(err) == [Nothing EXCEPT !.err = err]

\* What a call answers that has found nothing.
NoAnswer(rc) == [rc |-> rc, count |-> -1, offsets |-> <<>>, saved |-> <<>>]

-----------------------------------------------------------------------------
(* One character against an item.                                           *)
CtypeHolds(type, c) ==
  CASE type = "DIGIT"          -> c \in Ctype("digit")
    [] type = "NOT_DIGIT"      -> c \notin Ctype("digit")
    [] type = "WHITESPACE"     -> c \in Ctype("space")
    [] type = "NOT_WHITESPACE" -> c \notin Ctype("space")
    [] type = "WORDCHAR"       -> c \in Ctype("word")
    [] type = "NOT_WORDCHAR"   -> c \notin Ctype("word")
    [] type \in {"ANY", "ALLANY"} -> TRUE

SpaceTypes == {"ANYNL", "HSPACE", "NOT_HSPACE", "VSPACE", "NOT_VSPACE"}
SpaceHolds(type, m, c) ==
  CASE type = "ANYNL"      -> \/ c \in {LF, CR}
                              \/ c \in VSpaces /\ ~m.bsr_anycrlf
    [] type = "HSPACE"     -> c \in HSpaces
    [] type = "NOT_HSPACE" -> c \notin HSpaces
    [] type = "VSPACE"     -> c \in VSpaces
    [] type = "NOT_VSPACE" -> c \notin VSpaces

\* A single type tests the newline; a repeated one only below 256.
SingleHolds(type, m, e, c) ==
  IF type \in SpaceTypes THEN SpaceHolds(type, m, c)
  ELSE IF type = "ANY" THEN ~AtNewline(m, e)
  ELSE IF c >= 256 THEN type \notin {"DIGIT", "WHITESPACE", "WORDCHAR"}
  ELSE CtypeHolds(type, c)

RepeatedHolds(type, m, e, c) ==
  IF type \in SpaceTypes THEN SpaceHolds(type, m, c)
  ELSE IF c >= 256 THEN type \notin {"DIGIT", "WHITESPACE", "WORDCHAR"}
  ELSE (type # "ANY" \/ ~AtNewline(m, e)) /\ CtypeHolds(type, c)

\* The LF that is skipped after a CR that \R has matched.
Following(type, m, e, c) ==
  IF type = "ANYNL" /\ c = CR /\ ~Ended(m, e + 1) /\ At(m.s, e + 1) = LF THEN 1 ELSE 0

OtherCase(m, d, ims) == IF "CASELESS" \in ims /\ ~(m.utf8 /\ d >= 128) THEN Fcc(d) ELSE d

CharHolds(item, m, c, ims) ==
  LET same == c \in {item.c, OtherCase(m, item.c, ims)}
  IN IF item.op = "CHARREP" THEN same ELSE ~same

CharNcHolds(m, c, d) ==
  IF m.utf8 THEN c = d \/ (c < 128 /\ d = Fcc(c)) ELSE Lcc(c) = Lcc(d)

ClassHolds(item, c) ==
  IF item.op = "XCLASS" THEN XClass(c, item)
  ELSE IF c > 255 THEN item.op = "NCLASS" ELSE c \in item.map

-----------------------------------------------------------------------------
(* The repeats.  taken: the present character is one more of the item.      *)
TakesNothingBack(rep, acts) == FALSE                                   \* a mutant

TakesBack(rep, acts) == rep \in PossessiveReps /\ acts # <<>>

RepeatEffect(st, rep, n, taken, data) ==
  LET next      == State(st.offset + 1, 0, st.ims, 0)
      one(s)    == <<[s EXCEPT !.data = data]>>
      more      == one([st EXCEPT !.count = @ + 1])
      enough    == IF st.count + 1 >= n THEN one(next) ELSE more
      acts == IF rep = "EXACT" \/ (st.count = 0 /\ rep \in {"PLUS", "MINPLUS", "POSPLUS"})
              THEN <<>> ELSE <<next>>
      news == CASE rep \in {"PLUS", "MINPLUS", "POSPLUS"}    -> more
                [] rep \in {"QUERY", "MINQUERY", "POSQUERY"} -> one(next)
                [] rep \in {"STAR", "MINSTAR", "POSSTAR"}    -> one(st)
                [] rep \in {"EXACT", "UPTO", "MINUPTO", "POSUPTO"} -> enough
  IN IF ~taken THEN Effect(acts, <<>>)
     ELSE [Effect(acts, news) EXCEPT !.popped = TakesBack(rep, acts)]

ClassEffect(code, st, taken) ==
  LET q    == Quantifier(code, st.offset)
      next == State(AfterItem(code, st.offset), 0, st.ims, 0)
      more == [st EXCEPT !.count = @ + 1]
      if(holds, s) == IF holds THEN <<s>> ELSE <<>>
  IN CASE ~IsRepeated(code, st.offset) -> Effect(<<>>, if(taken, next))
       [] IsRepeated(code, st.offset) /\ q.min = 0 /\ q.max = INT_MAX ->
            Effect(<<next>>, if(taken, [st EXCEPT !.count = 0]))
       [] IsRepeated(code, st.offset) /\ q.min = 1 /\ q.max = INT_MAX ->
            Effect(if(st.count > 0, next), if(taken, more))
       [] IsRepeated(code, st.offset) /\ q.min = 0 /\ q.max = 1 ->
            Effect(<<next>>, if(taken, next))
       [] OTHER -> Effect(if(st.count >= q.min, next),
                          if(taken, IF st.count + 1 >= q.max THEN next ELSE more))

-----------------------------------------------------------------------------
(* The assertions that look around the present character.  After a jump over *)
(* an atomic group's text there is none (more is FALSE), as at the end.      *)
IsWord(m, e) == CharAt(m, e) < 256 /\ CharAt(m, e) \in Ctype("word")

AssertionHolds(x, k, op, ims, e, more) ==
  LET m   == x.m
      nl  == NewlineLen(m.s, e, m.nl, m.utf8)
      final == nl > 0 /\ e = Len(m.s) - nl
      left  == e > 0 /\ IsWord(m, IF m.utf8 THEN BACKCHAR(m.s, e - 1) ELSE e - 1)
      right == more /\ IsWord(m, e)
      multi == "MULTILINE" \in ims
  IN CASE op = "CIRC" -> \/ e = 0 /\ "NOTBOL" \notin x.job.options
                         \/ multi /\ ~Ended(m, e) /\ WAS_NEWLINE(m.s, e, m.nl, m.utf8)
       [] op = "EOD"  -> Ended(m, e)
       [] op = "SOD"  -> e = 0
       [] op = "SOM"  -> e = k.start_offset
       [] op = "EODN" -> ~more \/ final
       [] op = "DOLL" -> IF "NOTEOL" \in x.job.options THEN multi /\ nl > 0
                         ELSE ~more \/ (nl > 0 /\ multi) \/ final
       [] op = "WORD_BOUNDARY"     -> left # right
       [] op = "NOT_WORD_BOUNDARY" -> left = right

-----------------------------------------------------------------------------
(* The states a call begins with: those of its alternatives, of a lookbehind *)
(* from as far back as the longest of them.                                 *)
GoneBack(m, from, n) ==
  LET b[j \in 0..n] == IF j = 0 THEN [at |-> from, gone |-> 0]
                       ELSE LET e == b[j - 1]
                            IN IF e.at <= 0 THEN e
                               ELSE [at |-> IF m.utf8 THEN BACKCHAR(m.s, e.at - 1)
                                            ELSE e.at - 1, gone |-> j]
  IN b[n]

\* In an alternative that begins with an option setting the code reads that
\* and the opcode after it (92) as the distance.
OptionBits(ims) == (IF "CASELESS" \in ims THEN 1 ELSE 0)
                   + (IF "MULTILINE" \in ims THEN 2 ELSE 0)
                   + (IF "DOTALL" \in ims THEN 4 ELSE 0)
BackOf(first) == CASE first.op = "REVERSE" -> first.n
                   [] first.op = "OPT" -> 256 * OptionBits(first.ims) + 92
                   [] OTHER -> 0

FirstStates(x, k) ==
  LET code  == x.re.code
      alts  == Alternatives(code, k.start)
      backs == [j \in DOMAIN alts |-> BackOf(code[alts[j] + 1])]
      back  == GoneBack(x.m, k.from, Max(Range(backs)))
  IN IF code[k.start + 1].op = "REVERSE"
     THEN LET near == SelectSeq([j \in DOMAIN alts |-> j],
                                LAMBDA j : backs[j] <= back.gone)
          IN [from |-> back.at,
              new  |-> [j \in DOMAIN near |->
                          State(alts[near[j]] + 2, 0, k.ims, back.gone - backs[near[j]])]]
     ELSE [from |-> k.from,
           new  |-> IF k.rlevel = 1 /\ "DFA_RESTART" \in x.job.options THEN x.job.saved
                    ELSE [j \in DOMAIN alts |-> State(alts[j] + 1, 0, k.ims, 0)]]

\* A call from state st at the character at e, with room for count offsets.
InnerCall(k, start, e, count, st, recursing) ==
  [start |-> start, from |-> e, start_offset |-> e, offsetcount |-> count,
   wscount |-> 124, ims |-> st.ims, rlevel |-> k.rlevel + 1, recursing |-> recursing]

Characters(m, pair) ==
  Cardinality({e \in pair[1]..(pair[2] - 1) : ~Trails(At(m.s, e))})

\* The matches of a call as ends to go on from: st at the character itself
\* for an empty one, or after the text.
AfterMatches(m, pairs, next) ==
  LET lengths == [j \in DOMAIN pairs |-> Characters(m, pairs[Len(pairs) + 1 - j])]
      longer  == SelectSeq(lengths, LAMBDA n : n > 0)
      empty   == SelectSeq(lengths, LAMBDA n : n <= 0)
  IN Effect([j \in DOMAIN empty |-> next],
            [j \in DOMAIN longer |-> [next EXCEPT !.data = longer[j] - 1]])

-----------------------------------------------------------------------------
(* internal_dfa_exec.  c is where a call is: the states of the present       *)
(* character (i: the one to be looked at) and of the next, the matches found,*)
(* and the states it began the character with, which a restart goes on from.*)
RECURSIVE internal_dfa_exec(_, _)

Looks(x, k, p, c, st) ==                      \* the assertion at p matches
  internal_dfa_exec(x, InnerCall(k, p, c.ptr, 2, st, k.recursing)).rc = "MATCH"
Positive(op) == op \in {"ASSERT", "ASSERTBACK"}

ConditionEffect(x, k, c, st) ==
  LET code == x.re.code
      p    == st.offset
      if   == code[p + 1]
      to(q) == Effect(<<State(q, 0, st.ims, 0)>>, <<>>)
      unmet == to(NextAlt(code, p) + 1)
  IN CASE if.op = "CREF" \/ (if.op = "RREF" /\ if.n # RREF_ANY) -> Refuses("DFA_UCOND")
       [] if.op = "DEF" -> unmet
       [] if.op = "RREF" /\ if.n = RREF_ANY ->
            IF k.recursing > 0 THEN to(p + 2) ELSE unmet
       [] OTHER -> IF Looks(x, k, p + 1, c, st) = Positive(if.op)
                   THEN to(KetOf(code, p + 1) + 1) ELSE unmet

AfterRecursion(x, st, call) ==
  CASE call.rc = "NOMATCH" -> Nothing
    [] call.rc = "MATCH" /\ call.count = 0 -> Refuses("DFA_RECURSE")
    [] call.rc = "MATCH" /\ call.count > 0 ->
         AfterMatches(x.m, call.offsets, State(st.offset + 1, 0, st.ims, 0))
    [] OTHER -> Refuses(call.rc)

RecurseEffect(x, k, c, st) ==
  AfterRecursion(x, st,
    internal_dfa_exec(x, InnerCall(k, x.re.code[st.offset].link, c.ptr, 1000, st,
                                   k.recursing + 1)))

\* The longest match of an atomic group.  If nothing else is going on the
\* subject is jumped over at once, and the group repeated from there.
AfterAtomic(x, c, st, call) ==
  LET code   == x.re.code
      ket    == KetOf(code, st.offset)
      pair   == call.offsets[1]
      next   == State(ket + 1, 0, st.ims, 0)
      again  == IF code[ket].op = "KET" THEN <<>>
                ELSE <<State(ket - code[ket].link, 0, st.ims, 0)>>
      later(s) == [s EXCEPT !.data = Characters(x.m, pair) - 1]
  IN CASE call.rc = "NOMATCH" -> Nothing
       [] call.rc = "MATCH" ->
            IF pair[1] = pair[2] THEN Effect(<<next>>, <<>>)
            ELSE IF c.i = Len(c.active) /\ c.new = <<>>
            THEN [Effect(<<>>, <<next>>) EXCEPT !.jump = pair[2] - pair[1], !.again = again]
            ELSE Effect(<<>>, [j \in 1..(1 + Len(again)) |->
                                 later((<<next>> \o again)[j])])
       [] OTHER -> Refuses(call.rc)

AtomicEffect(x, k, c, st) ==
  AfterAtomic(x, c, st,
    internal_dfa_exec(x, InnerCall(k, st.offset, c.ptr, 2, st, k.recursing)))

CalloutEffect(x, next) ==
  CASE x.job.callout = "go"   -> Effect(<<next>>, <<>>)
    [] x.job.callout = "stop" -> Refuses("CALLOUT")
    [] x.job.callout \in {"fail", "none"} -> Nothing

ItemEffect(x, c, st) ==
  LET code == x.re.code
      item == code[st.offset]
      m    == x.m
      e    == c.ptr
      ch   == CharAt(m, e)
      next == State(st.offset + 1, 0, st.ims, 0)
      if(holds) == IF c.more /\ holds THEN Effect(<<>>, <<next>>) ELSE Nothing
  IN CASE item.op = "ANYBYTE" -> Refuses("DFA_UITEM")
       [] item.op \in CharTypes \ {"ANYBYTE"} ->
            IF c.more /\ SingleHolds(item.op, m, e, ch)
            THEN Effect(<<>>, <<[next EXCEPT !.data = Following(item.op, m, e, ch)]>>)
            ELSE Nothing
       [] item.op = "CHAR"   -> if(ch = item.c)
       [] item.op = "CHARNC" -> if(CharNcHolds(m, ch, item.c))
       [] item.op = "NOT" ->
            if(ch # item.c /\ ch # (IF "CASELESS" \in st.ims THEN Fcc(item.c) ELSE item.c))
       [] item.op = "TYPEREP" ->
            IF item.type = "ANYBYTE" THEN Refuses("DFA_UITEM")
            ELSE RepeatEffect(st, item.rep, item.n,
                              c.more /\ RepeatedHolds(item.type, m, e, ch),
                              Following(item.type, m, e, ch))
       [] item.op \in {"CHARREP", "NOTREP"} ->
            RepeatEffect(st, item.rep, item.n, c.more /\ CharHolds(item, m, ch, st.ims), 0)
       [] item.op \in ClassOps -> ClassEffect(code, st, c.more /\ ClassHolds(item, ch))

GroupEffect(x, k, c, st) ==
  LET code == x.re.code
      p    == st.offset
      item == code[p]
      to(q) == State(q, 0, st.ims, 0)
      alts  == Alternatives(code, p)
      past  == to(KetOf(code, p + 1) + 1)
  IN CASE item.op \in KetOps /\ p # KetOf(code, k.start) ->
            Effect(<<to(p + 1)>> \o (IF item.op = "KET" THEN <<>> ELSE <<to(p - item.link)>>),
                   <<>>)
       [] item.op \in KetOps /\ p = KetOf(code, k.start) ->
            [Nothing EXCEPT !.matched = c.ptr > c.from \/ "NOTEMPTY" \notin x.job.options]
       [] item.op = "ALT" -> Effect(<<to(KetOf(code, p))>>, <<>>)
       [] item.op \in {"BRA", "SBRA"} \cup CaptureOps ->
            Effect([j \in DOMAIN alts |-> to(alts[j] + 1)], <<>>)
       [] item.op \in {"BRAZERO", "BRAMINZERO"} -> Effect(<<to(p + 1), past>>, <<>>)
       [] item.op = "SKIPZERO" -> Effect(<<past>>, <<>>)
       [] item.op \in LookOps ->
            IF Looks(x, k, p, c, st) = Positive(item.op)
            THEN Effect(<<to(KetOf(code, p) + 1)>>, <<>>) ELSE Nothing
       [] item.op \in {"COND", "SCOND"} -> ConditionEffect(x, k, c, st)
       [] item.op = "ONCE" -> AtomicEffect(x, k, c, st)

StateEffect(x, k, c, st) ==
  LET item == x.re.code[st.offset]
      next == State(st.offset + 1, 0, st.ims, 0)
  IN CASE item.op \in KetOps \cup BracketOps
                      \cup {"ALT", "BRAZERO", "BRAMINZERO", "SKIPZERO"} ->
            GroupEffect(x, k, c, st)
       [] item.op \in SimpleAssertions ->
            IF AssertionHolds(x, k, item.op, st.ims, c.ptr, c.more)
            THEN Effect(<<next>>, <<>>) ELSE Nothing
       [] item.op = "OPT" -> Effect(<<[next EXCEPT !.ims = item.ims]>>, <<>>)
       [] item.op = "RECURSE" -> RecurseEffect(x, k, c, st)
       [] item.op = "CALLOUT" -> CalloutEffect(x, next)
       [] item.op = "FAIL" -> Nothing
       [] item.op \in CharTypes \cup RepOps \cup ClassOps \cup {"CHAR", "CHARNC", "NOT"} ->
            ItemEffect(x, c, st)
       [] OTHER -> Refuses("DFA_UITEM")

\* A match goes to the front of the vector; when that is full the count is 0
\* and the shortest is lost.
Recorded(k, c) ==
  LET pairs == k.offsetcount \div 2
      more  == CASE c.count < 0 -> IF pairs >= 1 THEN 1 ELSE 0
                 [] c.count > 0 -> IF c.count + 1 >= pairs THEN 0 ELSE c.count + 1
                 [] c.count = 0 -> 0
      found == <<<<c.from, c.ptr>>>> \o c.offsets
  IN [c EXCEPT !.count = more, !.rc = "MATCH",
               !.offsets = SubSeq(found, 1, Min({Len(found), pairs}))]

AfterEffect(x, k, c, f) ==
  LET active == c.active \o f.acts
      kept   == IF f.popped THEN SubSeq(active, 1, Len(active) - 1) ELSE active
      new    == c.new \o f.news
      on     == [c EXCEPT !.active = kept, !.new = new, !.i = @ + 1]
  IN CASE f.err # "none" -> [c EXCEPT !.rc = f.err, !.over = TRUE]
       [] f.err = "none" /\ (Len(active) > k.wscount \/ Len(new) > k.wscount) ->
            [c EXCEPT !.rc = "DFA_WSSIZE", !.over = TRUE]
       [] f.matched -> [Recorded(k, on) EXCEPT !.over = "DFA_SHORTEST" \in x.job.options]
       [] f.jump > 0 -> [on EXCEPT !.ptr = @ + f.jump, !.more = FALSE,
                                   !.active = IF f.again # <<>> THEN f.again ELSE @,
                                   !.i = IF f.again # <<>> THEN 1 ELSE @]
       [] OTHER -> on

Duplicate(c) ==
  \E j \in 1..(c.i - 1) : /\ c.active[j].offset = c.active[c.i].offset
                          /\ c.active[j].count = c.active[c.i].count
                          /\ c.active[j].data = 0

RECURSIVE ActiveStates(_, _, _)
ActiveStates(x, k, c) ==
  LET st == c.active[c.i]
      effect == IF st.data > 0 THEN Effect(<<>>, <<[st EXCEPT !.data = @ - 1]>>)
                ELSE StateEffect(x, k, c, st)
  IN IF c.over \/ c.i > Len(c.active) THEN c
     ELSE ActiveStates(x, k, IF st.data <= 0 /\ Duplicate(c) THEN [c EXCEPT !.i = @ + 1]
                             ELSE AfterEffect(x, k, c, effect))

\* The call ends with no state left: begun are those it had here, and what it
\* has made of them is kept for a restart.
KeptForNext(begun, done) == [done EXCEPT !.saved = done.new]           \* a mutant

Kept(begun, done) ==
  [done EXCEPT !.saved = [j \in DOMAIN begun |->
     IF j <= Len(done.active) THEN done.active[j] ELSE begun[j]]]

Ending(x, k, begun, done) ==
  LET partial == /\ done.count < 0 /\ k.rlevel = 1 /\ "PARTIAL" \in x.job.options
                 /\ done.ptr >= Len(x.m.s) /\ done.ptr > done.from
      kept == Kept(begun, done)
  IN IF partial
     THEN [kept EXCEPT !.rc = "PARTIAL",
                       !.offsets = IF k.offsetcount < 2 THEN <<>>
                                   ELSE <<<<done.from, Len(x.m.s)>>>>]
     ELSE kept

\* One character after another, until no state is left.
RECURSIVE Characterwise(_, _, _)
Characterwise(x, k, c) ==
  LET after(begun, done) ==
        IF done.over THEN done
        ELSE IF done.new = <<>> THEN Ending(x, k, begun, done)
        ELSE Characterwise(x, k,
               [done EXCEPT !.ptr = IF done.more THEN CharEnd(x.m, @) ELSE @])
  IN after(c.new, ActiveStates(x, k, [c EXCEPT !.active = c.new, !.new = <<>>, !.i = 1,
                                               !.more = ~Ended(x.m, c.ptr)]))

internal_dfa_exec(x, k) ==
  LET first == FirstStates(x, k)
  IN IF Len(first.new) > k.wscount
     THEN NoAnswer("DFA_WSSIZE")
     ELSE Characterwise(x, k,
            [active |-> <<>>, new |-> first.new, i |-> 1, from |-> first.from,
             ptr |-> first.from, more |-> FALSE, over |-> FALSE, rc |-> "NOMATCH",
             count |-> -1, offsets |-> <<>>, saved |-> <<>>])

-----------------------------------------------------------------------------
(* pcre_dfa_exec: the checks, and the starts one after another.             *)
PublicDfaOptions == {"ANCHORED", "NOTBOL", "NOTEOL", "NOTEMPTY", "NO_UTF8_CHECK",
                     "PARTIAL", "DFA_SHORTEST", "DFA_RESTART"}

BadDfaCall(re, j) ==
  LET checked == "UTF8" \in re.options /\ "NO_UTF8_CHECK" \notin j.options
  IN CASE ~(j.options \subseteq PublicDfaOptions) -> "BADOPTION"
       [] j.offsetcount < 0 -> "BADCOUNT"
       [] j.wscount < 20 -> "DFA_WSSIZE"
       [] j.limited -> "DFA_UMLIMIT"
       [] j.newline = "bad" -> "BADNEWLINE"
       [] checked /\ ValidUtf8(j.subject) >= 0 -> "BADUTF8"
       [] checked /\ j.start_offset > 0 /\ j.start_offset < Len(j.subject)
          /\ Trails(At(j.subject, j.start_offset)) -> "BADUTF8_OFFSET"
       [] OTHER -> "none"

DfaText(re, j) ==
  LET name == IF j.newline # "none" THEN j.newline
              ELSE IF re.newline # "none" THEN re.newline ELSE "lf"
      bsr  == IF j.bsr # "none" THEN j.bsr ELSE re.bsr
  IN [s |-> j.subject, nl |-> Newline[name], utf8 |-> "UTF8" \in re.options,
      bsr_anycrlf |-> bsr = "anycrlf"]

Unmoving(x) == {"ANCHORED", "DFA_RESTART"} \cap (x.job.options \cup x.re.options) # {}

\* Where a match may start, from e on.
DfaStart(x, e) ==
  LET m     == x.m
      split(q) == m.utf8 /\ Trails(At(m.s, q))
      ends  == {q \in e..Len(m.s) : ~split(q) /\ AtNewline(m, q)}
      end   == IF "FIRSTLINE" \in x.re.options THEN Min(ends \cup {Len(m.s)}) ELSE Len(m.s)
      first(holds(_)) == Min({end} \cup {q \in e..end : holds(q)})
      byte(q) == LET c == At(m.s, q)
                 IN IF x.re.first_byte.caseless THEN Lcc(c) = Lcc(x.re.first_byte.c)
                    ELSE c = x.re.first_byte.c
      line(q) == ~split(q) /\ WAS_NEWLINE(m.s, q, m.nl, m.utf8)
      start   == first(line)
  IN IF "DFA_RESTART" \in x.job.options \/ e >= end THEN e
     ELSE IF ~Unmoving(x) /\ "FIRSTSET" \in x.re.flags THEN first(byte)
     ELSE IF "STARTLINE" \in x.re.flags /\ e > x.job.start_offset
     THEN IF /\ At(m.s, start - 1) = CR /\ m.nl.type # "FIXED"
             /\ start < end /\ At(m.s, start) = LF
          THEN start + 1 ELSE start
     ELSE e

\* The required byte from start on, searched for only past the place known.
Absent == -2
DfaRequired(x, start, known) ==
  LET p == start + (IF ~Unmoving(x) /\ "FIRSTSET" \in x.re.flags THEN 1 ELSE 0)
      wanted == IF x.re.req_byte.caseless THEN {x.re.req_byte.c, Fcc(x.re.req_byte.c)}
                ELSE {x.re.req_byte.c}
      places == {q \in p..(Len(x.m.s) - 1) : At(x.m.s, q) \in wanted}
  IN IF "REQCHSET" \notin x.re.flags \/ Len(x.m.s) - start >= 1000
        \/ "PARTIAL" \in x.job.options \/ p <= known
     THEN known
     ELSE IF places = {} THEN Absent ELSE Min(places)

\* The call of internal_dfa_exec for one start, and the next start.
DfaCallAt(x, start) ==
  internal_dfa_exec(x,
    [start |-> 1, from |-> start, start_offset |-> x.job.start_offset,
     offsetcount |-> x.job.offsetcount, wscount |-> (x.job.wscount - 2) \div 8,
     ims |-> x.re.options \cap {"CASELESS", "MULTILINE", "DOTALL"},
     rlevel |-> 1, recursing |-> 0])

PastNewlineSplit(x, on) ==
  IF /\ At(x.m.s, on - 1) = CR /\ on < Len(x.m.s) /\ At(x.m.s, on) = LF
     /\ "HASCRORLF" \notin x.re.flags
     /\ x.m.nl.type # "FIXED" \/ Len(x.m.nl.nl) = 2
  THEN on + 1 ELSE on

RECURSIVE DfaStarts(_, _, _)
DfaStarts(x, e, known) ==
  LET on(start) == IF x.m.utf8 THEN SkipTrails(x.m, start + 1) ELSE start + 1
      over(start) == \/ "FIRSTLINE" \in x.re.options /\ AtNewline(x.m, start)
                     \/ on(start) > Len(x.m.s)
      after(start, required, call) ==
        IF call.rc # "NOMATCH" \/ Unmoving(x) THEN call
        ELSE IF over(start) THEN NoAnswer("NOMATCH")
        ELSE DfaStarts(x, PastNewlineSplit(x, on(start)), required)
      from(start, required) ==
        IF required = Absent THEN NoAnswer("NOMATCH")
        ELSE after(start, required, DfaCallAt(x, start))
      begin(start) == from(start, DfaRequired(x, start, known))
  IN begin(DfaStart(x, e))

DfaAnswer(c) == [rc |-> c.rc, count |-> c.count, offsets |-> c.offsets, saved |-> c.saved]

pcre_dfa_exec(re, j) ==
  IF BadDfaCall(re, j) # "none" THEN NoAnswer(BadDfaCall(re, j))
  ELSE DfaAnswer(DfaStarts([re |-> re, job |-> j, m |-> DfaText(re, j)],
                           j.start_offset, j.start_offset - 1))
=============================================================================
