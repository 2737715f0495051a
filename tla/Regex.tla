-------------------------------- MODULE Regex --------------------------------
(***************************************************************************)
(* The library as an application uses it: a pattern is compiled, perhaps    *)
(* studied, and then executed on its subjects.                              *)
(***************************************************************************)
EXTENDS PcreExec

CONSTANTS
  Sources,   \* the patterns, with the options they are compiled with
  Calls(_)   \* what is asked of a compiled pattern

ASSUME PatternsAreText == \A s \in Sources : s.pattern \in Seq(Nat)

ASSUME CallsAreLimited ==
  \A s \in Sources : \A j \in Calls(s) : j.match_limit_recursion \in Nat

VARIABLES source, at, pass, ptr, code, cd, branch, class, group, outer, errorcode

C == INSTANCE PcreCompile
S == INSTANCE PcreStudy

compileVars == <<source, at, pass, ptr, code, cd, branch, class, group, outer,
                 errorcode>>
vars == <<re, compileVars, execVars>>

Compile == C!Compile /\ UNCHANGED <<source, execVars>>
Execute == Exec /\ UNCHANGED <<re, compileVars>>

\* pcre_study's answer is passed along by the calls that ask for it.
Study == /\ at = "ended" /\ errorcode = 0
         /\ at' = "studied" /\ re' = S!pcre_study(re)
         /\ UNCHANGED <<source, pass, ptr, code, cd, branch, class, group, outer,
                        errorcode, execVars>>

CallExec == /\ at = "studied" /\ phase = "idle"
            /\ \E j \in Calls(source) : pcre_exec(j)
            /\ UNCHANGED <<re, compileVars>>

\* A group's number by its name, which the application looks up in the table,
\* kept in order while it was made.
NOSUBSTRING == -7

Unread == 0..Len(re.names)

pcre_get_stringnumber(name) ==
  LET search[piece \in Unread \X Unread] ==       \* from bot on, below top
        LET bot == piece[1]
            top == piece[2]
            mid == (top + bot) \div 2
            entry == re.names[mid + 1]
        IN IF top <= bot THEN NOSUBSTRING
           ELSE IF entry.name = name THEN entry.n
           ELSE IF C!Less(entry.name, name) THEN search[<<mid + 1, top>>]
           ELSE search[<<bot, mid>>]
  IN search[<<0, Len(re.names)>>]

Init == C!InitCompile(Sources) /\ InitExec
Next == Compile \/ Study \/ CallExec \/ Execute
Spec == Init /\ [][Next]_vars /\ WF_vars(Execute)

-----------------------------------------------------------------------------
\* match() never has more callers than the application's limit on its
\* recursion allows, whatever the pattern: the limit is there to keep the
\* stack, which grows with the subject, from running out.
DepthBounded == Len(frames) <= job.match_limit_recursion

\* What match() takes for granted of the code, as the compiler has made it: it
\* ends in an END, the links of a group lead along its alternatives to a KET and
\* from there back to the group, what comes before a group or after a condition
\* does, a call has a group to go to, and the operands that count are numbers.
IsGroup(c, p) == p \in DOMAIN c /\ c[p].op \in BracketOps
IsKet(c, p)   == p \in DOMAIN c /\ c[p].op \in KetOps
IsAlt(c, p)   == p \in DOMAIN c /\ c[p].op = "ALT"

Linked(c, p) ==
  /\ c[p].op = "END" <=> p = Len(c)
  /\ c[p].op \in BracketOps \cup {"ALT"} =>
       IsKet(c, KetOf(c, p)) /\ (IsKet(c, NextAlt(c, p)) \/ IsAlt(c, NextAlt(c, p)))
  /\ c[p].op \in KetOps => IsGroup(c, p - c[p].link)
  /\ c[p].op \in {"BRAZERO", "BRAMINZERO", "SKIPZERO"} => IsGroup(c, p + 1)
  /\ c[p].op \in {"COND", "SCOND"} => c[p + 1].op \in ConditionOps \cup LookOps
  /\ c[p].op = "RECURSE" => IsGroup(c, c[p].link)

Numeric(c, p) ==
  /\ c[p].op \in RepOps \cup {"REVERSE"} => c[p].n \in Nat
  /\ c[p].op \in CaptureOps \cup {"REF"} => c[p].n \in Nat \ {0}
  /\ c[p].op \in {"CHAR", "CHARNC", "CHARREP"} => c[p].c \in 0..INT_MAX
  /\ c[p].op = "TYPEREP" => c[p].type \in CharTypes
  /\ c[p].op = "XCLASS" => Utf8
  /\ c[p].op \in ClassOps \cup {"REF"} =>
       Quantifier(c, p).max \in Nat /\ Quantifier(c, p).min \in 0..Quantifier(c, p).max

CodeIsWellFormed ==
  at \in {"ended", "studied"} /\ errorcode = 0 =>
    /\ Code \in Seq(Range(Code)) \ {<<>>} /\ re.top_backref \in Nat
    /\ \A p \in DOMAIN Code : Linked(Code, p) /\ Numeric(Code, p)

\* match() follows no link out of the code, neither where it is nor where its
\* callers have it go on.
InCode(fr)  == fr.ecode \in DOMAIN Code
StaysInCode == phase = "match" => InCode(frame) /\ \A i \in DOMAIN frames : InCode(frames[i])

\* It goes neither past an end of the subject nor back before its first byte,
\* and no place it records or answers is outside: an offset that is answered is
\* used without a further test.
InSubject(fr) == fr.eptr \in 0..End /\ fr.mstart \in 0..End
StaysInSubject ==
  /\ phase = "match" => InSubject(frame) /\ \A i \in DOMAIN frames : InSubject(frames[i])
  /\ phase = "ended" => \A i \in DOMAIN result.offsets : result.offsets[i] \in -1..End

StaysInBounds == DepthBounded /\ StaysInCode /\ StaysInSubject

\* A call on a subject whose characters are bytes: in UTF-8 the minimum of a
\* repeated negated character counts bytes, and may end behind the last one.
PlainCall ==
  phase # "idle" =>
    /\ Subject \in Seq(IF Utf8 THEN 0..127 ELSE Byte)
    /\ job.start_offset \in 0..End /\ job.offsetcount \in Int

\* A match that pcre_exec answers lies in the subject, from the start it was
\* given on: what goes through a text match by match relies on it.
AnswersInSubject ==
  phase = "ended" /\ result.rc = "MATCH" /\ result.count > 0 =>
    /\ result.offsets[1] \in job.start_offset..End
    /\ result.offsets[0] \in job.start_offset..result.offsets[1]

\* No capture ends before it starts, so that a reference to it has a length.
CapturesForward ==
  phase = "match" =>
    \A n \in 1..(OffsetMax - 1) : 2 * n < OffsetMax =>
      md.offset_vector[2 * n] <= md.offset_vector[2 * n + 1]

\* A name is found where the compiler has put it, by a search that relies on the
\* order it keeps the names in, and stands for a group there is.
NamesHaveGroups ==
  at = "ended" /\ errorcode = 0 =>
    \A i \in DOMAIN re.names :
      /\ re.names[i].n <= re.top_bracket
      /\ \E k \in DOMAIN re.names :
           /\ re.names[k].name = re.names[i].name
           /\ re.names[k].n = pcre_get_stringnumber(re.names[i].name)

\* The groups are counted in the first pass, to find out whether a name or a
\* number that comes before its group has one; the second numbers them.  The
\* two counts are the same, and every number in the code is that of a group,
\* so that its captures have a place in the vector.
Numbered == CaptureOps \cup {"REF", "CREF"}
GroupsAreCounted ==
  /\ at = "ended" /\ errorcode = 0 =>
       /\ re.top_bracket = cd.final_bracount
       /\ \A p \in DOMAIN re.code :
            re.code[p].op \in Numbered => re.code[p].n <= re.top_bracket
  /\ NamesHaveGroups

\* What compiles is fit to be executed, with places for all it captures.
CompilesSoundly == GroupsAreCounted /\ CodeIsWellFormed

\* match() has failed at a SKIP that has nothing before it: the next start is
\* the same again, for ever (pcre_exec.c:4866), although it is to be an advance
\* (pcrepattern.3:2194).
SkipsInPlace ==
  /\ phase = "match" /\ frames = <<>> /\ rrc = "SKIP"
  /\ md.start_match_ptr <= start_match

\* A call of pcre_exec returns, unless it comes to a SKIP that has nothing
\* before it: all else, in the pattern, the subject and the limits, leaves a
\* start behind for a later one.
ExecEnds == (phase = "called") ~> (phase = "ended" \/ SkipsInPlace)
=============================================================================
