------------------------------ MODULE MCRegex ------------------------------
(* The library's clients on the trees, whose meaning says what the answers    *)
(* are, and on the items of the language.                                     *)
EXTENDS RegexClients, RegexTrees, RegexItems

NoTree == [kind |-> "none"]

MCCalloutAnswers == {0, 1, -1}

-----------------------------------------------------------------------------
(* The messages: all the matches of every tree in one string, and, for some   *)
(* patterns, all the methods with several replacement strings.               *)
Item(kind, string) == [kind |-> kind, text |-> Bytes(string), braced |-> FALSE, type |-> ""]
Whole   == Item("index", "&")
Literal == Item("literal", "-")
Recase(type) == [Item("case", "") EXCEPT !.type = type]
Braced(item) == [item EXCEPT !.braced = TRUE]

PlainTemplates == {<<>>, <<Whole, Item("text", "<>")>>, <<Item("index", "12"), Literal>>}
Templates == PlainTemplates \cup {
  <<Recase("U"), Whole, Recase("E"), Item("text", "a")>>, <<Recase("u"), Whole, Recase("l")>>,
  <<Item("text", "X"), Recase("L"), Item("text", "Y"), Whole>>,
  <<Item("index", "9")>>, <<Braced(Item("index", "12"))>>, <<Item("name", "nme")>>,
  <<Braced(Item("name", "n"))>>, <<Item("name", "x")>>, <<Braced(Item("name", "x"))>>}

\* The blocks: what they answer is made of groups and other text.
Part(n, string) == [group |-> n, text |-> Bytes(string)]
Blocks == {<<>>, <<Part(1, "<>")>>, <<Part(2, "-")>>, <<Part(2, ""), Part(1, "")>>}
MCBlockValue(block, groups) ==
  FlattenSeq([i \in DOMAIN block |->
    (IF block[i].group \in DOMAIN groups THEN groups[block[i].group] ELSE <<>>)
    \o block[i].text])

Message(method, string) ==
  [method |-> method, string |-> Bytes(string), location |-> 0, length |-> Len(string),
   limit |-> 0, template |-> <<>>, block |-> <<>>]
Within(location, length, message) ==
  [message EXCEPT !.location = location, !.length = length]

Messages(string) ==
  {Message(method, string) : method \in {"find", "matches", "captures", "findAll"}}
  \cup {[Message("split", string) EXCEPT !.limit = n] : n \in {0, 1}}
  \cup {[Message("replace", string) EXCEPT !.template = t] : t \in Templates}
  \cup {[Message("replace", string) EXCEPT !.limit = 1, !.template = t] : t \in PlainTemplates}
  \cup {[Message("block", string) EXCEPT !.block = b] : b \in Blocks}
  \cup {Within(1, length, Message("findAll", string)) : length \in {1, 2, 9}}

AB == Rep(Plain(Alt(<<Str("a"), Str("b")>>)), "*", 0, Unlimited, "")
ClientTrees == {
  Group(1, Str("ab")), Cat(<<Group(1, AB), Group(2, Place("$"))>>),
  Cat(<<Group(1, Str("a")), Rep(Group(2, Str("b")), "?", 0, 1, "")>>)}
ClientItems == {
  Of("(?<n>a)(?<nm>b)?", ""), Of("(?<n>)", ""), Of("(", ""), Of("\\xe9", ""),
  [Of("", "") EXCEPT !.pattern = E_acute]}

MCRequests(s) ==
  IF s.tree = Group(1, Str("ab")) THEN Messages("abcabab")
  ELSE IF s.tree \in ClientTrees THEN Messages("abcab")
  ELSE IF s.item \in ClientItems
  THEN Messages("ab") \cup {[Message("find", "") EXCEPT !.string = E_acute]}
  ELSE IF s.tree = NoTree THEN {} ELSE {Message("findAll", "baab")}

-----------------------------------------------------------------------------
(* The calls.                                                                *)
ItemSource(i) ==
  [pattern |-> i.pattern, options |-> i.options, newline |-> i.newline, bsr |-> i.bsr,
   tree |-> NoTree, item |-> i]
TreeSource(t) == [ItemSource(Item0) EXCEPT !.pattern = TextOf(t), !.tree = t]
MCSources == {TreeSource(t) : t \in Trees \cup ClientTrees}
             \cup {ItemSource(i) : i \in LanguageItems \cup ClientItems}

Job(subject, options) ==
  [subject |-> subject, start_offset |-> 0, options |-> options, newline |-> "none",
   bsr |-> "none", offsetcount |-> 9, match_limit |-> 500,
   match_limit_recursion |-> 200, study |-> TRUE]
ItemJob(i) ==
  [Job(i.subject, i.asked) EXCEPT !.start_offset = i.start, !.offsetcount = i.offsets,
                                 !.match_limit = i.limit, !.match_limit_recursion = i.depth]
PartialSubjects == {Bytes(t) : t \in {"", "a", "aab", "a b"}}
MCCalls(s) ==
  IF s.tree \in ClientTrees \/ s.item \in ClientItems THEN {}
  ELSE IF s.tree = NoTree THEN {ItemJob(s.item)}
  ELSE {Job(subject, {}) : subject \in Subjects}
       \cup {Job(subject, {"PARTIAL"}) : subject \in PartialSubjects}

-----------------------------------------------------------------------------
\* The answer of pcre_exec lies in the subject, and is the match the pattern's
\* meaning prefers, from the first start that has one, with its groups; the
\* shortcuts the compiler and the search take change nothing.  On the way no
\* capture ends before it starts.
IsFirstMatch ==
  LET icase == "CASELESS" \in source.options
      start == FirstStart(source.tree, job.subject, job.start_offset, icase)
      first == MatchesAt(source.tree, job.subject, start, icase)[1]
      pair(n) == <<result.offsets[2 * n], result.offsets[2 * n + 1]>>
  IN IF start > Len(job.subject) THEN result.rc \in {"NOMATCH", "PARTIAL", "BADPARTIAL"}
     ELSE IF result.rc = "BADPARTIAL" THEN TRUE
     ELSE /\ result.rc = "MATCH"
          /\ pair(0) = <<start, first.end>>
          /\ \A n \in DOMAIN first.caps : pair(n) = first.caps[n]
AnswersFirstMatch ==
  /\ AnswersInSubject /\ CapturesForward
  /\ phase = "ended" /\ source.tree # NoTree /\ "NOTEOL" \notin job.options => IsFirstMatch

\* A partial match is answered whenever more text could make a match that has
\* begun in the subject, and none is there yet.
Tails == {Bytes(t) : t \in {"a", "b", " ", "aa", "ab", "ba", "bb"}}
PartialIsComplete ==
  /\ phase = "ended" /\ source.tree # NoTree /\ "PARTIAL" \in job.options /\ result.rc = "NOMATCH"
  => \A tail \in Tails : \A i \in 0..(Len(job.subject) - 1) :
       \A k \in DOMAIN MatchesAt(source.tree, job.subject \o tail, i, FALSE) :
         MatchesAt(source.tree, job.subject \o tail, i, FALSE)[k].end <= Len(job.subject)

Plainly(t) == Kinds(t) \cap {"atom", "ref", "call", "if"} = {}
AtomicRepeat(t) ==       \* compiled as an atomic group, not as an instruction
  /\ t.kind = "rep" /\ t.suffix = "+"
  /\ \/ t.part.kind \notin {"chars", "set"} \/ StartsWith(TextOf(t.part), 0, "[")
     \/ t.min = 1 /\ t.max > 1
RECURSIVE HasAtomic(_)
HasAtomic(t) ==
  CASE t.kind \in {"cat", "alt"} -> \E i \in DOMAIN t.parts : HasAtomic(t.parts[i])
    [] t.kind \in {"rep", "group", "plain", "look", "looknot", "back", "backnot"} ->
         AtomicRepeat(t) \/ HasAtomic(t.part)
    [] OTHER -> FALSE

DfaTrees == {t \in Trees : Plainly(t) /\ ~HasAtomic(t)}

DfaJob(subject, options) ==
  [subject |-> subject, start_offset |-> 0, options |-> options, newline |-> "none",
   bsr |-> "none", offsetcount |-> 20, callout |-> "none", wscount |-> 1000,
   limited |-> FALSE, saved |-> <<>>]
MCDfaCalls(s) ==
  IF s.tree \notin DfaTrees THEN {}
  ELSE {DfaJob(subject, options) : subject \in Subjects, options \in {{}, {"PARTIAL"}}}
MCSegments == {Bytes(t) : t \in {"a", "b", "ab", " "}}
MCRestartOptions == {{"PARTIAL"}}

-----------------------------------------------------------------------------
AnswerEnds(pairs) == [k \in DOMAIN pairs |-> pairs[k][2]]
Descending(numbers) == \A k \in 1..(Len(numbers) - 1) : numbers[k] > numbers[k + 1]
IsRestart == "DFA_RESTART" \in asked.options

\* All the matches from the first start that has one are answered, the longest
\* first.
FindsAllMatches ==
  answer.rc \in {"MATCH", "NOMATCH"} /\ ~IsRestart =>
    LET start == FirstStart(source.tree, told, 0, FALSE)
    IN IF start > Len(told) THEN answer.rc = "NOMATCH"
       ELSE /\ answer.rc = "MATCH"
            /\ Descending(AnswerEnds(answer.offsets))
            /\ \A k \in DOMAIN answer.offsets : answer.offsets[k][1] = start
            /\ Range(AnswerEnds(answer.offsets)) = MatchEnds(source.tree, told, start)

\* A match that goes on over several segments is the one there would be in
\* the whole text, from where the partial match began.
Forward == Kinds(source.tree) \cap {"place", "look", "looknot", "back", "backnot"} = {}
RestartContinues ==
  answer.rc \in {"MATCH", "NOMATCH"} /\ IsRestart /\ Forward =>
    LET before == Len(told) - Len(asked.subject)
    IN {before + e : e \in Range(AnswerEnds(answer.offsets))}
         = MatchEnds(source.tree, told, origin)

-----------------------------------------------------------------------------
RECURSIVE Occurrences(_, _, _)
Occurrences(tree, s, from) ==
  LET start == FirstStart(tree, s, from, FALSE)
      first == MatchesAt(tree, s, start, FALSE)[1]
      next  == IF first.end = start THEN start + 1 ELSE first.end
  IN IF from > Len(s) \/ start > Len(s) THEN <<>>
     ELSE <<[n \in {0} \cup DOMAIN first.caps |->
               IF n = 0 THEN <<start, first.end>> ELSE first.caps[n]]>>
          \o Occurrences(tree, s, next)

Expected == Occurrences(source.tree, String, request.location)
AllAreLooked == /\ step = "deliver" /\ source.tree # NoTree /\ request.method = "findAll"
                /\ range.end = Len(String)

\* The enumerator goes through the occurrences of the pattern, from each to the
\* next that does not overlap it, with their groups: it leaves out none, adds
\* none and repeats none.  One of no characters at the string's end is excepted:
\* the code leaves it out (FSRegex.m:471), although FSRegex.h:194 promises
\* "all non-overlapping occurrences".
EmptyAtEnd(m) == Begins(m) = Len(String) /\ Past(m) = Len(String)
FindsOccurrences ==
  AllAreLooked =>
    \/ found = Expected
    \/ Expected # <<>> /\ EmptyAtEnd(Last(Expected)) /\ found = Front(Expected)
=============================================================================
