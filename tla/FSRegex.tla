------------------------------- MODULE FSRegex -------------------------------
(***************************************************************************)
(* Strings and regular expressions in F-Script: FSRegex, its enumerator of  *)
(* matches, and the methods NSString gets (StringRegex.m).  A message goes  *)
(* through the matches of its pattern, with a call of pcre_exec for each,   *)
(* and makes its result of them.  Strings are their characters, which are   *)
(* ASCII in this build; a replacement string is what backrefPattern finds   *)
(* in it, in order, with the text in between.                               *)
(***************************************************************************)
EXTENDS Regex, PcreLex

CONSTANTS
  Requests(_),       \* the messages whose pattern is a source
  BlockValue(_, _),  \* what a message's block answers for the groups of a match
  MATCH_LIMIT        \* the limits pcre_exec takes when the caller has none

ASSUME MatchLimitIsNatural == MATCH_LIMIT \in Nat

ASSUME RequestsAreInText ==       \* a string, and a range as NSRange has it
  \A s \in Sources : \A r \in Requests(s) :
    r.string \in Seq(Nat) /\ r.location \in Nat /\ r.length \in Nat

VARIABLES
  request,       \* the message
  step,          \* "none", "next", "finding", "deliver" or "ended"
  range,         \* where the enumerator goes on, and its end
  found,         \* the matches so far: for a group's number, its offsets
  outcome        \* what the sender gets

findVars == <<request, step, range, found, outcome>>

Nil        == [kind |-> "nil"]
Raised     == [kind |-> "raised"]       \* an exception
Undefined  == [kind |-> "undefined"]    \* an index before the vector of offsets
Gives(x)   == [kind |-> "given", value |-> x]

String     == request.string
groupCount == re.top_bracket + 1        \* pcre_fullinfo, CAPTURECOUNT

-----------------------------------------------------------------------------
(* FSRegexMatch.  The offsets are read whatever count pcre_exec answered.    *)
MatchOf(offsets) == [n \in 0..(groupCount - 1) |-> <<offsets[2 * n], offsets[2 * n + 1]>>]
Begins(m) == m[0][1]
Past(m)   == m[0][2]
IsNil(m, n) == m[n][1] < 0
GroupAtIndex(m, n) == IF IsNil(m, n) THEN <<>> ELSE Text(String, m[n][1], m[n][2])
GroupsIn(m) == [n \in 1..groupCount |-> GroupAtIndex(m, n - 1)]

-----------------------------------------------------------------------------
(* The enumerator.                                                          *)
IsAscii(text) == \A i \in DOMAIN text : text[i] < 128

\* findInString:range: looks for a match in the string up to the range's end,
\* which $ takes for the end if it is that of the string.
FindJobOffByOne ==                                                     \* a mutant
  LET upto == range.location + range.length
  IN [subject |-> SubSeq(String, 1, upto), start_offset |-> range.location,
      options |-> IF upto <= Len(String) THEN {"NOTEOL"} ELSE {},
      newline |-> "none", bsr |-> "none", offsetcount |-> 3 * groupCount,
      match_limit |-> MATCH_LIMIT, match_limit_recursion |-> MATCH_LIMIT,
      study |-> FALSE]

FindJob ==
  LET upto == range.location + range.length
  IN [subject |-> SubSeq(String, 1, upto), start_offset |-> range.location,
      options |-> IF upto < Len(String) THEN {"NOTEOL"} ELSE {},
      newline |-> "none", bsr |-> "none", offsetcount |-> 3 * groupCount,
      match_limit |-> MATCH_LIMIT, match_limit_recursion |-> MATCH_LIMIT,
      study |-> FALSE]

Replies(answer) == step' = "ended" /\ outcome' = answer /\ UNCHANGED <<range, found>>

FindInString ==
  /\ step = "next"
  /\ IF ~IsAscii(String) \/ range.location + range.length > Len(String)
     THEN Replies(Raised) /\ UNCHANGED execVars
     ELSE /\ pcre_exec(FindJob) /\ step' = "finding"
          /\ UNCHANGED <<range, found, outcome>>
  /\ UNCHANGED <<request, re, compileVars>>

\* nextObject goes on behind the match, and one place further if that is
\* empty.  A match that leaves no place to go on from is not returned.
GoesOnFrom(m) == IF Begins(m) = Past(m) THEN Past(m) + 1 ELSE Past(m)

MatchFoundAgain(m) ==                                                  \* a mutant
  IF Begins(m) = Past(m) THEN step' = "next" /\ UNCHANGED <<range, found, outcome>>
  ELSE /\ range' = [range EXCEPT !.location = Past(m), !.length = range.end - Past(m)]
       /\ step' = "next" /\ found' = Append(found, m) /\ UNCHANGED outcome

MatchFound(m) ==
  IF request.method \in {"find", "captures", "matches"}     \* of the first match
  THEN /\ found' = <<m>> /\ step' = "deliver" /\ UNCHANGED <<range, outcome>>
  ELSE /\ range' = [range EXCEPT !.location = GoesOnFrom(m),
                                 !.length = range.end - GoesOnFrom(m)]
       /\ IF GoesOnFrom(m) > range.end THEN step' = "deliver" /\ UNCHANGED found
          ELSE step' = "next" /\ found' = Append(found, m)
       /\ UNCHANGED outcome

FindReturns ==
  /\ step = "finding" /\ phase = "ended"
  /\ CASE result.rc = "NOMATCH" -> step' = "deliver" /\ UNCHANGED <<range, found, outcome>>
       [] result.rc = "MATCH" /\ result.count > 0 -> MatchFound(MatchOf(result.offsets))
       [] OTHER -> Replies(Raised)
  /\ UNCHANGED <<request, re, compileVars, execVars>>

-----------------------------------------------------------------------------
(* splitString:limit:.                                                      *)
Used(limit) == IF limit < 1 THEN Len(found) ELSE Min({limit, Len(found)})
RestFrom(i) == IF i = 1 THEN 0 ELSE Past(found[i - 1])
Before(i)   == Text(String, RestFrom(i), Begins(found[i]))
Remaining(n) == Text(String, RestFrom(n + 1), Len(String))

SetGroups(m) == SelectSeq([n \in 1..(groupCount - 1) |-> n], LAMBDA n : ~IsNil(m, n))

SplitString ==
  FlattenSeq([i \in 1..Used(request.limit) |->
                <<Before(i)>> \o [k \in DOMAIN SetGroups(found[i]) |->
                                    GroupAtIndex(found[i], SetGroups(found[i])[k])]])
  \o <<Remaining(Used(request.limit))>>

-----------------------------------------------------------------------------
(* replaceWithString:inString:limit:.  An item of the replacement string is  *)
(* text, a reference by index or by name, a case modifier or an escaped      *)
(* character.  A reference without braces loses characters from its end      *)
(* until there is such a group, and they become text.                       *)
IndexOf(item, k) == LET part == SubSeq(item.text, 1, k)
                    IN IF item.kind = "name" THEN pcre_get_stringnumber(part)
                       ELSE IF item.text = Bytes("&") THEN 0 ELSE Decimal(part, 0)
IsIndex(item, n) == IF item.kind = "name" THEN n # NOSUBSTRING ELSE n < groupCount

Chopped(item) ==         \* the lengths that are left
  {k \in 1..Len(item.text) : IsIndex(item, IndexOf(item, k))
                             /\ (item.braced => k = Len(item.text))}

Refused(item) == Chopped(item) = {}
RefusalOf(item) == IF item.kind = "name" /\ item.braced THEN Undefined ELSE Raised

Referenced(item, m) ==
  LET k == Max(Chopped(item))
  IN GroupAtIndex(m, IndexOf(item, k)) \o SubSeq(item.text, k + 1, Len(item.text))

References(template) == {i \in DOMAIN template : template[i].kind \in {"index", "name"}}
Refusals(template) == {i \in References(template) : Refused(template[i])}

\* The case modifiers are kept with their places, and applied in order to the
\* whole of the text: \u and \l to a character, \U and \L up to the next \E.
Uppercase(c) == IF c \in Lowers THEN Fcc(c) ELSE c
Recased(text, from, upto, type) ==
  IF upto > Len(text) THEN text
  ELSE [i \in DOMAIN text |->
          IF i <= from \/ i > upto THEN text[i]
          ELSE IF type \in {"u", "U"} THEN Uppercase(text[i]) ELSE Lcc(text[i])]

ApplyModifier(text, modifiers, k) ==
  LET modifier == modifiers[k]
      ends == {l \in (k + 1)..Len(modifiers) : modifiers[l].type = "E"}
  IN CASE modifier.type = "E" -> text
       [] modifier.type \in {"u", "l"} ->
            Recased(text, modifier.location, modifier.location + 1, modifier.type)
       [] modifier.type \in {"U", "L"} ->
            Recased(text, modifier.location,
                    IF ends = {} THEN Len(text) ELSE modifiers[Min(ends)].location,
                    modifier.type)

Expanded(template, m) ==
  LET adds(buffer, item) ==
        CASE item.kind = "case" ->
               [buffer EXCEPT !.modifiers =
                  Append(@, [type |-> item.type, location |-> Len(buffer.text)])]
          [] item.kind \in {"index", "name"} ->
               [buffer EXCEPT !.text = @ \o Referenced(item, m)]
          [] item.kind \in {"text", "literal"} -> [buffer EXCEPT !.text = @ \o item.text]
      buffer == FoldLeft(adds, [text |-> <<>>, modifiers |-> <<>>], template)
  IN FoldLeftDomain(LAMBDA text, k : ApplyModifier(text, buffer.modifiers, k),
                    buffer.text, buffer.modifiers)

Appended(template, n) ==
  FlattenSeq([i \in 1..n |-> Before(i) \o Expanded(template, found[i])]) \o Remaining(n)

ReplaceWithString ==
  IF Used(request.limit) > 0 /\ Refusals(request.template) # {}
  THEN RefusalOf(request.template[Min(Refusals(request.template))])
  ELSE Gives(Appended(request.template, Used(request.limit)))

-----------------------------------------------------------------------------
(* replace:withBlock: changes a copy of the string in place, and corrects    *)
(* the later places by the change in length.  The groups are put in an array *)
(* for the block, which takes no nil; the block is the sender's own.         *)
Spliced(text, from, upto, new) ==
  SubSeq(text, 1, from) \o new \o SubSeq(text, upto + 1, Len(text))

OffsetOfLast(change, m, new) == Len(new) - (Past(m) - Begins(m))         \* a mutant

Offset(change, m, new) == change + Len(new) - (Past(m) - Begins(m))

NewText(m) == BlockValue(request.block, GroupsIn(m))

ReplacedIn(r, m) ==
  [text   |-> Spliced(r.text, Begins(m) + r.offset, Past(m) + r.offset, NewText(m)),
   offset |-> Offset(r.offset, m, NewText(m))]

Replaced ==
  LET r[i \in 0..Len(found)] == IF i = 0 THEN [text |-> String, offset |-> 0]
                                ELSE ReplacedIn(r[i - 1], found[i])
  IN r[Len(found)].text

ReplaceWithBlock ==
  IF \E i \in DOMAIN found, n \in 1..(groupCount - 1) : IsNil(found[i], n) THEN Raised
  ELSE Gives(Replaced)

-----------------------------------------------------------------------------
(* A message, and its result.                                               *)
Captures == GroupsIn(found[1])

Result ==
  CASE request.method = "findAll" -> Gives(found)
    [] request.method = "find" -> IF found = <<>> THEN Nil ELSE Gives(found[1])
    [] request.method = "matches" -> Gives(found # <<>>)
    [] request.method = "captures" -> IF found = <<>> THEN Nil ELSE Gives(Captures)
    [] request.method = "split" -> Gives(SplitString)
    [] request.method = "replace" -> ReplaceWithString
    [] request.method = "block" -> ReplaceWithBlock

Deliver ==
  /\ step = "deliver"
  /\ Replies(Result)
  /\ UNCHANGED <<request, re, compileVars, execVars>>

\* A pattern that does not compile makes no FSRegex; getRegex then puts nil in
\* its dictionary.
Begin ==
  /\ at = "ended" /\ step = "none" /\ phase = "idle"
  /\ \E r \in Requests(source) :
       /\ request' = r
       /\ range' = [location |-> r.location, length |-> r.length,
                    end |-> r.location + r.length]
       /\ IF errorcode # 0 \/ ~IsAscii(source.pattern)
          THEN step' = "ended" /\ outcome' = Raised
          ELSE step' = "next" /\ outcome' = outcome
  /\ UNCHANGED <<found, re, compileVars, execVars>>

NoRequest == [method |-> "none", string |-> <<>>, location |-> 0, length |-> 0,
              limit |-> 0, template |-> <<>>, block |-> <<>>]

InitFind == /\ request = NoRequest /\ step = "none" /\ found = <<>>
            /\ range = [location |-> 0, length |-> 0, end |-> 0] /\ outcome = Nil

Enumerate == FindInString \/ FindReturns \/ Deliver

\* What uses a compiled pattern: a message, or an application of its own.
NextFind ==
  \/ Compile /\ UNCHANGED findVars
  \/ (Study \/ CallExec) /\ step = "none" /\ UNCHANGED findVars
  \/ Execute /\ UNCHANGED findVars
  \/ Begin \/ Enumerate

SpecFind == Init /\ InitFind /\ [][NextFind]_<<vars, findVars>>

-----------------------------------------------------------------------------
\* A message gets its result: the enumerator goes past every match, also the
\* empty ones, if each of its calls returns.
EnumerationEnds == (step = "next") ~> (step = "ended" \/ SkipsInPlace)

\* The matches lie in the string, in order, and no two of them overlap.
MatchesInOrder ==
  \A i \in DOMAIN found :
    /\ RestFrom(i) <= Begins(found[i])
    /\ Begins(found[i]) <= Past(found[i])
    /\ Past(found[i]) <= Len(String)

\* The block's replacements, made in place at places that move as the string
\* grows and shrinks, give the string with each match, where it was found,
\* replaced by what the block answers for it: nothing between two of them is
\* lost, and nothing is there twice.
Renewed == FlattenSeq([i \in DOMAIN found |-> Before(i) \o NewText(found[i])])
           \o Remaining(Len(found))
ReplacementsAgree ==
  step = "ended" /\ request.method = "block" /\ outcome.kind = "given" =>
    outcome.value = Renewed
=============================================================================
