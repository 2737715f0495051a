---------------------------- MODULE RegexProofs ----------------------------
(***************************************************************************)
(* match() keeps its own stack within the limit on its recursion, whatever   *)
(* the patterns, the subjects and the calls: of the code only the shape of   *)
(* the steps matters.  The compiler counts its groups by natural numbers,    *)
(* the matches of a message lie in its string in order, and what             *)
(* replace:withBlock: makes of the string in place is the string with each   *)
(* match replaced where it was found.                                       *)
(***************************************************************************)
EXTENDS FSRegex, RecursionLemmas, SequenceTheorems, TLAPS

\* A step that leaves the callers st, or calls from above them.
Moves(st) == \/ frames' = st
             \/ rrc' = "CALL" /\ \E f : frames' = Append(st, f)

\* An instruction of the running match() keeps its callers, or calls.
LEMMA RunningSteps ==
  ASSUME \/ Verb \/ Fail \/ CaptureBracket \/ Bracket \/ Condition \/ ConditionAssertion
         \/ Accept \/ SetOptions \/ Assertion \/ ReverseBack \/ Callout \/ Recurse \/ Atomic
         \/ SkipAlternatives \/ OptionalGroup \/ SkipGroup \/ KetOfCall \/ KetOfSubroutine
         \/ Ket \/ SimpleAssertion \/ SetStartOfMatch \/ Type \/ Char \/ NotChar
         \/ RepeatSingle \/ RepeatClass \/ Reference
  PROVE  rrc = "RUN" /\ Moves(frames)
<1> USE DEF Running, Go, RMATCH, RRETURN, TAIL_RECURSE, Moves
<1>1. CASE Verb BY <1>1 DEF Verb
<1>2. CASE Fail BY <1>2 DEF Fail
<1>3. CASE CaptureBracket BY <1>3 DEF CaptureBracket
<1>4. CASE Bracket BY <1>4 DEF Bracket, TryAlternative
<1>5. CASE Condition BY <1>5 DEF Condition, TakeBranch
<1>6. CASE ConditionAssertion BY <1>6 DEF ConditionAssertion
<1>7. CASE Accept BY <1>7 DEF Accept
<1>8. CASE SetOptions BY <1>8 DEF SetOptions
<1>9. CASE Assertion BY <1>9 DEF Assertion
<1>10. CASE ReverseBack BY <1>10 DEF ReverseBack
<1>11. CASE Callout BY <1>11 DEF Callout
<1>12. CASE Recurse BY <1>12 DEF Recurse
<1>13. CASE Atomic BY <1>13 DEF Atomic
<1>14. CASE SkipAlternatives BY <1>14 DEF SkipAlternatives
<1>15. CASE OptionalGroup BY <1>15 DEF OptionalGroup
<1>16. CASE SkipGroup BY <1>16 DEF SkipGroup
<1>17. CASE KetOfCall BY <1>17 DEF KetOfCall
<1>18. CASE KetOfSubroutine BY <1>18 DEF KetOfSubroutine
<1>19. CASE Ket BY <1>19 DEF Ket, KetRepeats
<1>20. CASE SimpleAssertion BY <1>20 DEF SimpleAssertion
<1>21. CASE SetStartOfMatch BY <1>21 DEF SetStartOfMatch
<1>22. CASE Type BY <1>22 DEF Type
<1>23. CASE Char BY <1>23 DEF Char
<1>24. CASE NotChar BY <1>24 DEF NotChar
<1>25. CASE RepeatSingle BY <1>25 DEF RepeatSingle, Repeat, RepeatRest, LazyRest, GreedyRest
<1>26. CASE RepeatClass BY <1>26 DEF RepeatClass, Repeat, RepeatRest, LazyRest, GreedyRest
<1>27. CASE Reference BY <1>27 DEF Reference, Repeat, RepeatRest, LazyRest, GreedyRest
<1> QED BY <1>1, <1>2, <1>3, <1>4, <1>5, <1>6, <1>7, <1>8, <1>9, <1>10, <1>11, <1>12,
          <1>13, <1>14, <1>15, <1>16, <1>17, <1>18, <1>19, <1>20, <1>21, <1>22, <1>23,
          <1>24, <1>25, <1>26, <1>27

\* After a return to the last caller the others stay below it: it goes on,
\* returns, or calls again.
LEMMA ReturningSteps ==
  ASSUME \/ VerbFails \/ CaptureBracketFails \/ BracketFails \/ PassOn \/ ConditionDecided
         \/ AssertionReturns \/ NegativeAssertionReturns \/ RecurseReturns \/ AtomicReturns
         \/ AtomicRepeatFails \/ OptionalGroupFails \/ KetFails \/ LazyRepeatFails
         \/ GreedyRepeatFails
  PROVE  frames # <<>> /\ Moves(Callers)
<1> USE DEF Returning, Go, RMATCH, RRETURN, TAIL_RECURSE, Moves
<1>1. CASE VerbFails BY <1>1 DEF VerbFails
<1>2. CASE CaptureBracketFails BY <1>2 DEF CaptureBracketFails
<1>3. CASE BracketFails BY <1>3 DEF BracketFails, TryAlternative
<1>4. CASE PassOn BY <1>4 DEF PassOn
<1>5. CASE ConditionDecided BY <1>5 DEF ConditionDecided, TakeBranch
<1>6. CASE AssertionReturns BY <1>6 DEF AssertionReturns, NextAssertion
<1>7. CASE NegativeAssertionReturns BY <1>7 DEF NegativeAssertionReturns, NextAssertion
<1>8. CASE RecurseReturns BY <1>8 DEF RecurseReturns
<1>9. CASE AtomicReturns BY <1>9 DEF AtomicReturns, AtomicMatched
<1>10. CASE AtomicRepeatFails BY <1>10 DEF AtomicRepeatFails
<1>11. CASE OptionalGroupFails BY <1>11 DEF OptionalGroupFails
<1>12. CASE KetFails BY <1>12 DEF KetFails
<1>13. CASE LazyRepeatFails BY <1>13 DEF LazyRepeatFails, LazyNext
<1>14. CASE GreedyRepeatFails BY <1>14 DEF GreedyRepeatFails
<1> QED BY <1>1, <1>2, <1>3, <1>4, <1>5, <1>6, <1>7, <1>8, <1>9, <1>10, <1>11, <1>12,
          <1>13, <1>14

-----------------------------------------------------------------------------
\* The frames themselves are of no account.
Stack(s) == \E E : s \in Seq(E)

\* RMATCH: one caller more.
LEMMA StackPush ==
  ASSUME NEW s, NEW f, Stack(s)
  PROVE  Stack(Append(s, f)) /\ Len(s) \in Nat /\ Len(Append(s, f)) = Len(s) + 1
<1>1. PICK E : s \in Seq(E)
  BY DEF Stack
<1>2. s \in Seq(E \cup {f})
  BY <1>1, SeqMonotonic
<1>3. Append(s, f) \in Seq(E \cup {f}) /\ Len(Append(s, f)) = Len(s) + 1
  BY <1>2
<1> QED
  BY <1>1, <1>3 DEF Stack

\* The return to a caller: one less.
LEMMA StackPop ==
  ASSUME NEW s, Stack(s), s # <<>>
  PROVE  /\ Stack(SubSeq(s, 1, Len(s) - 1))
         /\ Len(s) \in Nat \ {0}
         /\ Len(SubSeq(s, 1, Len(s) - 1)) = Len(s) - 1
<1>1. PICK E : s \in Seq(E)
  BY DEF Stack
<1>2. Len(s) \in Nat \ {0}
  BY <1>1, EmptySeq
<1>3. \A i \in 1..(Len(s) - 1) : s[i] \in E
  BY <1>1, <1>2, ElementOfSeq
<1> DEFINE n == Len(s) - 1
           t == SubSeq(s, 1, n)
<1>4. n \in Nat
  BY <1>2
<1> HIDE DEF n
<1>5. t \in Seq(E) /\ Len(t) = IF 1 <= n THEN n - 1 + 1 ELSE 0
  BY <1>3, <1>4, SubSeqProperties DEF n
<1> HIDE DEF t
<1>6. Len(t) = n
  BY <1>4, <1>5
<1>7. Stack(t)
  BY <1>5 DEF Stack
<1> QED
  BY <1>2, <1>6, <1>7 DEF n, t

\* pcre_exec calls match() without callers.
LEMMA StackEmpty == Stack(<<>>) /\ Len(<<>>) = 0
BY EmptySeq DEF Stack

-----------------------------------------------------------------------------
\* The bound alone is not inductive: a match() that runs, and so may call, must
\* have found room for one caller more at its entry.
MayCall == phase = "match" /\ rrc = "RUN"

StackInv ==
  /\ Stack(frames)
  /\ job.match_limit_recursion \in Nat
  /\ DepthBounded
  /\ MayCall => Len(frames) < job.match_limit_recursion

DepthInv == source \in Sources /\ StackInv

\* From callers below the limit, one call reaches it at most, and is at its
\* entry then.
LEMMA MovesKeepDepth ==
  ASSUME NEW st, StackInv, Moves(st), Stack(st), Len(st) < job.match_limit_recursion,
         UNCHANGED <<job, phase>>
  PROVE  StackInv'
<1> USE DEF StackInv, DepthBounded, MayCall
<1>1. CASE frames' = st
  <2>1. Len(st) \in Nat BY DEF Stack
  <2> QED BY <1>1, <2>1
<1>2. ASSUME rrc' = "CALL", NEW f, frames' = Append(st, f)
      PROVE  StackInv'
  <2>1. Stack(frames') /\ Len(st) \in Nat /\ Len(frames') = Len(st) + 1
    BY <1>2, StackPush
  <2> QED BY <1>2, <2>1
<1> QED BY <1>1, <1>2 DEF Moves

\* The entry of match() lets a call in only below the limit.
LEMMA EnterKeepsDepth ==
  ASSUME StackInv, Enter, UNCHANGED <<job, phase>>
  PROVE  StackInv'
<1>1. frames' = frames
  BY DEF Enter, RRETURN, Go
<1>2. CASE TooDeep \/ md.match_call_count >= job.match_limit
  <2>1. rrc' # "RUN" BY <1>2 DEF Enter, RRETURN
  <2> QED BY <1>1, <2>1 DEF StackInv, DepthBounded, MayCall
<1>3. CASE ~TooDeep
  <2>1. Len(frames) \in Nat BY DEF StackInv, Stack
  <2> QED BY <1>1, <1>3, <2>1 DEF StackInv, DepthBounded, MayCall, TooDeep
<1> QED BY <1>2, <1>3

\* Every step of match() keeps the depth within the limit.
LEMMA MatchKeepsDepth ==
  ASSUME StackInv, Match
  PROVE  StackInv'
<1>1. UNCHANGED <<job, phase>> /\ phase = "match" /\ MatchStep
  BY DEF Match, searchVars
<1>2. CASE Enter
  BY <1>1, <1>2, EnterKeepsDepth
<1>3. CASE rrc = "RUN" /\ Moves(frames)
  <2>1. Stack(frames) /\ Len(frames) < job.match_limit_recursion
    BY <1>1, <1>3 DEF StackInv, MayCall
  <2> QED BY <1>1, <1>3, <2>1, MovesKeepDepth
<1>4. CASE frames # <<>> /\ Moves(Callers)
  <2>1. /\ Stack(Callers) /\ Len(frames) \in Nat \ {0}
        /\ Len(Callers) = Len(frames) - 1
    BY <1>4, StackPop DEF StackInv, Callers
  <2>2. Len(Callers) < job.match_limit_recursion
    BY <2>1 DEF StackInv, DepthBounded
  <2> QED BY <1>1, <1>4, <2>1, <2>2, MovesKeepDepth
<1> QED BY <1>1, <1>2, <1>3, <1>4, RunningSteps, ReturningSteps DEF MatchStep

\* So does the loop of pcre_exec, which calls match() with an empty stack.
LEMMA ExecKeepsDepth ==
  ASSUME StackInv, Exec
  PROVE  StackInv'
<1> USE DEF StackInv, DepthBounded, MayCall
<1>1. CASE Call
  BY <1>1 DEF Call, Answer
<1>2. CASE Scan
  <2>1. PICK start, req : NotThere(start) \/ BeginMatch(start, req)
    BY <1>2 DEF Scan, ScanAt, ScanFrom
  <2>2. CASE NotThere(start)
    BY <2>2 DEF NotThere, Answer
  <2>3. CASE BeginMatch(start, req)
    <3>1. frames' = <<>> /\ rrc' = "CALL" /\ job' = job
      BY <2>3 DEF BeginMatch
    <3> QED BY <3>1, StackEmpty
  <2> QED BY <2>1, <2>2, <2>3
<1>3. CASE Match
  BY <1>3, MatchKeepsDepth
<1>4. CASE MatchReturned
  <2>1. rrc # "RUN" /\ UNCHANGED <<job, frames, rrc>>
    BY <1>4 DEF MatchReturned, Returns, Verdicts, Errors
  <2> QED BY <2>1
<1> QED BY <1>1, <1>2, <1>3, <1>4 DEF Exec

\* A call of pcre_exec brings its own limit, and no frames of the call before.
LEMMA CallKeepsDepth ==
  ASSUME NEW j, j.match_limit_recursion \in Nat, pcre_exec(j)
  PROVE  StackInv'
BY StackEmpty DEF pcre_exec, StackInv, DepthBounded, MayCall

\* Neither compiling nor studying, nor the messages, touch the frames; FSRegex
\* calls pcre_exec without a limit of its own and so with the library's.
LEMMA NextKeepsDepth ==
  ASSUME DepthInv, [NextFind]_<<vars, findVars>>
  PROVE  DepthInv'
<1> USE DEF DepthInv
<1>1. CASE UNCHANGED <<source, execVars>>
  BY <1>1 DEF execVars, searchVars, matchVars, StackInv, DepthBounded, MayCall
<1>2. CASE Execute
  BY <1>2, ExecKeepsDepth DEF Execute, compileVars
<1>3. CASE CallExec
  <2>1. PICK j \in Calls(source) : pcre_exec(j)
    BY <1>3 DEF CallExec
  <2>2. j.match_limit_recursion \in Nat
    BY CallsAreLimited
  <2> QED BY <1>3, <2>1, <2>2, CallKeepsDepth DEF CallExec, compileVars
<1>4. CASE FindInString
  <2>1. source' = source
    BY <1>4 DEF FindInString, compileVars
  <2>2. CASE pcre_exec(FindJob)
    BY <2>1, <2>2, CallKeepsDepth, MatchLimitIsNatural DEF FindJob
  <2>3. CASE UNCHANGED execVars
    BY <2>1, <2>3, <1>1
  <2> QED BY <1>4, <2>2, <2>3 DEF FindInString
<1>5. CASE Compile \/ Study \/ FindReturns \/ Deliver \/ Begin
  BY <1>1, <1>5 DEF Compile, Study, FindReturns, Deliver, Begin, compileVars
<1>6. CASE UNCHANGED <<vars, findVars>>
  BY <1>1, <1>6 DEF vars, compileVars
<1> QED BY <1>2, <1>3, <1>4, <1>5, <1>6 DEF NextFind, Enumerate

\* match() never has more callers than the limit on its recursion in the call
\* of pcre_exec, for every pattern, subject and call, and every message.
THEOREM DepthIsBounded == SpecFind => []DepthBounded
<1>1. Init => DepthInv
  BY StackEmpty DEF Init, InitExec, NoJob, C!InitCompile, DepthInv, StackInv, DepthBounded,
     MayCall
<1>2. DepthInv /\ [NextFind]_<<vars, findVars>> => DepthInv'
  BY NextKeepsDepth
<1>3. DepthInv => DepthBounded
  BY DEF DepthInv, StackInv
<1> QED BY <1>1, <1>2, <1>3, PTL DEF SpecFind

-----------------------------------------------------------------------------
(* The compiler.  Of an item it matters only whether the compiler reads on   *)
(* within its group, fails, or opens a group.                               *)

\* The counts of the compiler.
Counts == {"bracount", "names", "final_bracount"}
Numbers == <<cd.bracount, cd.names, cd.final_bracount>>

\* A step that reads on, within the group it is in.
ReadsOn == /\ Counts \subseteq DOMAIN cd' /\ UNCHANGED <<Numbers, group, outer, re>>
           /\ at' \in {"branch", "class"}

\* A step that ends with an error.
Fails == at' = "ended" /\ errorcode' # 0 /\ UNCHANGED <<cd, group, outer, re>>

\* Writing an instruction is reading on.
LEMMA EmitsReads ==
  ASSUME Counts \subseteq DOMAIN cd, at = "branch", NEW ins, NEW b, NEW p, C!Emits(ins, b, p)
  PROVE  ReadsOn
BY DEF C!Emits, C!Goes, C!fixedVars, ReadsOn, Counts, Numbers

\* So is an error the end.
LEMMA FailWithFails ==
  ASSUME NEW e, e # 0, C!FailWith(e)
  PROVE  Fails
BY DEF C!FailWith, Fails

\* The loop goes on, with what it shares changed but for the numbers.
LEMMA GoesReads ==
  ASSUME Counts \subseteq DOMAIN cd, at = "branch", NEW p, NEW i, NEW b, NEW shared,
         C!Goes(p, i, b, shared), Counts \subseteq DOMAIN shared, shared.bracount = cd.bracount,
         shared.names = cd.names, shared.final_bracount = cd.final_bracount
  PROVE  ReadsOn
BY DEF C!Goes, C!fixedVars, ReadsOn, Counts, Numbers

\* A repeated group is copied; the numbers stay.
LEMMA RepeatGroupReads ==
  ASSUME Counts \subseteq DOMAIN cd, C!RepeatGroup
  PROVE  ReadsOn \/ Fails
<1>1. at = "branch"
  BY DEF C!RepeatGroup, C!Repeatable, C!Quantified, C!InBranch
<1>2. \/ C!FailWith(55)
      \/ \E q, i, b, r : C!EndRepeat(q, i, b, [cd EXCEPT !.hwm = r.hwm])
  BY DEF C!RepeatGroup
<1>3. ASSUME NEW q, NEW i, NEW b, NEW r, C!EndRepeat(q, i, b, [cd EXCEPT !.hwm = r.hwm])
      PROVE  ReadsOn
  <2>1. PICK shared : shared = [cd EXCEPT !.hwm = r.hwm]
    OBVIOUS
  <2>2. PICK new : new = [shared EXCEPT !.req_varyopt = @ \/ q.min # q.max]
    OBVIOUS
  <2>3. /\ Counts \subseteq DOMAIN new /\ new.bracount = cd.bracount /\ new.names = cd.names
        /\ new.final_bracount = cd.final_bracount
    BY <2>1, <2>2 DEF Counts
  <2>4. \E p, c : C!Goes(p, i, c, new)
    BY <1>3, <2>1, <2>2 DEF C!EndRepeat
  <2>. QED BY <1>1, <2>3, <2>4, GoesReads
<1>4. ASSUME C!FailWith(55) PROVE Fails
  BY <1>4, FailWithFails
<1>. QED BY <1>2, <1>3, <1>4

\* Items that neither open nor close a group.
LEMMA ReadingSteps ==
  ASSUME Counts \subseteq DOMAIN cd,
         \/ C!EndQuote \/ C!SkipIgnored \/ C!Circumflex \/ C!Dollar \/ C!Dot \/ C!NormalChar
         \/ C!ClassStart \/ C!EndClassQuote \/ C!ClassPosix \/ C!ClassEscape \/ C!ClassItem
         \/ C!CloseClass \/ C!NothingToRepeat \/ C!RepeatSingleItem \/ C!RepeatClassItem
         \/ C!RepeatGroup \/ C!RepeatFail \/ C!EmptyNegativeAssertion \/ C!Comment \/ C!Verb
         \/ C!ManualCallout
  PROVE  ReadsOn \/ Fails
<1> USE DEF Counts, Numbers, ReadsOn, Fails, C!FailWith, C!fixedVars, C!Goes, C!InBranch, C!Item
<1>1. CASE C!EndQuote BY <1>1 DEF C!EndQuote
<1>2. CASE C!SkipIgnored BY <1>2 DEF C!SkipIgnored
<1>3. CASE C!Circumflex BY <1>3 DEF C!Circumflex, C!Emits
<1>4. CASE C!Dollar BY <1>4 DEF C!Dollar, C!Emits
<1>5. CASE C!Dot BY <1>5 DEF C!Dot, C!Emits
<1>6. CASE C!NormalChar BY <1>6 DEF C!NormalChar, C!EmitsChar, C!WithChar
<1>7. CASE C!ClassStart BY <1>7 DEF C!ClassStart, C!Emits
<1>8. CASE C!EndClassQuote BY <1>8 DEF C!EndClassQuote, C!ClassGoes, C!InClass
<1>9. CASE C!ClassPosix BY <1>9 DEF C!ClassPosix, C!ClassGoes, C!InClass
<1>10. CASE C!ClassEscape BY <1>10 DEF C!ClassEscape, C!ReadClassEscape, C!ClassGoes, C!InClassEscape, C!InClass
<1>11. CASE C!ClassItem BY <1>11 DEF C!ClassItem, C!AddItem, C!AddRange, C!InClass
<1>12. CASE C!CloseClass BY <1>12 DEF C!CloseClass, C!WithChar
<1>13. CASE C!NothingToRepeat BY <1>13 DEF C!NothingToRepeat
<1>14. CASE C!RepeatSingleItem BY <1>14 DEF C!RepeatSingleItem, C!RepeatSingleBy, C!EndRepeat, C!NoPartial, C!Repeatable, C!Quantified
<1>15. CASE C!RepeatClassItem BY <1>15 DEF C!RepeatClassItem, C!RepeatClassBy, C!EndRepeat, C!NoPartial, C!Repeatable, C!Quantified
<1>16. CASE C!RepeatGroup
  BY <1>16, RepeatGroupReads
<1>17. CASE C!RepeatFail BY <1>17 DEF C!RepeatFail, C!EndRepeat, C!Repeatable, C!Quantified
<1>18. CASE C!EmptyNegativeAssertion BY <1>18 DEF C!EmptyNegativeAssertion, C!Emits, C!After, C!GroupAt
<1>19. CASE C!Comment BY <1>19 DEF C!Comment, C!After, C!GroupAt
<1>20. CASE C!Verb
  <2>1. PICK end, instructions, b, accepts :
          \/ C!FailWith(59) \/ C!FailWith(60)
          \/ C!Goes(end + 1, instructions, b, [cd EXCEPT !.had_accept = accepts])
    BY <1>20 DEF C!Verb
  <2>. QED BY <1>20, <2>1 DEF C!Verb, C!IsVerb, C!After, C!GroupAt
<1>21. CASE C!ManualCallout BY <1>21 DEF C!ManualCallout, C!Emits, C!After, C!GroupAt
<1> QED BY <1>1, <1>2, <1>3, <1>4, <1>5, <1>6, <1>7, <1>8, <1>9, <1>10, <1>11, <1>12,
          <1>13, <1>14, <1>15, <1>16, <1>17, <1>18, <1>19, <1>20, <1>21

\* The step opens a group, which gets the next number if it captures.
CountedGroup(g) == /\ {"max_bracount", "orig_bracount"} \subseteq DOMAIN g
                   /\ g.max_bracount \in Nat /\ g.orig_bracount \in Nat

\* A name is added for the group that is opened.
Named == \E p \in Nat :
  cd'.names = C!AddName(C!Text(C!Pattern, p, C!WordEnd(p)), cd.bracount + 1)

\* A step that opens a group inside the one it is in.
Opens ==
  /\ \/ cd'.bracount = cd.bracount /\ cd'.names = cd.names
     \/ cd'.bracount = cd.bracount + 1 /\ (cd'.names = cd.names \/ Named)
  /\ Counts \subseteq DOMAIN cd' /\ UNCHANGED cd.final_bracount
  /\ {"max_bracount", "orig_bracount"} \subseteq DOMAIN group'
  /\ group'.max_bracount = cd'.bracount /\ group'.orig_bracount = cd'.bracount
  /\ \E b : outer' = Append(outer, [branch |-> b, group |-> group])
  /\ at' \in {"branch", "class"} /\ re' = re

\* Opening a group keeps the branch it is in for later.
LEMMA OpenOpens ==
  ASSUME NEW bracket, NEW cond, NEW p, NEW options, NEW reset, NEW shared,
         C!Open(bracket, cond, p, options, reset, shared), at = "branch",
         Counts \subseteq DOMAIN shared, shared.final_bracount = cd.final_bracount,
         \/ shared.bracount = cd.bracount /\ shared.names = cd.names
         \/ shared.bracount = cd.bracount + 1 /\ (shared.names = cd.names \/ (cd' = shared => Named))
  PROVE  Opens
<1>1. cd' = shared
  BY DEF C!Open
<1>2. \/ cd'.bracount = cd.bracount /\ cd'.names = cd.names
      \/ cd'.bracount = cd.bracount + 1 /\ (cd'.names = cd.names \/ Named)
  BY <1>1
<1>. QED BY <1>1, <1>2 DEF C!Open, C!NewGroup, C!fixedVars, Opens, Counts

\* A group that captures gets the next number.
LEMMA OpenNumberedOpens ==
  ASSUME NEW p, NEW shared, C!OpenNumbered(p, shared), Counts \subseteq DOMAIN shared,
         at = "branch", shared.bracount = cd.bracount, shared.final_bracount = cd.final_bracount,
         shared.names = cd.names \/ (cd'.names = shared.names => Named)
  PROVE  Opens
<1>1. PICK new : new = [shared EXCEPT !.bracount = @ + 1]
  OBVIOUS
<1>2. /\ Counts \subseteq DOMAIN new /\ new.bracount = cd.bracount + 1
      /\ new.final_bracount = cd.final_bracount /\ new.names = shared.names
  BY <1>1 DEF Counts
<1>3. PICK bracket, options : C!Open(bracket, <<>>, p, options, FALSE, new)
  BY <1>1 DEF C!OpenNumbered
<1>4. new.names = cd.names \/ (cd' = new => Named)
  BY <1>2
<1>. QED BY <1>2, <1>3, <1>4, OpenOpens

\* Items that begin with a parenthesis and may open a group.
LEMMA OpeningSteps ==
  ASSUME Counts \subseteq DOMAIN cd, cd.bracount \in Nat,
         \/ C!CapturingGroup \/ C!UncapturingGroup \/ C!OptionGroup \/ C!NamedGroup \/ C!BadGroup
         \/ C!ConditionalGroup
  PROVE  ReadsOn \/ Fails \/ Opens
<1>0. C!GroupAt => at = "branch"
  BY DEF C!GroupAt, C!Item, C!InBranch
<1>01. ASSUME NEW op, NEW p, C!OpenPlain(op, p), at = "branch" PROVE Opens
  BY <1>01, OpenOpens DEF C!OpenPlain
<1>1. CASE C!CapturingGroup
  BY <1>1, <1>0, <1>01, OpenNumberedOpens DEF C!CapturingGroup
<1>2. CASE C!UncapturingGroup
  <2>1. at = "branch"
    BY <1>0, <1>2 DEF C!UncapturingGroup, C!After
  <2>2. \/ \E op, p : C!OpenPlain(op, p)
        \/ C!Open(C!Bracketed("BRA"), <<>>, ptr + 3, C!Options, TRUE, cd)
    BY <1>2 DEF C!UncapturingGroup
  <2>. QED BY <1>01, <2>1, <2>2, OpenOpens
<1>3. CASE C!OptionGroup
  <2>1. at = "branch"
    BY <1>3 DEF C!OptionGroup, C!After, C!GroupAt, C!Item, C!InBranch
  <2>2. PICK flags : \/ C!FailWith(12)
                     \/ \E p, options : C!Open(C!Bracketed("BRA"), <<>>, p, options, FALSE,
                                               [cd EXCEPT !.external_flags = flags])
                     \/ \E p, instructions, b, options :
                          C!Goes(p, instructions, b, [[cd EXCEPT !.external_flags = flags]
                                                      EXCEPT !.external_options = options])
                     \/ \E p, instructions, b :
                          C!Goes(p, instructions, b, [cd EXCEPT !.external_flags = flags])
    BY <1>3 DEF C!OptionGroup
  <2>3. PICK shared : shared = [cd EXCEPT !.external_flags = flags]
    OBVIOUS
  <2>4. /\ Counts \subseteq DOMAIN shared /\ shared.bracount = cd.bracount
        /\ shared.bracount = cd.bracount
        /\ shared.names = cd.names /\ shared.final_bracount = cd.final_bracount
    BY <2>3 DEF Counts
  <2>5. CASE C!FailWith(12)
    BY <2>5, FailWithFails
  <2>6. ASSUME NEW p, NEW options, C!Open(C!Bracketed("BRA"), <<>>, p, options, FALSE, shared)
        PROVE  Opens
    BY <2>1, <2>4, <2>6, OpenOpens
  <2>7. ASSUME NEW p, NEW i, NEW b, NEW options,
               C!Goes(p, i, b, [shared EXCEPT !.external_options = options])
        PROVE  ReadsOn
    BY <2>1, <2>4, <2>7, GoesReads DEF Counts
  <2>8. ASSUME NEW p, NEW i, NEW b, C!Goes(p, i, b, shared)
        PROVE  ReadsOn
    BY <2>1, <2>4, <2>8, GoesReads
  <2>. QED BY <2>2, <2>3, <2>5, <2>6, <2>7, <2>8
<1>4. CASE C!NamedGroup
  <2>1. at = "branch"
    BY <1>0, <1>4 DEF C!NamedGroup, C!IsNamedGroup, C!After
  <2>2. PICK p \in Nat : p = C!NameStart
    <3>1. C!Here # 0
      BY <1>4 DEF C!NamedGroup, C!IsNamedGroup, C!After, C!GroupAt, C!Item
    <3>2. ptr \in 0..(Len(C!Pattern) - 1)
      BY <3>1 DEF C!Here, C!At
    <3>3. ptr + 3 \in Nat /\ ptr + 4 \in Nat
      BY <3>2
    <3>. QED BY <3>3 DEF C!NameStart
  <2>3. PICK shared : shared = [cd EXCEPT !.names =
                                  C!AddName(C!Text(C!Pattern, p, C!WordEnd(p)), cd.bracount + 1)]
    OBVIOUS
  <2>4. \/ \E e : e # 0 /\ C!FailWith(e)
        \/ \E q : C!OpenNumbered(q, shared) \/ C!OpenNumbered(q, cd)
    BY <1>4, <2>2, <2>3 DEF C!NamedGroup
  <2>5. /\ Counts \subseteq DOMAIN shared /\ shared.bracount = cd.bracount
        /\ shared.final_bracount = cd.final_bracount
        /\ shared.names = C!AddName(C!Text(C!Pattern, p, C!WordEnd(p)), cd.bracount + 1)
    BY <2>3 DEF Counts
  <2>6. cd'.names = shared.names => Named
    BY <2>5 DEF Named
  <2>7. ASSUME NEW q, C!OpenNumbered(q, shared) PROVE Opens
    BY <2>1, <2>5, <2>6, <2>7, OpenNumberedOpens
  <2>8. ASSUME NEW q, C!OpenNumbered(q, cd) PROVE Opens
    BY <2>1, <2>8, OpenNumberedOpens
  <2>. QED BY <2>4, <2>7, <2>8, FailWithFails
<1>5. CASE C!BadGroup
  BY <1>5, FailWithFails DEF C!BadGroup
<1>6. CASE C!ConditionalGroup
  <2>1. at = "branch"
    BY <1>6 DEF C!ConditionalGroup, C!After, C!GroupAt, C!Item, C!InBranch
  <2>2. ASSUME NEW cond, NEW p, C!Open(C!Bracketed("COND"), cond, p, C!Options, FALSE, cd)
        PROVE  Opens
    BY <2>1, <2>2, OpenOpens
  <2>3. ASSUME NEW c, NEW chosen, C!OpenCondition(c, chosen)
        PROVE  Fails \/ Opens
    BY <2>2, <2>3, FailWithFails DEF C!OpenCondition
  <2>. QED BY <1>6, <2>2, <2>3 DEF C!ConditionalGroup, C!OpenConditionOf
<1> QED BY <1>1, <1>2, <1>3, <1>4, <1>5, <1>6

\* Items that refer to a group, and the other escapes.
LEMMA ReferringSteps ==
  ASSUME Counts \subseteq DOMAIN cd,
         C!ReferenceByName \/ C!CallByName \/ C!CallByNumber \/ C!EscapeItem
  PROVE  ReadsOn \/ Fails
<1>0. at = "branch"
  BY DEF C!ReferenceByName, C!CallByName, C!CallByNumber, C!EscapeItem, C!After, C!GroupAt, C!Item, C!InBranch
<1>1. ASSUME NEW n, NEW b, NEW p, C!EmitsReference(n, b, p) PROVE ReadsOn
  <2>1. PICK i, c, bits, top :
          C!Goes(p, i, c, [[cd EXCEPT !.backref_map = bits] EXCEPT !.top_backref = top])
    BY <1>1 DEF C!EmitsReference
  <2>. QED BY <1>0, <2>1, GoesReads DEF Counts
<1>2. ASSUME NEW n, NEW b, NEW p, C!EmitsCall(n, b, p) PROVE ReadsOn \/ Fails
  BY <1>0, <1>2, GoesReads, FailWithFails DEF C!EmitsCall, Counts
<1>3. ASSUME NEW start, NEW t, NEW call, NEW b, C!ByName(start, t, call, b)
      PROVE  ReadsOn \/ Fails
  BY <1>1, <1>2, <1>3, FailWithFails DEF C!ByName
<1>4. ASSUME NEW start, NEW t, NEW b, C!ByNumber(start, t, b)
      PROVE  ReadsOn \/ Fails
  BY <1>1, <1>2, <1>4, FailWithFails DEF C!ByNumber
<1>5. CASE C!ReferenceByName
  BY <1>3, <1>5 DEF C!ReferenceByName
<1>6. CASE C!CallByName
  BY <1>3, <1>6 DEF C!CallByName
<1>7. CASE C!CallByNumber
  BY <1>4, <1>7 DEF C!CallByNumber
<1>8. ASSUME NEW p, NEW b, C!CallEscape(p, b) PROVE ReadsOn \/ Fails
  <2>1. \/ C!FailWith(57)
        \/ \E q, t : C!ByNumber(q, t, b)
        \/ \E q, t : C!ByName(q, t, TRUE, b)
    BY <1>8 DEF C!CallEscape
  <2>2. ASSUME C!FailWith(57) PROVE Fails
    BY <2>2, FailWithFails
  <2>3. ASSUME NEW q, NEW t, C!ByNumber(q, t, b) PROVE ReadsOn \/ Fails
    BY <1>4, <2>3
  <2>4. ASSUME NEW q, NEW t, C!ByName(q, t, TRUE, b) PROVE ReadsOn \/ Fails
    BY <1>3, <2>4
  <2>. QED BY <2>1, <2>2, <2>3, <2>4
<1>9. ASSUME NEW c, NEW b, NEW p, C!EmitsChar(c, b, p) PROVE ReadsOn
  BY <1>0, <1>9, GoesReads DEF C!EmitsChar, C!WithChar, Counts
<1>10. ASSUME NEW esc, NEW p, NEW b, C!ReadEscape(esc, p, b) PROVE ReadsOn \/ Fails
  <2>1. \/ \E e : e # 0 /\ C!FailWith(e)
        \/ \E q, i, c : C!Goes(q, i, c, cd)
        \/ C!CallEscape(p, b)
        \/ C!NameEscape(p, b)
        \/ C!EmitsReference(esc.n, b, p)
        \/ \E ins, c : C!Emits(ins, c, p)
        \/ C!EmitsChar(esc.n, branch, p)
    <3>1. CASE esc.err # 0 BY <1>10, <3>1 DEF C!ReadEscape
    <3>2. CASE esc.err = 0 /\ esc.kind \in {"Q", "E"} BY <1>10, <3>2 DEF C!ReadEscape
    <3>3. CASE esc.err = 0 /\ esc.kind = "g" BY <1>10, <3>3 DEF C!ReadEscape
    <3>4. CASE esc.err = 0 /\ esc.kind \notin {"Q", "E", "g"} BY <1>10, <3>4 DEF C!ReadEscape
    <3>. QED BY <3>1, <3>2, <3>3, <3>4
  <2>2. ASSUME NEW e, e # 0, C!FailWith(e) PROVE Fails
    BY <2>2, FailWithFails
  <2>3. ASSUME NEW q, NEW i, NEW c, C!Goes(q, i, c, cd) PROVE ReadsOn
    BY <1>0, <2>3, GoesReads
  <2>4. ASSUME NEW ins, NEW c, C!Emits(ins, c, p) PROVE ReadsOn
    BY <1>0, <2>4, EmitsReads
  <2>5. ASSUME C!NameEscape(p, b) PROVE ReadsOn \/ Fails
    <3>1. \E q, t : C!ByName(q, t, FALSE, b)
      BY <2>5 DEF C!NameEscape
    <3>. QED BY <1>3, <3>1
  <2>. QED BY <1>1, <1>8, <1>9, <2>1, <2>2, <2>3, <2>4, <2>5
<1>11. CASE C!EscapeItem
  BY <1>10, <1>11 DEF C!EscapeItem, C!ReadEscapeAt
<1> QED BY <1>5, <1>6, <1>7, <1>11

-----------------------------------------------------------------------------
\* The groups are counted by natural numbers, whatever the pattern.
CountsInv ==
  /\ Counts \subseteq DOMAIN cd /\ cd.bracount \in Nat
  /\ CountedGroup(group) /\ Stack(outer)
  /\ \A i \in DOMAIN outer : CountedGroup(outer[i].group)
  /\ at = "ended" /\ errorcode = 0 => re.top_bracket \in Nat

\* Reading on, or failing, keeps the counts.
LEMMA ReadsKeepsCounts ==
  ASSUME CountsInv, ReadsOn \/ Fails PROVE CountsInv'
BY DEF CountsInv, ReadsOn, Fails, Counts, Numbers, CountedGroup

\* The count at the end of a branch, or the highest of the branches before.
LEMMA WithBracountIsNatural ==
  ASSUME CountsInv
  PROVE  /\ C!WithBracount \in Nat /\ cd.bracount <= C!WithBracount
         /\ group.max_bracount <= C!WithBracount
BY DEF CountsInv, C!WithBracount, CountedGroup

\* The groups and branches around one that is opened.
LEMMA OpensKeepsCounts ==
  ASSUME CountsInv, Opens PROVE CountsInv'
<1>1. PICK b : outer' = Append(outer, [branch |-> b, group |-> group])
  BY DEF Opens
<1>2. PICK f : f = [branch |-> b, group |-> group]
  OBVIOUS
<1>3. PICK E : outer \in Seq(E)
  BY DEF CountsInv, Stack
<1>4. outer \in Seq(E \cup {f}) /\ f \in E \cup {f}
  BY <1>3, SeqMonotonic
<1>5. Stack(outer')
  BY <1>1, <1>2, <1>4 DEF Stack
<1>6. \A i \in DOMAIN outer' : CountedGroup(outer'[i].group)
  <2>1. ASSUME NEW i \in DOMAIN outer' PROVE outer'[i] = f \/ (i \in DOMAIN outer /\ outer'[i] = outer[i])
    BY <1>1, <1>2, <1>4
  <2>2. f.group = group
    BY <1>2
  <2>3. CountedGroup(group) /\ \A i \in DOMAIN outer : CountedGroup(outer[i].group)
    BY DEF CountsInv
  <2>. QED BY <2>1, <2>2, <2>3
<1>7. /\ Counts \subseteq DOMAIN cd' /\ cd'.bracount \in Nat
      /\ CountedGroup(group') /\ at' # "ended"
  BY DEF Opens, CountsInv, CountedGroup
<1>8. CountedGroup(group)'
  BY <1>7 DEF CountedGroup
<1>. QED BY <1>5, <1>6, <1>7, <1>8 DEF CountsInv, CountedGroup

\* What a branch adds to its group leaves the numbers alone.
LEMMA MergedIsCounted ==
  ASSUME NEW g, CountedGroup(g) PROVE CountedGroup(C!Merged(g))
BY DEF CountedGroup, C!Merged

\* What the next alternative does to the counts, if it is no error.
Turns == /\ \E alt : group' = [C!Merged(group) EXCEPT !.last_branch = alt, !.max_bracount = C!WithBracount]
         /\ cd' = IF group.reset THEN [cd EXCEPT !.bracount = group.orig_bracount] ELSE cd
         /\ at = "branch" /\ UNCHANGED <<at, outer, re>>

\* An alternative is an error, or turns to the next branch.
LEMMA AlternativeTurns ==
  ASSUME C!NextAlternative PROVE Fails \/ Turns
<1>1. CASE C!BadLookbehind
  <2>1. PICK e : e = IF C!BranchLength = C!HasAnyByte THEN 36 ELSE 25
    OBVIOUS
  <2>2. C!FailWith(e) /\ e # 0
    BY <1>1, <2>1 DEF C!NextAlternative
  <2>. QED BY <2>2, FailWithFails
<1>2. CASE ~C!BadLookbehind
  <2>1. PICK g : g = C!Merged(group)
    OBVIOUS
  <2>2. PICK n : n = C!WithBracount
    OBVIOUS
  <2>3. PICK alt : alt = Len(C!Measured) + 1
    OBVIOUS
  <2>4. group' = [g EXCEPT !.last_branch = alt, !.max_bracount = n]
    BY <1>2, <2>1, <2>2, <2>3 DEF C!NextAlternative
  <2>5. at = "branch"
    BY DEF C!NextAlternative, C!EndsBranch
  <2>. QED BY <1>2, <2>1, <2>2, <2>4, <2>5 DEF C!NextAlternative, C!fixedVars, Turns
<1>. QED BY <1>1, <1>2

\* What the end of a group does to them.
Closes == /\ group' = outer[Len(outer)].group /\ outer' = SubSeq(outer, 1, Len(outer) - 1)
           /\ cd' = [cd EXCEPT !.bracount = C!WithBracount]
           /\ at = "branch" /\ UNCHANGED <<at, re>> /\ outer # <<>>

\* The end of a group is an error, or closes it.
LEMMA EndGroupCloses ==
  ASSUME C!EndGroup PROVE Fails \/ Closes
<1>1. CASE \E e : e # 0 /\ C!FailWith(e)
  BY <1>1, FailWithFails
<1>2. CASE ~\E e : e # 0 /\ C!FailWith(e)
  <2>1. /\ group' = C!Last(outer).group /\ outer' = C!Front(outer)
        /\ cd' = [cd EXCEPT !.bracount = C!WithBracount]
        /\ UNCHANGED <<at, re>> /\ outer # <<>>
    BY <1>2 DEF C!EndGroup, C!fixedVars
  <2>2. at = "branch"
    BY DEF C!EndGroup, C!EndsBranch
  <2>. QED BY <2>1, <2>2 DEF C!Front, C!Last, Closes
<1>. QED BY <1>1, <1>2

\* The next alternative may take the count back to that of the group.
LEMMA AlternativeKeepsCounts ==
  ASSUME CountsInv, C!NextAlternative PROVE CountsInv'
<1>1. CASE Fails
  BY <1>1, ReadsKeepsCounts
<1>2. CASE Turns
  <2>1. PICK g : g = C!Merged(group)
    OBVIOUS
  <2>2. PICK n : n = C!WithBracount
    OBVIOUS
  <2>3. CountedGroup(g) /\ n \in Nat
    BY <2>1, <2>2, WithBracountIsNatural, MergedIsCounted DEF CountsInv
  <2>4. CountedGroup(group)'
    BY <1>2, <2>1, <2>2, <2>3 DEF CountedGroup, Turns
  <2>5. Counts \subseteq DOMAIN cd' /\ cd'.bracount \in Nat
    BY <1>2 DEF CountsInv, CountedGroup, Counts, Turns
  <2>. QED BY <1>2, <2>4, <2>5 DEF CountsInv, Turns
<1>. QED BY <1>1, <1>2, AlternativeTurns

\* The end of a group goes back to the group around it.
LEMMA EndGroupKeepsCounts ==
  ASSUME CountsInv, C!EndGroup PROVE CountsInv'
<1>1. CASE Fails
  BY <1>1, ReadsKeepsCounts
<1>2. CASE Closes
  <2>1. PICK E : outer \in Seq(E)
    BY DEF CountsInv, Stack
  <2>2. Len(outer) \in Nat /\ Len(outer) # 0 /\ DOMAIN outer = 1..Len(outer)
    BY <1>2, <2>1 DEF Closes
  <2>3. Stack(outer)'
    BY <1>2, StackPop DEF CountsInv, Closes
  <2>4. \A i \in DOMAIN outer' : i \in DOMAIN outer /\ outer'[i] = outer[i]
    BY <1>2, <2>1, <2>2 DEF Closes
  <2>5. CountedGroup(group)' /\ \A i \in DOMAIN outer' : CountedGroup(outer'[i].group)
    BY <1>2, <2>2, <2>4 DEF CountsInv, CountedGroup, Closes
  <2>6. Counts \subseteq DOMAIN cd' /\ cd'.bracount \in Nat
    BY <1>2, WithBracountIsNatural DEF CountsInv, Counts, Closes
  <2>. QED BY <1>2, <2>3, <2>5, <2>6 DEF CountsInv, CountedGroup, Closes
<1>. QED BY <1>1, <1>2, EndGroupCloses

\* Each pass begins with a group of its own.
LEMMA PassKeepsCounts ==
  ASSUME NEW n, NEW options, NEW shared, C!StartsPass(n, options, shared),
         Counts \subseteq DOMAIN shared, shared.bracount \in Nat
  PROVE  CountsInv'
<1>1. Stack(<<>>)
  BY EmptySeq DEF Stack
<1>2. DOMAIN <<>> = {}
  OBVIOUS
<1>. QED BY <1>1, <1>2 DEF C!StartsPass, C!NewGroup, CountsInv, CountedGroup, Stack

\* The count goes into the compiled pattern.
LEMMA FinishKeepsCounts ==
  ASSUME CountsInv, C!Finish PROVE CountsInv'
<1>1. CASE \E e : e # 0 /\ C!FailWith(e)
  BY <1>1, FailWithFails, ReadsKeepsCounts
<1>2. CASE ~\E e : e # 0 /\ C!FailWith(e)
  <2>1. UNCHANGED <<cd, group, outer>> /\ C!FinishCode(C!Resolved(C!Whole))
    BY <1>2 DEF C!Finish, C!EndOfPattern
  <2>2. re'.top_bracket = C!WithBracount
    BY <2>1 DEF C!FinishCode, C!FinishWith, C!RealPcre
  <2>. QED BY <2>1, <2>2, WithBracountIsNatural DEF CountsInv, CountedGroup, Stack
<1>. QED BY <1>1, <1>2

\* Every step of the compiler keeps the counts.
LEMMA CompileKeepsCounts ==
  ASSUME CountsInv, C!Compile PROVE CountsInv'
<1>1. CASE C!Start
  <2>1. CASE C!BadSource # 0
    BY <1>1, <2>1, FailWithFails, ReadsKeepsCounts DEF C!Start
  <2>2. CASE C!BadSource = 0
    <3>1. \E nl, bsr : C!StartsPass(1, source.options, C!NewCd(nl, bsr, source.options))
      BY <1>1, <2>2 DEF C!Start
    <3>. QED BY <3>1, PassKeepsCounts DEF C!NewCd, Counts
  <2>. QED BY <2>1, <2>2
<1>2. CASE C!SecondPass
  <2>1. PICK shared : shared = C!Anew
    OBVIOUS
  <2>2. Counts \subseteq DOMAIN shared /\ shared.bracount \in Nat
    BY <2>1 DEF C!Anew, CountsInv, Counts
  <2>. QED BY <1>2, <2>1, <2>2, PassKeepsCounts DEF C!SecondPass
<1>3. CASE C!Finish
  BY <1>3, FinishKeepsCounts
<1>4. CASE C!ReadItem
  <2>1. Counts \subseteq DOMAIN cd /\ cd.bracount \in Nat
    BY DEF CountsInv
  <2>2. CASE C!NextAlternative BY <2>2, AlternativeKeepsCounts
  <2>3. CASE C!EndGroup BY <2>3, EndGroupKeepsCounts
  <2>4. CASE ~C!NextAlternative /\ ~C!EndGroup
    <3>1. ReadsOn \/ Fails \/ Opens
      BY <1>4, <2>1, <2>4, ReadingSteps, OpeningSteps, ReferringSteps DEF C!ReadItem
    <3>. QED BY <3>1, ReadsKeepsCounts, OpensKeepsCounts
  <2>. QED BY <2>2, <2>3, <2>4
<1>. QED BY <1>1, <1>2, <1>3, <1>4 DEF C!Compile

-----------------------------------------------------------------------------
(* The string, cut into pieces and put together again.                      *)

\* What lies between two places of a text.
LEMMA TextType ==
  ASSUME NEW Elems, NEW s, s \in Seq(Elems), NEW p \in Nat, NEW q \in Nat, p <= q, q <= Len(s)
  PROVE  Text(s, p, q) \in Seq(Elems) /\ Len(Text(s, p, q)) = q - p
<1>1. Len(s) \in Nat /\ p + 1 \in Int /\ q \in Int /\ \A i \in (p + 1)..q : i \in 1..Len(s)
  BY LenProperties
<1>2. \A i \in (p + 1)..q : s[i] \in Elems
  BY <1>1, ElementOfSeq
<1>3. /\ SubSeq(s, p + 1, q) \in Seq(Elems)
      /\ Len(SubSeq(s, p + 1, q)) = IF p + 1 <= q THEN q - (p + 1) + 1 ELSE 0
  BY <1>1, <1>2, SubSeqProperties
<1>. QED BY <1>1, <1>3 DEF Text

\* A text is cut in two at a place in it.
LEMMA TextParts ==
  ASSUME NEW Elems, NEW s, s \in Seq(Elems), NEW p \in Nat, NEW q \in Nat, NEW r \in Nat,
         p <= q, q <= r, r <= Len(s)
  PROVE  Text(s, p, r) = Then(Text(s, p, q), Text(s, q, r))
<1>1. Len(s) \in Nat
  BY LenProperties
<1>2. p + 1 \in 1..(Len(s) + 1) /\ q \in (p + 1) - 1..Len(s) /\ r \in q..Len(s)
  BY <1>1
<1>3. SubSeq(s, p + 1, q) \o SubSeq(s, q + 1, r) = SubSeq(s, p + 1, r)
  BY <1>2, ConcatAdjacentSubSeq
<1>. QED BY <1>3 DEF Text, Then

\* And at two places in three.
LEMMA TextInThree ==
  ASSUME NEW Elems, NEW s, s \in Seq(Elems), NEW p \in Nat, NEW b \in Nat, NEW e \in Nat, NEW r \in Nat,
         p <= b, b <= e, e <= r, r <= Len(s)
  PROVE  /\ Text(s, p, b) \in Seq(Elems) /\ Len(Text(s, p, b)) = b - p
         /\ Text(s, b, e) \in Seq(Elems) /\ Len(Text(s, b, e)) = e - b
         /\ Text(s, e, r) \in Seq(Elems)
         /\ Text(s, p, r) = Then(Text(s, p, b), Then(Text(s, b, e), Text(s, e, r)))
<1>1. Len(s) \in Nat
  BY LenProperties
<1>2. b <= Len(s) /\ e <= Len(s) /\ b <= r
  BY <1>1
<1>3. Text(s, p, b) \in Seq(Elems) /\ Len(Text(s, p, b)) = b - p
  BY <1>2, TextType
<1>4. Text(s, b, e) \in Seq(Elems) /\ Len(Text(s, b, e)) = e - b
  BY <1>2, TextType
<1>5. Text(s, e, r) \in Seq(Elems)
  BY <1>2, TextType
<1>6. Text(s, b, r) = Then(Text(s, b, e), Text(s, e, r))
  BY <1>2, TextParts
<1>7. Text(s, p, r) = Then(Text(s, p, b), Text(s, b, r))
  BY <1>2, TextParts
<1>. QED BY <1>3, <1>4, <1>5, <1>6, <1>7

\* New text put where two ways to cut a text differ.
LEMMA SplicedBetween ==
  ASSUME NEW Elems, NEW s, NEW t, NEW u, NEW v, NEW new, s \in Texts(Elems), t \in Texts(Elems),
         u \in Texts(Elems), v \in Texts(Elems), Then(s, t) = Then(u, v)
  PROVE  Spliced(Then(s, t), Size(s), Size(u), new) = Then(Then(s, new), v)
<1>1. SubSeq(Then(s, t), 1, Size(s)) = s
  BY FrontOfTwo DEF Texts, Size
<1>2. SubSeq(Then(s, t), Size(u) + 1, Len(Then(s, t))) = v
  BY BackOfTwo DEF Texts, Size
<1>. QED BY <1>1, <1>2 DEF Spliced, Then

\* New text put for the third of four parts.
LEMMA SplicedParts ==
  ASSUME NEW Elems, NEW a, NEW x, NEW y, NEW z, NEW new, a \in Texts(Elems), x \in Texts(Elems),
         y \in Texts(Elems), z \in Texts(Elems), new \in Texts(Elems)
  PROVE  Spliced(Then(a, Then(x, Then(y, z))), Size(Then(a, x)), Size(Then(Then(a, x), y)), new)
           = Then(Then(a, Then(x, new)), z)
<1>1. PICK ax : ax = Then(a, x)
  OBVIOUS
<1>2. PICK axy : axy = Then(ax, y)
  OBVIOUS
<1>3. PICK yz : yz = Then(y, z)
  OBVIOUS
<1>4. ax \in Texts(Elems)
  BY <1>1, SizedThen
<1>5. axy \in Texts(Elems)
  BY <1>2, <1>4, SizedThen
<1>6. yz \in Texts(Elems)
  BY <1>3, SizedThen
<1>7. Then(a, Then(x, yz)) = Then(ax, yz)
  BY <1>1, <1>6, ThenInGroups
<1>8. Then(ax, yz) = Then(axy, z)
  BY <1>2, <1>3, <1>4, ThenInGroups
<1>9. Spliced(Then(ax, yz), Size(ax), Size(axy), new) = Then(Then(ax, new), z)
  BY <1>4, <1>5, <1>6, <1>8, SplicedBetween
<1>10. Then(ax, new) = Then(a, Then(x, new))
  BY <1>1, ThenInGroups
<1>. QED BY <1>1, <1>2, <1>3, <1>7, <1>9, <1>10

\* TextInThree, with the lengths.
LEMMA SizedText ==
  ASSUME NEW Elems, NEW s, NEW p \in Nat, NEW b \in Nat, NEW e \in Nat, NEW l \in Nat, s \in Texts(Elems), 
         p <= b, b <= e, e <= l, l <= Size(s)
  PROVE  /\ Text(s, p, b) \in Texts(Elems) /\ Size(Text(s, p, b)) = b - p
         /\ Text(s, b, e) \in Texts(Elems) /\ Size(Text(s, b, e)) = e - b
         /\ Text(s, e, l) \in Texts(Elems)
         /\ Text(s, p, l) = Then(Text(s, p, b), Then(Text(s, b, e), Text(s, e, l)))
BY TextInThree DEF Texts, Size

\* Text s from p on, of length l in all, now behind a: b and e are at m and n.

Shifted(s, a, p, b, e, l, m, n) ==
  /\ s \in Texts(Nat) /\ a \in Texts(Nat)
  /\ {p, b, e, l, m, n} \subseteq Nat /\ Size(a) \in Nat
  /\ p <= b /\ b <= e /\ e <= l /\ l <= Size(s)
  /\ m = Size(a) + (b - p) /\ n = m + (e - b)

\* What stands behind a is changed in place between b and e.
LEMMA SplicedText ==
  ASSUME NEW s, NEW a, NEW p, NEW b, NEW e, NEW l, NEW m, NEW n,
         Shifted(s, a, p, b, e, l, m, n), NEW new, new \in Texts(Nat)
  PROVE  /\ Spliced(Then(a, Text(s, p, l)), m, n, new)
                 = Then(Then(a, Then(Text(s, p, b), new)), Text(s, e, l))
         /\ Size(Then(a, Then(Text(s, p, b), new))) = m + Size(new)
         /\ Then(a, Then(Text(s, p, b), new)) \in Texts(Nat)
<1>0. /\ s \in Texts(Nat) /\ a \in Texts(Nat)
      /\ p \in Nat /\ b \in Nat /\ e \in Nat /\ l \in Nat /\ Size(a) \in Nat
      /\ p <= b /\ b <= e /\ e <= l /\ l <= Size(s)
      /\ m = Size(a) + (b - p) /\ n = m + (e - b)
  BY DEF Shifted
<1>1. PICK x, y, z : x = Text(s, p, b) /\ y = Text(s, b, e) /\ z = Text(s, e, l)
  OBVIOUS
<1>2. /\ x \in Texts(Nat) /\ Size(x) = b - p
      /\ y \in Texts(Nat) /\ Size(y) = e - b
      /\ z \in Texts(Nat)
      /\ Text(s, p, l) = Then(x, Then(y, z))
  BY <1>0, <1>1, SizedText
<1>3. Then(a, x) \in Texts(Nat) /\ Size(Then(a, x)) = m
  BY <1>0, <1>2, SizedThen
<1>4. Size(Then(Then(a, x), y)) = n
  BY <1>0, <1>2, <1>3, SizedThen
<1>5. Spliced(Then(a, Then(x, Then(y, z))), m, n, new) = Then(Then(a, Then(x, new)), z)
  <2>1. Spliced(Then(a, Then(x, Then(y, z))), Size(Then(a, x)), Size(Then(Then(a, x), y)), new)
           = Then(Then(a, Then(x, new)), z)
    BY <1>0, <1>2, SplicedParts
  <2>. QED BY <1>3, <1>4, <2>1
<1>6. Then(x, new) \in Texts(Nat) /\ Size(Then(x, new)) = (b - p) + Size(new)
  BY <1>0, <1>2, SizedThen
<1>7. Then(a, Then(x, new)) \in Texts(Nat) /\ Size(Then(a, Then(x, new))) = m + Size(new)
  <2>1. PICK xnew \in Texts(Nat) : xnew = Then(x, new)
    BY <1>6
  <2>2. Then(a, xnew) \in Texts(Nat) /\ Size(Then(a, xnew)) = Size(a) + Size(xnew)
    BY <1>0, SizedThen
  <2>3. Size(new) \in Nat
    BY SizeType
  <2>4. Size(a) + Size(xnew) = m + Size(new)
    BY <1>0, <1>6, <2>1, <2>3
  <2>. QED BY <2>1, <2>2, <2>4
<1>. QED BY <1>1, <1>2, <1>5, <1>7

\* The places of a match are natural numbers.
Natural(m) == Begins(m) \in Nat /\ Past(m) \in Nat

\* The block answers text for each match.
BlockAnswersText ==
  request.method = "block" => \A i \in DOMAIN found : NewText(found[i]) \in Seq(Nat)

\* What there is to know about the matches of a message that replaces them.
Replaceable ==
  /\ String \in Seq(Nat) /\ Stack(found) /\ MatchesInOrder
  /\ \A i \in DOMAIN found : Natural(found[i])
  /\ request.method = "block" /\ BlockAnswersText

\* The string cut behind each match, with what the block answers for it.
Pieces == [i \in DOMAIN found |-> Before(i) \o NewText(found[i])]
Flat(i) == FlattenSeq(SubSeq(Pieces, 1, i))

\* What the copy of the string is after i replacements.
Halfway(i) == [text   |-> Then(Flat(i), Text(String, RestFrom(i + 1), Size(String))),
               offset |-> Size(Flat(i)) - RestFrom(i + 1)]

\* The places of a match, and the one before.
LEMMA PlacesInOrder ==
  ASSUME Replaceable, NEW i \in 1..Len(found)
  PROVE  /\ RestFrom(i) \in Nat /\ Begins(found[i]) \in Nat /\ Past(found[i]) \in Nat
         /\ RestFrom(i) <= Begins(found[i]) /\ Begins(found[i]) <= Past(found[i])
         /\ Past(found[i]) <= Size(String) /\ RestFrom(i + 1) = Past(found[i])
<1>1. DOMAIN found = 1..Len(found) /\ Len(found) \in Nat
  BY LenProperties DEF Replaceable, Stack
<1>2. Begins(found[i]) \in Nat /\ Past(found[i]) \in Nat
  BY <1>1 DEF Replaceable, Natural
<1>3. /\ RestFrom(i) <= Begins(found[i]) /\ Begins(found[i]) <= Past(found[i])
      /\ Past(found[i]) <= Size(String)
  BY <1>1 DEF Replaceable, MatchesInOrder, Size
<1>4. RestFrom(i + 1) = Past(found[i])
  <2>1. i + 1 # 1 /\ (i + 1) - 1 = i
    BY <1>1
  <2>. QED BY <2>1 DEF RestFrom
<1>5. RestFrom(i) \in Nat
  <2>1. i # 1 => i - 1 \in DOMAIN found
    BY <1>1
  <2>. QED BY <2>1 DEF RestFrom, Replaceable, Natural
<1>. QED BY <1>2, <1>3, <1>4, <1>5

\* The text up to the end of a match, replaced, is a piece.
LEMMA PieceType ==
  ASSUME Replaceable, NEW i \in 1..Len(found)
  PROVE  /\ Pieces[i] = Then(Text(String, RestFrom(i), Begins(found[i])), NewText(found[i]))
         /\ NewText(found[i]) \in Texts(Nat)
         /\ Pieces[i] \in Texts(Nat)
<1>1. DOMAIN found = 1..Len(found)
  BY LenProperties DEF Replaceable, Stack
<1>2. NewText(found[i]) \in Texts(Nat)
  BY <1>1 DEF BlockAnswersText, Replaceable, Texts
<1>3. Pieces[i] = Then(Text(String, RestFrom(i), Begins(found[i])), NewText(found[i]))
  BY <1>1 DEF Pieces, Before, Then
<1>4. Text(String, RestFrom(i), Begins(found[i])) \in Texts(Nat)
  <2>1. PICK p \in Nat, b \in Nat, e \in Nat : p = RestFrom(i) /\ b = Begins(found[i]) /\ e = Past(found[i])
    BY PlacesInOrder
  <2>2. p <= b /\ b <= e /\ e <= Size(String)
    BY <2>1, PlacesInOrder
  <2>3. String \in Texts(Nat)
    BY DEF Replaceable, Texts
  <2>4. Text(String, p, b) \in Texts(Nat)
    BY <2>2, <2>3, SizeType, SizedText
  <2>. QED BY <2>1, <2>4
<1>. QED BY <1>2, <1>3, <1>4, SizedThen

\* The pieces are texts, one for each match.
LEMMA PiecesType ==
  ASSUME Replaceable
  PROVE  Pieces \in Seq(Texts(Nat)) /\ Len(Pieces) = Len(found) /\ Len(found) \in Nat
<1>1. PICK n \in Nat : n = Len(found) /\ DOMAIN found = 1..n
  BY LenProperties DEF Replaceable, Stack
<1>2. \A i \in 1..n : Pieces[i] \in Texts(Nat)
  BY <1>1, PieceType
<1>3. Pieces \in [1..n -> Texts(Nat)]
  BY <1>1, <1>2 DEF Pieces
<1>4. Pieces \in Seq(Texts(Nat)) /\ Len(Pieces) = n
  BY <1>3
<1>. QED BY <1>1, <1>4

\* Before the first piece there is nothing.
LEMMA FlatBegins == Flat(0) = <<>>
<1>1. SubSeq(Pieces, 1, 0) = <<>>
  BY SubSeqEmpty
<1>. QED BY <1>1, FlattenNothing DEF Flat

\* One replacement more is one piece more.
LEMMA FlatGoesOn ==
  ASSUME Replaceable, NEW i \in 1..Len(found)
  PROVE  /\ Flat(i - 1) \in Texts(Nat)
         /\ Flat(i) = Then(Flat(i - 1), Pieces[i])
<1>1. PICK ss \in Seq(Seq(Nat)) : ss = Pieces /\ Len(ss) = Len(found)
  BY PiecesType DEF Texts
<1>2. i \in 1..Len(ss)
  BY <1>1
<1>. QED BY <1>1, <1>2, FlattenPrefix DEF Flat, Texts

\* Before the first replacement it is the string.
LEMMA HalfwayBegins ==
  ASSUME Replaceable
  PROVE  Halfway(0) = [text |-> String, offset |-> 0]
<1>1. String \in Seq(Nat)
  BY DEF Replaceable
<1>2. RestFrom(0 + 1) = 0
  BY DEF RestFrom
<1>3. Text(String, 0, Size(String)) = String
  <2>1. SubSeq(String, 0 + 1, Len(String)) = String
    BY <1>1, SubSeqFull
  <2>. QED BY <2>1 DEF Text, Size
<1>4. Then(<<>>, String) = String
  BY <1>1, ThenNothing
<1>5. Size(<<>>) = 0
  BY DEF Size
<1>. QED BY <1>2, <1>3, <1>4, <1>5, FlatBegins DEF Halfway

\* A replacement in place makes of it what it is after one replacement more.
LEMMA HalfwayGoesOn ==
  ASSUME Replaceable, NEW i \in 1..Len(found)
  PROVE  Halfway(i) = ReplacedIn(Halfway(i - 1), found[i])
<1>1. PICK s \in Texts(Nat), l \in Nat : s = String /\ l = Size(s) /\ l <= Size(s)
  <2>1. String \in Texts(Nat)
    BY DEF Replaceable, Texts
  <2>. QED BY <2>1, SizeType
<1>2. PICK p \in Nat, b \in Nat, e \in Nat :
        p = RestFrom(i) /\ b = Begins(found[i]) /\ e = Past(found[i])
  BY PlacesInOrder
<1>3. p <= b /\ b <= e /\ e <= l /\ RestFrom(i + 1) = e
  BY <1>1, <1>2, PlacesInOrder
<1>4. PICK a \in Texts(Nat) : a = Flat(i - 1) /\ Size(a) \in Nat
  BY FlatGoesOn, SizeType
<1>5. PICK new \in Texts(Nat) : new = NewText(found[i]) /\ Size(new) \in Nat
  BY PieceType, SizeType
<1>6. PICK m \in Nat, n \in Nat : m = Size(a) + (b - p) /\ n = m + (e - b)
  BY <1>3, <1>4
<1>7. PICK next : next = Then(a, Then(Text(s, p, b), new))
  OBVIOUS
<1>8. Flat(i) = next
  BY <1>1, <1>2, <1>4, <1>5, <1>7, FlatGoesOn, PieceType
<1>9. /\ Spliced(Then(a, Text(s, p, l)), m, n, new) = Then(next, Text(s, e, l))
      /\ Size(next) = m + Size(new)
  <2>1. Shifted(s, a, p, b, e, l, m, n)
    BY <1>1, <1>3, <1>4, <1>6 DEF Shifted
  <2>2. /\ Spliced(Then(a, Text(s, p, l)), m, n, new)
             = Then(Then(a, Then(Text(s, p, b), new)), Text(s, e, l))
        /\ Size(Then(a, Then(Text(s, p, b), new))) = m + Size(new)
    BY <2>1, SplicedText
  <2>. QED BY <1>7, <2>2
<1>10. PICK before : before = Halfway(i - 1)
  OBVIOUS
<1>11. (i - 1) + 1 = i
  OBVIOUS
<1>12. before.text = Then(a, Text(s, p, l)) /\ before.offset = Size(a) - p
  BY <1>1, <1>2, <1>4, <1>10, <1>11 DEF Halfway
<1>13. b + before.offset = m /\ e + before.offset = n
  BY <1>4, <1>6, <1>12
<1>14. before.offset + Size(new) - (e - b) = Size(next) - e
  <2>1. PICK j \in Nat, k \in Nat : j = Size(a) /\ k = Size(new)
    BY <1>4, <1>5
  <2>2. before.offset = j - p /\ m = j + (b - p) /\ Size(next) = m + k
    BY <1>6, <1>9, <1>12, <2>1
  <2>3. (j - p) + k - (e - b) = (j + (b - p) + k) - e
    OBVIOUS
  <2>. QED BY <2>1, <2>2, <2>3
<1>15. Halfway(i) = [text |-> Then(next, Text(s, e, l)), offset |-> Size(next) - e]
  BY <1>1, <1>3, <1>8 DEF Halfway
<1>16. ReplacedIn(before, found[i])
         = [text |-> Spliced(before.text, b + before.offset, e + before.offset, new),
            offset |-> before.offset + Size(new) - (e - b)]
  BY <1>2, <1>5 DEF ReplacedIn, Offset, Size
<1>. QED BY <1>9, <1>10, <1>12, <1>13, <1>14, <1>15, <1>16

\* The string after all the replacements is the one put together of the pieces.
LEMMA ReplacedIsRenewed ==
  ASSUME Replaceable
  PROVE  Replaced = Renewed
<1>1. PICK n \in Nat : n = Len(found) /\ n = Len(Pieces)
  BY PiecesType
<1>. DEFINE Eq(r) == r = [i \in 0..n |-> IF i = 0 THEN [text |-> String, offset |-> 0]
                                         ELSE ReplacedIn(r[i - 1], found[i])]
<1>2. PICK h : h = [i \in 0..n |-> Halfway(i)]
  OBVIOUS
<1>3. Eq(h)
  <2>1. ASSUME NEW i \in 0..n
        PROVE  Halfway(i) = IF i = 0 THEN [text |-> String, offset |-> 0]
                            ELSE ReplacedIn(h[i - 1], found[i])
    <3>1. CASE i = 0
      BY <3>1, HalfwayBegins
    <3>2. CASE i # 0
      <4>1. i \in 1..Len(found) /\ i - 1 \in 0..n
        BY <1>1, <3>2
      <4>. QED BY <1>2, <3>2, <4>1, HalfwayGoesOn
    <3>. QED BY <3>1, <3>2
  <2>. QED BY <1>2, <2>1
<1>4. PICK r : r = CHOOSE x : Eq(x)
  OBVIOUS
<1>5. Eq(r)
  BY <1>3, <1>4
<1>6. Replaced = r[n].text
  BY <1>1, <1>4 DEF Replaced
<1>7. r[n] = h[n]
  <2>. DEFINE T == {i \in 0..n : r[i] = h[i]}
  <2>1. 0 \in T
    BY <1>3, <1>5
  <2>2. ASSUME NEW i \in 0..(n - 1), i \in T PROVE i + 1 \in T
    <3>1. i + 1 \in 0..n /\ i + 1 # 0 /\ (i + 1) - 1 = i
      OBVIOUS
    <3>2. r[i + 1] = ReplacedIn(r[i], found[i + 1]) /\ h[i + 1] = ReplacedIn(h[i], found[i + 1])
      BY <1>3, <1>5, <3>1
    <3>. QED BY <2>2, <3>1, <3>2
  <2>. HIDE DEF T
  <2>3. 0..n \subseteq T
    BY <2>1, <2>2, InductionUpTo
  <2>. QED BY <2>3 DEF T
<1>8. h[n] = Halfway(n)
  BY <1>2
<1>9. Flat(n) = FlattenSeq(Pieces)
  <2>1. SubSeq(Pieces, 1, n) = Pieces
    BY <1>1, PiecesType, SubSeqFull
  <2>. QED BY <2>1 DEF Flat
<1>10. Renewed = Then(Flat(n), Text(String, RestFrom(n + 1), Size(String)))
  BY <1>1, <1>9 DEF Renewed, Remaining, Then, Size, Pieces
<1>. QED BY <1>6, <1>7, <1>8, <1>10 DEF Halfway
-----------------------------------------------------------------------------
(* The messages.  A match that pcre_exec answers lies in the part of the     *)
(* string it was given, from the place where it was to look; the enumerator  *)
(* then goes on behind it.                                                  *)

\* The matches so far lie in the string in order.
Placed == /\ Stack(found) /\ MatchesInOrder
          /\ \A i \in DOMAIN found : Natural(found[i])

\* Where a message is, and where it looks for the next match.
FindInv ==
  /\ CountsInv
  /\ source \in Sources
  /\ String \in Seq(Nat)
  /\ range.location \in Nat /\ range.length \in Int /\ range.end \in Int
  /\ {"location", "length", "end"} \subseteq DOMAIN range
  /\ Placed
  /\ step = "none" => found = <<>>
  /\ step \in {"next", "finding"} => RestFrom(Len(found) + 1) <= range.location
  /\ step # "none" => at = "ended"
  /\ step \in {"next", "finding", "deliver"} => errorcode = 0
  /\ step = "finding" => job.start_offset = range.location /\ Len(job.subject) <= Len(String)

\* pcre_exec does not change what it is asked.
LEMMA ExecKeepsJob ==
  ASSUME Exec PROVE UNCHANGED job
<1>1. CASE Call BY <1>1 DEF Call, Answer
<1>2. CASE Scan BY <1>2 DEF Scan, ScanAt, ScanFrom, NotThere, BeginMatch, Answer
<1>3. CASE Match BY <1>3 DEF Match, searchVars
<1>4. CASE MatchReturned BY <1>4 DEF MatchReturned, Answer
<1>. QED BY <1>1, <1>2, <1>3, <1>4 DEF Exec

\* The compiler has nothing more to read when it has ended.
LEMMA ReadsAPlace ==
  ASSUME C!ReadItem PROVE at \notin {"ended", "studied"}
<1> USE DEF C!InBranch, C!Item, C!InClass, C!InClassEscape, C!Repeatable, C!Quantified, C!GroupAt,
            C!After, C!EndsBranch, C!IsVerb, C!IsNamedGroup
<1>1. CASE C!EndQuote BY <1>1 DEF C!EndQuote
<1>2. CASE C!SkipIgnored BY <1>2 DEF C!SkipIgnored
<1>3. CASE C!Circumflex BY <1>3 DEF C!Circumflex
<1>4. CASE C!Dollar BY <1>4 DEF C!Dollar
<1>5. CASE C!Dot BY <1>5 DEF C!Dot
<1>6. CASE C!NormalChar BY <1>6 DEF C!NormalChar
<1>7. CASE C!ClassStart BY <1>7 DEF C!ClassStart
<1>8. CASE C!EndClassQuote BY <1>8 DEF C!EndClassQuote
<1>9. CASE C!ClassPosix BY <1>9 DEF C!ClassPosix
<1>10. CASE C!ClassEscape BY <1>10 DEF C!ClassEscape
<1>11. CASE C!ClassItem BY <1>11 DEF C!ClassItem
<1>12. CASE C!CloseClass BY <1>12 DEF C!CloseClass
<1>13. CASE C!NothingToRepeat BY <1>13 DEF C!NothingToRepeat
<1>14. CASE C!RepeatSingleItem BY <1>14 DEF C!RepeatSingleItem
<1>15. CASE C!RepeatClassItem BY <1>15 DEF C!RepeatClassItem
<1>16. CASE C!RepeatGroup BY <1>16 DEF C!RepeatGroup
<1>17. CASE C!RepeatFail BY <1>17 DEF C!RepeatFail
<1>18. CASE C!CapturingGroup BY <1>18 DEF C!CapturingGroup
<1>19. CASE C!UncapturingGroup BY <1>19 DEF C!UncapturingGroup
<1>20. CASE C!EmptyNegativeAssertion BY <1>20 DEF C!EmptyNegativeAssertion
<1>21. CASE C!Comment BY <1>21 DEF C!Comment
<1>22. CASE C!Verb BY <1>22 DEF C!Verb
<1>23. CASE C!ManualCallout BY <1>23 DEF C!ManualCallout
<1>24. CASE C!OptionGroup BY <1>24 DEF C!OptionGroup
<1>25. CASE C!NamedGroup BY <1>25 DEF C!NamedGroup
<1>26. CASE C!BadGroup BY <1>26 DEF C!BadGroup
<1>27. CASE C!ReferenceByName BY <1>27 DEF C!ReferenceByName
<1>28. CASE C!CallByName BY <1>28 DEF C!CallByName
<1>29. CASE C!CallByNumber BY <1>29 DEF C!CallByNumber
<1>30. CASE C!ConditionalGroup BY <1>30 DEF C!ConditionalGroup
<1>31. CASE C!EscapeItem BY <1>31 DEF C!EscapeItem
<1>32. CASE C!NextAlternative BY <1>32 DEF C!NextAlternative
<1>33. CASE C!EndGroup BY <1>33 DEF C!EndGroup
<1>. QED BY <1>1, <1>2, <1>3, <1>4, <1>5, <1>6, <1>7, <1>8, <1>9, <1>10, <1>11, <1>12, <1>13,
          <1>14, <1>15, <1>16, <1>17, <1>18, <1>19, <1>20, <1>21, <1>22, <1>23, <1>24, <1>25, <1>26,
           <1>27, <1>28, <1>29, <1>30, <1>31, <1>32, <1>33 DEF C!ReadItem

\* Nothing compiles when the compiler has ended.
LEMMA CompileGoesOn ==
  ASSUME C!Compile PROVE at \notin {"ended", "studied"}
<1>1. CASE C!Start BY <1>1 DEF C!Start
<1>2. CASE C!SecondPass BY <1>2 DEF C!SecondPass, C!AtTop, C!EndsBranch
<1>3. CASE C!Finish BY <1>3 DEF C!Finish, C!AtTop, C!EndsBranch
<1>4. CASE C!ReadItem BY <1>4, ReadsAPlace
<1>. QED BY <1>1, <1>2, <1>3, <1>4 DEF C!Compile

\* Where the matches are, when there is none yet or the first.
LEMMA NoMatches == Stack(<<>>) /\ DOMAIN <<>> = {}
BY StackEmpty

\* A match behind those before it.
LEMMA MatchIsNext ==
  ASSUME Placed, NEW m, Natural(m), RestFrom(Len(found) + 1) <= Begins(m), Begins(m) <= Past(m),
         Past(m) <= Len(String), found' = Append(found, m), UNCHANGED request
  PROVE  Placed' /\ (RestFrom(Len(found) + 1))' = Past(m)
<1> USE DEF Placed
<1>1. PICK n \in Nat : n = Len(found)
  BY LenProperties DEF Stack
<1>2. Stack(found') /\ Len(found') = n + 1
  BY <1>1, StackPush
<1>3. PICK E : found \in Seq(E)
  BY DEF Stack
<1>4. DOMAIN found = 1..n /\ DOMAIN found' = 1..(n + 1)
  BY <1>1, <1>2, LenProperties DEF Stack
<1>5. (\A i \in 1..n : found'[i] = found[i]) /\ found'[n + 1] = m
  BY <1>1, <1>3
<1>6. \A i \in 1..(n + 1) : RestFrom(i)' = RestFrom(i)
  <2>1. \A i \in 1..(n + 1) : i # 1 => i - 1 \in 1..n
    OBVIOUS
  <2>. QED BY <1>5, <2>1 DEF RestFrom
<1>7. \A i \in DOMAIN found' : Natural(found'[i])
  BY <1>4, <1>5
<1>8. RestFrom(n + 2)' = Past(m)
  <2>1. n + 2 # 1 /\ (n + 2) - 1 = n + 1
    OBVIOUS
  <2>. QED BY <1>5, <2>1 DEF RestFrom
<1>9. MatchesInOrder'
  <2>1. String' = String
    BY DEF String
  <2>2. ASSUME NEW i \in 1..(n + 1)
        PROVE  /\ RestFrom(i)' <= Begins(found'[i])
               /\ Begins(found'[i]) <= Past(found'[i])
               /\ Past(found'[i]) <= Len(String)
    <3>1. CASE i = n + 1
      BY <1>1, <1>5, <1>6, <3>1
    <3>2. CASE i # n + 1
      <4>1. i \in 1..n
        BY <3>2
      <4>. QED BY <1>4, <1>5, <1>6, <4>1 DEF MatchesInOrder
    <3>. QED BY <3>1, <3>2
  <2>. QED BY <1>4, <2>1, <2>2 DEF MatchesInOrder, RestFrom
<1>. QED BY <1>1, <1>2, <1>7, <1>8, <1>9

\* Of a match that goes on at its end, or is empty and goes on one place further.
LEMMA MatchIsPlaced ==
  ASSUME FindInv, AnswersInSubject, step = "finding", phase = "ended", result.rc = "MATCH",
         result.count > 0, NEW m, m = MatchOf(result.offsets)
  PROVE  /\ Natural(m) /\ range.location <= Begins(m) /\ Begins(m) <= Past(m)
         /\ Past(m) <= Len(String) /\ GoesOnFrom(m) \in Nat /\ Past(m) <= GoesOnFrom(m)
<1>1. 0 \in 0..(groupCount - 1)
  BY DEF FindInv, CountsInv, groupCount
<1>2. Begins(m) = result.offsets[0] /\ Past(m) = result.offsets[1]
  BY <1>1 DEF MatchOf, Begins, Past
<1>3. Len(String) \in Nat /\ range.location \in Nat
  BY DEF FindInv
<1>4. /\ result.offsets[1] \in range.location..Len(job.subject)
      /\ result.offsets[0] \in range.location..result.offsets[1]
  BY DEF FindInv, AnswersInSubject, End, Subject
<1>5. Len(job.subject) <= Len(String)
  BY DEF FindInv
<1>6. PICK b, e : b = result.offsets[0] /\ e = result.offsets[1]
  OBVIOUS
<1>7. b \in Nat /\ e \in Nat /\ range.location <= b /\ b <= e /\ e <= Len(String)
  BY <1>3, <1>4, <1>5, <1>6
<1>. QED BY <1>2, <1>3, <1>6, <1>7 DEF Natural, GoesOnFrom

\* The matches stay in order when no step adds one.
LEMMA PlacedStays ==
  ASSUME Placed, UNCHANGED <<request, found>> PROVE Placed'
<1>1. \A i : RestFrom(i)' = RestFrom(i)
  BY DEF RestFrom
<1>. QED BY <1>1 DEF Placed, MatchesInOrder, String, RestFrom

\* The counts stay when nothing compiles.
LEMMA CountsStay ==
  ASSUME CountsInv, UNCHANGED <<cd, group, outer, re, at, errorcode>> PROVE CountsInv'
BY DEF CountsInv, CountedGroup

\* The message is where it was when a step is not its own.
LEMMA MessageStays ==
  ASSUME FindInv, CountsInv', UNCHANGED <<findVars, source, job>>,
         (at' = at /\ errorcode' = errorcode) \/ step = "none"
  PROVE  FindInv'
<1>1. Placed'
  BY PlacedStays DEF FindInv, findVars
<1>2. \A i : RestFrom(i)' = RestFrom(i)
  BY DEF RestFrom, findVars
<1>. QED BY <1>1, <1>2 DEF FindInv, findVars, String, RestFrom

\* The place behind the last match, where the rest of the string begins.
LEMMA LastIsNatural ==
  ASSUME Placed PROVE RestFrom(Len(found) + 1) \in Nat
<1>1. PICK n \in Nat : n = Len(found) /\ DOMAIN found = 1..n
  BY LenProperties DEF Placed, Stack
<1>2. n + 1 # 1 => (n + 1) - 1 = n /\ n \in DOMAIN found
  BY <1>1
<1>. QED BY <1>1, <1>2 DEF RestFrom, Placed, Natural

\* The answer of pcre_exec is a match behind those before it, or the end.
LEMMA ReturnsKeepFind ==
  ASSUME FindInv, AnswersInSubject, FindReturns PROVE FindInv'
<1>1. CountsInv'
  BY CountsStay DEF FindInv, FindReturns, compileVars
<1>2. UNCHANGED <<request, source, at, errorcode, job>> /\ step = "finding" /\ phase = "ended"
  BY DEF FindReturns, compileVars, execVars, searchVars
<1>3. CASE UNCHANGED <<range, found>> /\ step' \in {"deliver", "ended"}
  <2>1. Placed'
    BY <1>2, <1>3, PlacedStays DEF FindInv
  <2>. QED BY <1>1, <1>2, <1>3, <2>1 DEF FindInv, String
<1>4. CASE result.rc = "MATCH" /\ result.count > 0 /\ MatchFound(MatchOf(result.offsets))
  <2>1. PICK m : m = MatchOf(result.offsets)
    OBVIOUS
  <2>2. /\ Natural(m) /\ range.location <= Begins(m) /\ Begins(m) <= Past(m)
        /\ Past(m) <= Len(String) /\ GoesOnFrom(m) \in Nat /\ Past(m) <= GoesOnFrom(m)
    BY <1>2, <1>4, <2>1, MatchIsPlaced
  <2>3. CASE found' = <<m>> /\ UNCHANGED range /\ step' = "deliver"
    <3>1. Placed'
      <4>1. Stack(found') /\ DOMAIN found' = {1} /\ found'[1] = m
        <5>1. <<m>> \in Seq({m}) /\ Len(<<m>>) = 1 /\ <<m>>[1] = m
          OBVIOUS
        <5>2. PICK s : s = <<m>>
          OBVIOUS
        <5>3. DOMAIN s = 1..1 /\ s[1] = m
          BY <5>1, <5>2, LenProperties
        <5>4. Stack(s)
          BY <5>1, <5>2 DEF Stack
        <5>. QED BY <2>3, <5>2, <5>3, <5>4
      <4>2. RestFrom(1)' = 0 /\ String' = String
        BY <1>2 DEF RestFrom, String
      <4>3. MatchesInOrder'
        BY <2>2, <4>1, <4>2 DEF MatchesInOrder, Natural
      <4>. QED BY <2>2, <4>1, <4>3 DEF Placed
    <3>. QED BY <1>1, <1>2, <2>3, <3>1 DEF FindInv, String
  <2>4. CASE found' = Append(found, m) /\ step' = "next"
    <3>1. RestFrom(Len(found) + 1) <= Begins(m)
      <4>1. RestFrom(Len(found) + 1) <= range.location /\ range.location \in Nat
        BY <1>2 DEF FindInv
      <4>2. RestFrom(Len(found) + 1) \in Nat
        BY LastIsNatural DEF FindInv
      <4>. QED BY <2>2, <4>1, <4>2 DEF Natural
    <3>2. Placed' /\ (RestFrom(Len(found) + 1))' = Past(m)
      BY <1>2, <2>2, <2>4, <3>1, MatchIsNext DEF FindInv
    <3>3. range' = [range EXCEPT !.location = GoesOnFrom(m),
                                 !.length = range.end - GoesOnFrom(m)]
      BY <1>4, <2>1, <2>4 DEF MatchFound
    <3>4. /\ range'.location = GoesOnFrom(m) /\ range'.length \in Int /\ range'.end \in Int
          /\ {"location", "length", "end"} \subseteq DOMAIN range'
      BY <2>2, <3>3 DEF FindInv
    <3>. QED BY <1>1, <1>2, <2>2, <2>4, <3>2, <3>4 DEF FindInv, String
  <2>5. CASE UNCHANGED found /\ step' = "deliver"
             /\ range' = [range EXCEPT !.location = GoesOnFrom(m),
                                       !.length = range.end - GoesOnFrom(m)]
    <3>1. Placed'
      BY <1>2, <2>5, PlacedStays DEF FindInv
    <3>2. /\ range'.location = GoesOnFrom(m) /\ range'.length \in Int /\ range'.end \in Int
          /\ {"location", "length", "end"} \subseteq DOMAIN range'
      BY <2>2, <2>5 DEF FindInv
    <3>. QED BY <1>1, <1>2, <2>2, <2>5, <3>1, <3>2 DEF FindInv, String
  <2>. QED BY <1>4, <2>1, <2>3, <2>4, <2>5 DEF MatchFound
<1>. QED BY <1>3, <1>4 DEF FindReturns, Replies

\* The enumerator asks for a match within the string.
LEMMA FindKeepsFind ==
  ASSUME FindInv, FindInString PROVE FindInv'
<1>1. CountsInv'
  BY CountsStay DEF FindInv, FindInString, compileVars
<1>2. /\ UNCHANGED <<request, source, at, errorcode, range, found>> /\ step = "next"
  BY DEF FindInString, compileVars, Replies
<1>3. Placed' /\ String' = String /\ \A i : RestFrom(i)' = RestFrom(i)
  BY <1>2, PlacedStays DEF FindInv, String, RestFrom
<1>4. CASE step' = "ended"
  BY <1>1, <1>2, <1>3, <1>4 DEF FindInv
<1>5. CASE /\ pcre_exec(FindJob) /\ step' = "finding"
           /\ ~(range.location + range.length > Len(String))
  <2>1. job'.start_offset = range.location
        /\ job'.subject = SubSeq(String, 1, range.location + range.length)
    BY <1>5 DEF pcre_exec, FindJob
  <2>2. Len(job'.subject) <= Len(String)
    BY <1>5, <2>1 DEF FindInv
  <2>. QED BY <1>1, <1>2, <1>3, <1>5, <2>1, <2>2 DEF FindInv, RestFrom
<1>. QED BY <1>4, <1>5 DEF FindInString, Replies

\* A message begins without matches.
LEMMA BeginKeepsFind ==
  ASSUME FindInv, Begin PROVE FindInv'
<1>1. CountsInv'
  BY CountsStay DEF FindInv, Begin, compileVars
<1>2. PICK r \in Requests(source) :
        /\ request' = r
        /\ range' = [location |-> r.location, length |-> r.length,
                     end |-> r.location + r.length]
        /\ step' \in {"next", "ended"} /\ (step' = "next" => errorcode = 0)
  BY DEF Begin
<1>3. r.string \in Seq(Nat) /\ r.location \in Nat /\ r.length \in Nat
  BY RequestsAreInText DEF FindInv
<1>4. found' = <<>> /\ UNCHANGED <<at, errorcode, source, job>> /\ at = "ended"
  BY DEF Begin, compileVars, execVars, searchVars, FindInv
<1>5. Placed'
  BY <1>4, StackEmpty DEF Placed, MatchesInOrder
<1>6. (RestFrom(Len(found) + 1))' = 0
  BY <1>4, StackEmpty DEF RestFrom
<1>. QED BY <1>1, <1>2, <1>3, <1>4, <1>5, <1>6 DEF FindInv, String

\* The matches of a message, whatever is done next.
LEMMA NextKeepsFind ==
  ASSUME FindInv, AnswersInSubject, [NextFind]_<<vars, findVars>>
  PROVE  FindInv'
<1>1. CASE Compile /\ UNCHANGED findVars
  <2>1. at # "ended" /\ C!Compile /\ UNCHANGED <<source, job>>
    BY <1>1, CompileGoesOn DEF Compile, execVars, searchVars
  <2>2. step = "none"
    BY <2>1 DEF FindInv
  <2>3. CountsInv'
    BY <2>1, CompileKeepsCounts DEF FindInv
  <2>. QED BY <1>1, <2>1, <2>2, <2>3, MessageStays
<1>2. CASE Study /\ step = "none" /\ UNCHANGED findVars
  <2>1. CountsInv'
    BY <1>2 DEF Study, FindInv, CountsInv, CountedGroup
  <2>. QED BY <1>2, <2>1, MessageStays DEF Study, execVars, searchVars
<1>3. CASE CallExec /\ step = "none" /\ UNCHANGED findVars
  <2>1. CountsInv' /\ UNCHANGED <<source, at, errorcode>>
    BY <1>3, CountsStay DEF CallExec, compileVars, FindInv
  <2>2. Placed' /\ \A i : RestFrom(i)' = RestFrom(i)
    BY <1>3, PlacedStays DEF FindInv, findVars, RestFrom
  <2>. QED BY <1>3, <2>1, <2>2 DEF FindInv, findVars, String
<1>4. CASE Execute /\ UNCHANGED findVars
  <2>1. UNCHANGED job /\ UNCHANGED <<source, at, errorcode>>
    BY <1>4, ExecKeepsJob DEF Execute, compileVars
  <2>2. CountsInv'
    BY <1>4, CountsStay DEF Execute, compileVars, FindInv
  <2>. QED BY <1>4, <2>1, <2>2, MessageStays
<1>5. CASE Begin
  BY <1>5, BeginKeepsFind
<1>6. CASE FindInString
  BY <1>6, FindKeepsFind
<1>7. CASE FindReturns
  BY <1>7, ReturnsKeepFind
<1>8. CASE Deliver
  <2>1. CountsInv' /\ UNCHANGED <<source, at, errorcode, job, request, range, found>>
        /\ step' = "ended" /\ step = "deliver"
    BY <1>8, CountsStay DEF Deliver, Replies, compileVars, execVars, searchVars, FindInv
  <2>2. Placed'
    BY <2>1, PlacedStays DEF FindInv
  <2>. QED BY <2>1, <2>2 DEF FindInv, String
<1>9. CASE UNCHANGED <<vars, findVars>>
  <2>1. CountsInv' /\ UNCHANGED <<source, at, errorcode, job>>
    BY <1>9, CountsStay DEF vars, compileVars, execVars, searchVars, FindInv
  <2>. QED BY <1>9, <2>1, MessageStays DEF vars
<1>. QED BY <1>1, <1>2, <1>3, <1>4, <1>5, <1>6, <1>7, <1>8, <1>9 DEF NextFind, Enumerate

\* No message has begun.
LEMMA InitFinds == Init /\ InitFind => FindInv
<1>. SUFFICES ASSUME Init, InitFind PROVE FindInv
  OBVIOUS
<1>1. CountsInv
  BY StackEmpty DEF Init, C!InitCompile, C!NewCd, C!Idle, C!NewGroup, CountsInv, Counts, CountedGroup
<1>2. Placed
  BY StackEmpty DEF InitFind, Placed, MatchesInOrder
<1>. QED BY <1>1, <1>2, EmptySeq DEF Init, C!InitCompile, InitFind, NoRequest, FindInv, String

\* The matches of a message lie in its string, in order, and no two of them
\* overlap, for every pattern, string and range, if pcre_exec keeps its word.
THEOREM MatchesAreInOrder == SpecFind /\ []AnswersInSubject => []MatchesInOrder
<1>1. Init /\ InitFind => FindInv
  BY InitFinds
<1>2. FindInv /\ AnswersInSubject /\ [NextFind]_<<vars, findVars>> => FindInv'
  BY NextKeepsFind
<1>3. FindInv => MatchesInOrder
  BY DEF FindInv, Placed
<1>. QED BY <1>1, <1>2, <1>3, PTL DEF SpecFind

-----------------------------------------------------------------------------
(* What replace:withBlock: answers.  Its result stays what it was, and so do *)
(* the matches it was made of.                                              *)

\* The string renewed stays what it is while the matches are the same.
LEMMA RenewedStays ==
  ASSUME UNCHANGED <<request, found, re>> PROVE Renewed' = Renewed
<1>1. \A i : RestFrom(i)' = RestFrom(i)
  BY DEF RestFrom
<1>2. String' = String /\ groupCount' = groupCount
  BY DEF String, groupCount
<1>3. \A m, n : GroupAtIndex(m, n)' = GroupAtIndex(m, n)
  BY <1>2 DEF GroupAtIndex, String
<1>4. \A m : GroupsIn(m)' = GroupsIn(m)
  BY <1>2, <1>3 DEF GroupsIn, GroupAtIndex, String, groupCount
<1>5. \A m : NewText(m)' = NewText(m)
  BY <1>4 DEF NewText, GroupsIn
<1>6. \A i : Before(i)' = Before(i)
  BY <1>1, <1>2 DEF Before, RestFrom, String
<1>7. \A n : Remaining(n)' = Remaining(n)
  BY <1>1, <1>2 DEF Remaining, RestFrom, String
<1>. QED BY <1>5, <1>6, <1>7 DEF Renewed

\* The sender is given the replaced string.
LEMMA DeliverAgrees ==
  ASSUME FindInv, BlockAnswersText, Deliver PROVE ReplacementsAgree'
<1>1. UNCHANGED <<request, found, re>> /\ outcome' = Result
  BY DEF Deliver, Replies
<1>2. Renewed' = Renewed
  BY <1>1, RenewedStays
<1>3. SUFFICES ASSUME request.method = "block", outcome'.kind = "given"
               PROVE  outcome'.value = Renewed
  BY <1>1, <1>2 DEF ReplacementsAgree
<1>4. outcome' = ReplaceWithBlock
  BY <1>1, <1>3 DEF Result
<1>5. outcome' = Gives(Replaced)
  BY <1>3, <1>4 DEF ReplaceWithBlock, Raised
<1>6. Replaceable
  BY <1>3 DEF Replaceable, FindInv, Placed
<1>. QED BY <1>5, <1>6, ReplacedIsRenewed DEF Gives

\* Every step keeps the agreement.
LEMMA NextKeepsAgreement ==
  ASSUME FindInv, BlockAnswersText, ReplacementsAgree, [NextFind]_<<vars, findVars>>
  PROVE  ReplacementsAgree'
<1>1. CASE UNCHANGED <<request, found, re, step, outcome>>
  BY <1>1, RenewedStays DEF ReplacementsAgree
<1>2. CASE step' # "ended" \/ outcome'.kind # "given"
  BY <1>2 DEF ReplacementsAgree
<1>3. CASE (Compile \/ ((Study \/ CallExec) /\ step = "none")) /\ UNCHANGED findVars
  <2>1. step = "none" \/ UNCHANGED re
    <3>1. C!Compile => at # "ended"
      BY CompileGoesOn
    <3>2. CASE Compile
      BY <3>1, <3>2 DEF Compile, FindInv
    <3>3. CASE ~Compile
      BY <1>3, <3>3 DEF Study, CallExec, FindInv
    <3>. QED BY <3>2, <3>3
  <2>. QED BY <1>1, <1>2, <1>3, <2>1 DEF findVars
<1>4. CASE Execute /\ UNCHANGED findVars
  BY <1>1, <1>4 DEF Execute, findVars
<1>5. CASE Begin
  BY <1>2, <1>5 DEF Begin, Raised
<1>6. CASE FindInString
  BY <1>2, <1>6 DEF FindInString, Replies, Raised
<1>7. CASE FindReturns
  BY <1>2, <1>7 DEF FindReturns, Replies, Raised, MatchFound
<1>8. CASE Deliver
  BY <1>8, DeliverAgrees
<1>9. CASE UNCHANGED <<vars, findVars>>
  BY <1>1, <1>9 DEF vars, findVars
<1>. QED BY <1>3, <1>4, <1>5, <1>6, <1>7, <1>8, <1>9 DEF NextFind, Enumerate

\* replace:withBlock: puts its replacements where the matches were found,
\* though it changes the string in place and moves the places along as it
\* goes, for every pattern, string, number of matches and block, if pcre_exec
\* keeps its word and the block answers text.
THEOREM ReplacementsAlwaysAgree ==
  SpecFind /\ []AnswersInSubject /\ []BlockAnswersText => []ReplacementsAgree
<1>1. Init /\ InitFind => FindInv /\ ReplacementsAgree
  BY InitFinds DEF InitFind, Nil, ReplacementsAgree
<1>2. FindInv /\ AnswersInSubject /\ [NextFind]_<<vars, findVars>> => FindInv'
  BY NextKeepsFind
<1>3. FindInv /\ BlockAnswersText /\ ReplacementsAgree /\ [NextFind]_<<vars, findVars>>
        => ReplacementsAgree'
  BY NextKeepsAgreement
<1>. QED BY <1>1, <1>2, <1>3, PTL DEF SpecFind

-----------------------------------------------------------------------------
(* Names.                                                                   *)

\* The order of the names is a strict one.
LEMMA LessNotItself ==
  ASSUME NEW a \in Seq(Nat) PROVE ~C!Less(a, a)
BY LenProperties DEF C!Less

\* A name before another is before all that come after that one.
LEMMA LessGoesOn ==
  ASSUME NEW a \in Seq(Nat), NEW b \in Seq(Nat), NEW c \in Seq(Nat), C!Less(a, b), C!Less(b, c)
  PROVE  C!Less(a, c)
<1>1. PICK i \in 1..Len(b) : (i > Len(a) \/ a[i] < b[i]) /\ \A j \in 1..(i - 1) : j <= Len(a) /\ a[j] = b[j]
  BY DEF C!Less
<1>2. PICK k \in 1..Len(c) : (k > Len(b) \/ b[k] < c[k]) /\ \A j \in 1..(k - 1) : j <= Len(b) /\ b[j] = c[j]
  BY DEF C!Less
<1>3. /\ Len(a) \in Nat /\ Len(b) \in Nat /\ Len(c) \in Nat
      /\ \A j \in 1..Len(a) : a[j] \in Nat
      /\ \A j \in 1..Len(b) : b[j] \in Nat
      /\ \A j \in 1..Len(c) : c[j] \in Nat
  BY LenProperties, ElementOfSeq
<1>4. CASE i <= k
  <2>1. i \in 1..Len(c) /\ \A j \in 1..(i - 1) : j <= Len(a) /\ a[j] = c[j]
    <3>1. i \in 1..Len(c) /\ \A j \in 1..(i - 1) : j \in 1..(k - 1)
      BY <1>3, <1>4
    <3>. QED BY <1>1, <1>2, <3>1
  <2>2. CASE i > Len(a)
    BY <2>1, <2>2 DEF C!Less
  <2>3. CASE ~(i > Len(a))
    <3>1. a[i] < b[i]
      BY <1>1, <2>3
    <3>2. b[i] <= c[i]
      BY <1>1, <1>2, <1>3, <1>4
    <3>3. a[i] \in Nat /\ b[i] \in Nat /\ c[i] \in Nat
      BY <1>1, <1>3, <2>1, <2>3
    <3>4. a[i] < c[i]
      BY <3>1, <3>2, <3>3
    <3>. QED BY <2>1, <3>4 DEF C!Less
  <2>. QED BY <2>2, <2>3
<1>5. CASE k < i
  <2>1. \A j \in 1..(k - 1) : j <= Len(a) /\ a[j] = c[j]
    BY <1>1, <1>2, <1>3, <1>5
  <2>2. k \in 1..(i - 1)
    BY <1>2, <1>3, <1>5
  <2>3. a[k] = b[k] /\ ~(k > Len(b))
    BY <1>1, <1>3, <2>2
  <2>4. a[k] < c[k]
    BY <1>2, <2>3
  <2>. QED BY <2>1, <2>4 DEF C!Less
<1>. QED BY <1>1, <1>2, <1>3, <1>4, <1>5

\* Of two names one is before the other.
LEMMA LessIsTotal ==
  ASSUME NEW a \in Seq(Nat), NEW b \in Seq(Nat), a # b
  PROVE  C!Less(a, b) \/ C!Less(b, a)
<1>1. /\ Len(a) \in Nat /\ Len(b) \in Nat
      /\ \A j \in 1..Len(a) : a[j] \in Nat
      /\ \A j \in 1..Len(b) : b[j] \in Nat
  BY LenProperties, ElementOfSeq
<1>. DEFINE D == {k \in Nat : k >= 1 /\ (k <= Len(a) \/ k <= Len(b))
                              /\ ~(k <= Len(a) /\ k <= Len(b) /\ a[k] = b[k])}
<1>2. D # {}
  <2>1. CASE Len(a) = Len(b)
    <3>1. PICK k \in 1..Len(a) : a[k] # b[k]
      BY <2>1, SeqEqual
    <3>2. k \in D
      BY <1>1, <3>1
    <3>. QED BY <3>2
  <2>2. CASE Len(a) < Len(b)
    <3>1. Len(b) \in D
      BY <1>1, <2>2
    <3>. QED BY <3>1
  <2>3. CASE Len(b) < Len(a)
    <3>1. Len(a) \in D
      BY <1>1, <2>3
    <3>. QED BY <3>1
  <2>4. Len(a) = Len(b) \/ Len(a) < Len(b) \/ Len(b) < Len(a)
    BY <1>1
  <2>. HIDE DEF D
  <2>. QED BY <2>1, <2>2, <2>3, <2>4
<1>3. PICK k \in D : \A j \in D : k <= j
  <2>1. D \in SUBSET Nat
    OBVIOUS
  <2>. HIDE DEF D
  <2>. QED BY <1>2, <2>1, LeastExists
<1>4. \A j \in 1..(k - 1) : j <= Len(a) /\ j <= Len(b) /\ a[j] = b[j]
  <2>1. ASSUME NEW j \in 1..(k - 1) PROVE j <= Len(a) /\ j <= Len(b) /\ a[j] = b[j]
    <3>1. j \in Nat /\ j >= 1 /\ j < k
      BY <1>3
    <3>2. j \notin D
      BY <1>3, <3>1
    <3>3. j <= Len(a) \/ j <= Len(b)
      BY <1>1, <1>3, <3>1
    <3>. QED BY <3>1, <3>2, <3>3
  <2>. QED BY <2>1
<1>5. CASE k > Len(a)
  <2>1. k \in 1..Len(b)
    BY <1>1, <1>3, <1>5
  <2>. QED BY <1>4, <1>5, <2>1 DEF C!Less
<1>6. CASE k > Len(b)
  <2>1. k \in 1..Len(a)
    BY <1>1, <1>3, <1>6
  <2>. QED BY <1>4, <1>6, <2>1 DEF C!Less
<1>7. CASE k <= Len(a) /\ k <= Len(b)
  <2>1. k \in 1..Len(a) /\ k \in 1..Len(b) /\ a[k] # b[k]
    BY <1>3, <1>7
  <2>2. a[k] < b[k] \/ b[k] < a[k]
    BY <1>1, <2>1
  <2>. QED BY <1>4, <2>1, <2>2 DEF C!Less
<1>. QED BY <1>1, <1>3, <1>5, <1>6, <1>7

\* The least of some natural numbers is one of them.
LEMMA MinIsLeast ==
  ASSUME NEW T \in SUBSET Nat, T # {}
  PROVE  C!Min(T) \in T /\ \A n \in T : C!Min(T) <= n
<1>1. PICK m \in T : \A n \in T : m <= n
  BY LeastExists
<1>. QED BY <1>1 DEF C!Min

\* A word in a text is text.
LEMMA WordIsText ==
  ASSUME NEW p \in Nat, C!Pattern \in Seq(Nat)
  PROVE  C!Text(C!Pattern, p, C!WordEnd(p)) \in Seq(Nat)
<1>. DEFINE T == {q \in p..(Len(C!Pattern) + p) : C!At(C!Pattern, q) \notin C!Ctype("word")}
<1>1. PICK n \in Nat : n = Len(C!Pattern)
  BY LenProperties
<1>2. 0 \notin C!Ctype("word")
  BY DEF C!Ctype, C!Cbit, C!Letters, C!Uppers, C!Lowers, C!Digits
<1>3. \A q \in Nat : C!At(C!Pattern, q) \in C!Ctype("word") => q < n
  BY <1>1, <1>2 DEF C!At
<1>4. n + p \in T
  BY <1>1, <1>3
<1>5. C!WordEnd(p) \in T /\ \A q \in T : C!WordEnd(p) <= q
  <2>1. T \in SUBSET Nat /\ T # {}
    BY <1>1, <1>4
  <2>2. C!WordEnd(p) = C!Min(T)
    BY DEF C!WordEnd, C!Span
  <2>. HIDE DEF T
  <2>. QED BY <2>1, <2>2, MinIsLeast
<1>6. PICK e \in Nat : e = C!WordEnd(p)
  BY <1>5
<1>7. e = p \/ (p < e /\ e <= n)
  <2>1. SUFFICES ASSUME e # p PROVE p < e /\ e <= n
    OBVIOUS
  <2>2. p < e
    BY <1>5, <1>6, <2>1
  <2>3. e - 1 \in p..(n + p) /\ e - 1 \in Nat
    BY <1>1, <1>5, <1>6, <2>2
  <2>4. e - 1 \notin T
    BY <1>5, <1>6, <2>3
  <2>5. e - 1 < n
    BY <1>1, <1>3, <2>3, <2>4
  <2>. QED BY <1>1, <2>2, <2>5
<1>8. CASE e = p
  <2>1. SubSeq(C!Pattern, p + 1, p) = <<>>
    BY SubSeqEmpty
  <2>. QED BY <1>6, <1>8, <2>1, EmptySeq DEF C!Text
<1>9. CASE p < e /\ e <= n
  <2>1. \A i \in (p + 1)..e : i \in 1..Len(C!Pattern)
    BY <1>1, <1>9
  <2>. QED BY <1>6, <2>1, SubSeqProperties DEF C!Text
<1>. QED BY <1>7, <1>8, <1>9

\* Entries of the table of names; it is in order.
Entry == [name : Seq(Nat), n : Nat]
InOrder(names) == \A i, j \in DOMAIN names : i < j => ~C!Less(names[j].name, names[i].name)

\* Something put in between: what is before stays, what is behind moves.
LEMMA InsertParts ==
  ASSUME NEW T, NEW s \in Seq(T), NEW x \in T, NEW p \in 1..(Len(s) + 1)
  PROVE  /\ C!Insert(s, p, <<x>>) \in Seq(T)
         /\ Len(C!Insert(s, p, <<x>>)) = Len(s) + 1
         /\ \A i \in 1..(p - 1) : C!Insert(s, p, <<x>>)[i] = s[i]
         /\ C!Insert(s, p, <<x>>)[p] = x
         /\ \A i \in (p + 1)..(Len(s) + 1) : C!Insert(s, p, <<x>>)[i] = s[i - 1]
<1>1. PICK n \in Nat : n = Len(s)
  BY LenProperties
<1>2. PICK a : a = SubSeq(s, 1, p - 1)
  OBVIOUS
<1>3. PICK b : b = SubSeq(s, p, n)
  OBVIOUS
<1>4. a \in Seq(T) /\ Len(a) = p - 1 /\ \A i \in 1..(p - 1) : a[i] = s[i]
  <2>1. \A i \in 1..(p - 1) : s[i] \in T
    BY <1>1, ElementOfSeq
  <2>. QED BY <1>2, <2>1, SubSeqProperties
<1>5. b \in Seq(T) /\ Len(b) = n - p + 1 /\ \A i \in 1..(n - p + 1) : b[i] = s[p + i - 1]
  <2>1. \A i \in p..n : s[i] \in T
    BY <1>1, ElementOfSeq
  <2>2. Len(b) = IF p <= n THEN n - p + 1 ELSE 0
    BY <1>1, <1>3, <2>1, SubSeqProperties
  <2>. QED BY <1>1, <1>3, <2>1, <2>2, SubSeqProperties
<1>6. PICK c : c = a \o <<x>>
  OBVIOUS
<1>7. <<x>> \in Seq(T) /\ Len(<<x>>) = 1 /\ <<x>>[1] = x
  OBVIOUS
<1>8. c \in Seq(T) /\ Len(c) = p /\ (\A i \in 1..(p - 1) : c[i] = s[i]) /\ c[p] = x
  BY <1>1, <1>4, <1>6, <1>7, ConcatProperties
<1>9. C!Insert(s, p, <<x>>) = c \o b
  BY <1>1, <1>2, <1>3, <1>6 DEF C!Insert
<1>10. PICK r : r = c \o b
  OBVIOUS
<1>11. r \in Seq(T) /\ Len(r) = n + 1 /\ (\A i \in 1..p : r[i] = c[i])
       /\ \A i \in (p + 1)..(n + 1) : r[i] = s[i - 1]
  <2>1. r \in Seq(T) /\ Len(r) = Len(c) + Len(b)
        /\ \A i \in 1..(Len(c) + Len(b)) : r[i] = IF i <= Len(c) THEN c[i] ELSE b[i - Len(c)]
    BY <1>5, <1>8, <1>10, ConcatProperties
  <2>2. Len(c) + Len(b) = n + 1
    BY <1>1, <1>5, <1>8
  <2>3. ASSUME NEW i \in (p + 1)..(n + 1) PROVE r[i] = s[i - 1]
    <3>1. i \in 1..(n + 1) /\ ~(i <= p) /\ i - p \in 1..(n - p + 1) /\ p + (i - p) - 1 = i - 1
      BY <1>1
    <3>. QED BY <1>5, <1>8, <2>1, <2>2, <3>1
  <2>4. ASSUME NEW i \in 1..p PROVE r[i] = c[i]
    <3>1. i \in 1..(n + 1) /\ i <= p
      BY <1>1
    <3>. QED BY <1>8, <2>1, <2>2, <3>1
  <2>. QED BY <2>1, <2>2, <2>3, <2>4
<1>12. \A i \in 1..(p - 1) : i \in 1..p
  BY <1>1
<1>13. p \in 1..p
  BY <1>1
<1>. QED BY <1>1, <1>8, <1>9, <1>10, <1>11, <1>12, <1>13

\* A name that is added has its place in the order.
LEMMA AddNameInOrder ==
  ASSUME cd.names \in Seq(Entry), InOrder(cd.names), NEW name \in Seq(Nat), NEW n \in Nat
  PROVE  /\ C!AddName(name, n) \in Seq(Entry)
         /\ InOrder(C!AddName(name, n))
         /\ \A i \in DOMAIN C!AddName(name, n) :
              C!AddName(name, n)[i].n = n \/ \E j \in DOMAIN cd.names : C!AddName(name, n)[i].n = cd.names[j].n
<1>1. PICK s \in Seq(Entry) : s = cd.names
  OBVIOUS
<1>2. PICK m \in Nat : m = Len(s) /\ DOMAIN s = 1..m
  BY LenProperties
<1>3. PICK x \in Entry : x = [name |-> name, n |-> n]
  BY DEF Entry
<1>4. PICK later : later = {i \in 1..m : C!Less(name, s[i].name)}
  OBVIOUS
<1>5. PICK p : p = C!Min(later \cup {m + 1})
  OBVIOUS
<1>6. PICK r : r = C!Insert(s, p, <<x>>)
  OBVIOUS
<1>7. C!AddName(name, n) = r
  BY <1>1, <1>2, <1>3, <1>4, <1>5, <1>6 DEF C!AddName
<1>8. p \in later \cup {m + 1} /\ \A i \in later : p <= i
  <2>1. later \cup {m + 1} \in SUBSET Nat /\ later \cup {m + 1} # {}
    BY <1>4
  <2>. QED BY <1>5, <2>1, MinIsLeast
<1>9. p \in 1..(m + 1) /\ p \in Nat
  BY <1>2, <1>4, <1>8
<1>10. /\ r \in Seq(Entry) /\ Len(r) = m + 1
       /\ \A i \in 1..(p - 1) : r[i] = s[i]
       /\ r[p] = x
       /\ \A i \in (p + 1)..(m + 1) : r[i] = s[i - 1]
  BY <1>2, <1>6, <1>9, InsertParts
<1>11. DOMAIN r = 1..(m + 1)
  BY <1>10, LenProperties
<1>12. \A i \in 1..m : s[i] \in Entry /\ s[i].name \in Seq(Nat)
  <2>1. \A i \in 1..m : s[i] \in Entry
    BY <1>2, ElementOfSeq
  <2>. QED BY <2>1 DEF Entry
<1>13. \A i \in 1..(p - 1) : i \in 1..m /\ ~C!Less(name, s[i].name)
  <2>1. ASSUME NEW i \in 1..(p - 1) PROVE i \in 1..m /\ ~C!Less(name, s[i].name)
    <3>1. i \in 1..m /\ ~(p <= i)
      BY <1>9
    <3>2. i \notin later
      BY <1>8, <3>1
    <3>. QED BY <1>4, <3>1, <3>2
  <2>. QED BY <2>1
<1>14. \A i \in p..m : ~C!Less(s[i].name, name)
  <2>1. ASSUME NEW i \in p..m, C!Less(s[i].name, name) PROVE FALSE
    <3>1. i \in 1..m /\ p \in 1..m /\ p <= i
      BY <1>9
    <3>2. C!Less(name, s[p].name)
      BY <1>4, <1>8, <3>1
    <3>3. C!Less(s[i].name, s[p].name)
      BY <1>12, <2>1, <3>1, <3>2, LessGoesOn
    <3>4. ~(p < i)
      BY <1>1, <1>2, <3>1, <3>3 DEF InOrder
    <3>5. i = p
      BY <1>9, <3>1, <3>4
    <3>. QED BY <1>12, <3>1, <3>3, <3>5, LessNotItself
  <2>. QED BY <2>1
<1>15. ASSUME NEW i \in 1..(m + 1), NEW j \in 1..(m + 1), i < j
       PROVE  ~C!Less(r[j].name, r[i].name)
  <2>0. \A a \in 1..m, b \in 1..m : a < b => ~C!Less(s[b].name, s[a].name)
    BY <1>1, <1>2 DEF InOrder
  <2>1. CASE j < p
    <3>1. i \in 1..(p - 1) /\ j \in 1..(p - 1)
      BY <1>9, <1>15, <2>1
    <3>2. r[i] = s[i] /\ r[j] = s[j] /\ i \in 1..m /\ j \in 1..m
      BY <1>10, <1>13, <3>1
    <3>. QED BY <1>15, <2>0, <3>2
  <2>2. CASE j = p
    <3>1. i \in 1..(p - 1)
      BY <1>9, <1>15, <2>2
    <3>2. r[i] = s[i] /\ r[j].name = name
      BY <1>3, <1>10, <2>2, <3>1
    <3>. QED BY <1>13, <3>1, <3>2
  <2>3. CASE j > p /\ i = p
    <3>1. j \in (p + 1)..(m + 1) /\ j - 1 \in p..m
      BY <1>9, <1>15, <2>3
    <3>2. r[j] = s[j - 1] /\ r[i].name = name
      BY <1>3, <1>10, <2>3, <3>1
    <3>. QED BY <1>14, <3>1, <3>2
  <2>4. CASE j > p /\ i < p
    <3>1. i \in 1..(p - 1) /\ j \in (p + 1)..(m + 1) /\ i \in 1..m /\ j - 1 \in 1..m /\ i < j - 1
      BY <1>9, <1>15, <2>4
    <3>. QED BY <1>10, <2>0, <3>1
  <2>5. CASE j > p /\ i > p
    <3>1. /\ i \in (p + 1)..(m + 1) /\ j \in (p + 1)..(m + 1)
          /\ i - 1 \in 1..m /\ j - 1 \in 1..m /\ i - 1 < j - 1
      BY <1>9, <1>15, <2>5
    <3>. QED BY <1>10, <2>0, <3>1
  <2>6. j < p \/ j = p \/ (j > p /\ (i = p \/ i < p \/ i > p))
    BY <1>9, <1>15
  <2>. QED BY <2>1, <2>2, <2>3, <2>4, <2>5, <2>6
<1>16. ASSUME NEW i \in 1..(m + 1)
       PROVE  r[i].n = n \/ \E j \in 1..m : r[i].n = s[j].n
  <2>1. CASE i < p
    <3>1. i \in 1..(p - 1)
      BY <1>9, <2>1
    <3>. QED BY <1>10, <1>13, <3>1
  <2>2. CASE i = p
    BY <1>3, <1>10, <2>2
  <2>3. CASE i > p
    <3>1. i \in (p + 1)..(m + 1) /\ i - 1 \in 1..m
      BY <1>9, <2>3
    <3>. QED BY <1>10, <3>1
  <2>. QED BY <1>9, <2>1, <2>2, <2>3
<1>17. InOrder(r)
  BY <1>11, <1>15 DEF InOrder
<1>18. \A i \in DOMAIN r : r[i].n = n \/ \E j \in DOMAIN cd.names : r[i].n = cd.names[j].n
  <2>1. DOMAIN cd.names = 1..m /\ \A j \in 1..m : s[j].n = cd.names[j].n
    BY <1>1, <1>2
  <2>2. ASSUME NEW i \in DOMAIN r, r[i].n # n PROVE \E j \in DOMAIN cd.names : r[i].n = cd.names[j].n
    <3>1. PICK j \in 1..m : r[i].n = s[j].n
      BY <1>11, <1>16, <2>2
    <3>. QED BY <2>1, <3>1
  <2>. QED BY <2>2
<1>. QED BY <1>7, <1>10, <1>17, <1>18

-----------------------------------------------------------------------------
\* The search, in the entries behind bot up to top: what it comes to with f for
\* what is found in a part.
Sought(f, name, piece) ==
  LET bot == piece[1]
      top == piece[2]
      mid == (top + bot) \div 2
      entry == re.names[mid + 1]
  IN IF top <= bot THEN NOSUBSTRING
     ELSE IF entry.name = name THEN entry.n
     ELSE IF C!Less(entry.name, name) THEN f[<<mid + 1, top>>]
     ELSE f[<<bot, mid>>]
Searches(f, name) == f = [piece \in Unread \X Unread |-> Sought(f, name, piece)]

\* The middle lies in between.
LEMMA MiddleIsBetween ==
  ASSUME NEW bot \in Int, NEW top \in Int, bot < top
  PROVE  (top + bot) \div 2 \in Int /\ bot <= (top + bot) \div 2 /\ (top + bot) \div 2 < top
OBVIOUS

\* The two halves are parts, and smaller.
LEMMA Halves ==
  ASSUME re.names \in Seq(Entry), NEW bot \in Unread, NEW top \in Unread, ~(top <= bot), NEW mid,
         mid = (top + bot) \div 2
  PROVE  /\ mid \in bot..(top - 1)
         /\ mid \in Unread /\ mid + 1 \in Unread /\ mid + 1 \in DOMAIN re.names
         /\ top - (mid + 1) <= (top - bot) - 1
         /\ mid - bot <= (top - bot) - 1
<1>1. PICK l \in Nat : l = Len(re.names) /\ DOMAIN re.names = 1..l
  BY LenProperties
<1>2. bot \in 0..l /\ top \in 0..l /\ bot < top
  BY <1>1 DEF Unread
<1>3. mid \in Int /\ bot <= mid /\ mid < top
  BY <1>2, MiddleIsBetween
<1>. QED BY <1>1, <1>2, <1>3 DEF Unread

\* The search is a function, whatever the table.
Agrees(f, name, d) ==
  \A piece \in Unread \X Unread : piece[2] - piece[1] <= d => f[piece] = Sought(f, name, piece)

\* What is sought in a part depends on what is found in smaller ones.
LEMMA SoughtInHalves ==
  ASSUME re.names \in Seq(Entry), NEW name, NEW f, NEW g, NEW piece \in Unread \X Unread,
         \A q \in Unread \X Unread :
           q[2] - q[1] <= (piece[2] - piece[1]) - 1 => f[q] = g[q]
  PROVE  Sought(f, name, piece) = Sought(g, name, piece)
<1>1. PICK bot \in Unread, top \in Unread : piece = <<bot, top>>
  OBVIOUS
<1>2. PICK mid : mid = (top + bot) \div 2
  OBVIOUS
<1>3. CASE top <= bot
  BY <1>1, <1>3 DEF Sought
<1>4. CASE ~(top <= bot)
  <2>1. /\ mid \in Unread /\ mid + 1 \in Unread
        /\ top - (mid + 1) <= (top - bot) - 1
        /\ mid - bot <= (top - bot) - 1
    BY <1>2, <1>4, Halves
  <2>2. f[<<mid + 1, top>>] = g[<<mid + 1, top>>] /\ f[<<bot, mid>>] = g[<<bot, mid>>]
    BY <1>1, <2>1
  <2>. QED BY <1>1, <1>2, <2>2 DEF Sought
<1>. QED BY <1>3, <1>4

\* There is a function that searches so: by induction on how far the bounds are
\* apart.
LEMMA SearchExists ==
  ASSUME re.names \in Seq(Entry), NEW name
  PROVE  \E f : Searches(f, name)
<1>1. PICK l \in Nat : l = Len(re.names)
  BY LenProperties
<1>2. PICK T : T = {d \in 0..l : \E f : Agrees(f, name, d)}
  OBVIOUS
<1>3. \A piece \in Unread \X Unread :
        piece[1] \in 0..l /\ piece[2] \in 0..l /\ piece[2] - piece[1] \in Int
  BY <1>1 DEF Unread
<1>4. 0 \in T
  <2>1. PICK f : f = [piece \in Unread \X Unread |-> NOSUBSTRING]
    OBVIOUS
  <2>2. Agrees(f, name, 0)
    <3>1. ASSUME NEW piece \in Unread \X Unread, piece[2] - piece[1] <= 0
          PROVE  f[piece] = Sought(f, name, piece)
      BY <1>3, <2>1, <3>1 DEF Sought
    <3>. QED BY <3>1 DEF Agrees
  <2>. QED BY <1>2, <2>2
<1>5. \A d \in 0..(l - 1) : d \in T => d + 1 \in T
  <2>1. ASSUME NEW d \in 0..(l - 1), NEW f, Agrees(f, name, d)
        PROVE  \E h : Agrees(h, name, d + 1)
    <3>1. PICK h : h = [piece \in Unread \X Unread |-> Sought(f, name, piece)]
      OBVIOUS
    <3>2. ASSUME NEW q \in Unread \X Unread, q[2] - q[1] <= d
          PROVE  f[q] = h[q]
      BY <2>1, <3>1, <3>2 DEF Agrees
    <3>3. ASSUME NEW piece \in Unread \X Unread, piece[2] - piece[1] <= d + 1
          PROVE  h[piece] = Sought(h, name, piece)
      <4>1. \A q \in Unread \X Unread : q[2] - q[1] <= (piece[2] - piece[1]) - 1 => q[2] - q[1] <= d
        BY <1>3, <3>3
      <4>2. Sought(f, name, piece) = Sought(h, name, piece)
        BY <3>2, <4>1, SoughtInHalves
      <4>. QED BY <3>1, <4>2
    <3>. QED BY <3>3 DEF Agrees
  <2>2. \A d \in 0..(l - 1) : d + 1 \in 0..l /\ d \in 0..l
    BY <1>1
  <2>. QED BY <1>2, <2>1, <2>2
<1>6. l \in T
  <2>1. 0..l \subseteq T
    BY <1>1, <1>4, <1>5, InductionUpTo
  <2>2. l \in 0..l
    BY <1>1
  <2>. QED BY <2>1, <2>2
<1>7. PICK f : Agrees(f, name, l)
  BY <1>2, <1>6
<1>8. PICK h : h = [piece \in Unread \X Unread |-> Sought(f, name, piece)]
  OBVIOUS
<1>9. \A piece \in Unread \X Unread : f[piece] = h[piece]
  BY <1>1, <1>3, <1>7, <1>8 DEF Agrees
<1>10. \A piece \in Unread \X Unread : Sought(f, name, piece) = Sought(h, name, piece)
  BY <1>9, SoughtInHalves
<1>11. h = [piece \in Unread \X Unread |-> Sought(h, name, piece)]
  BY <1>8, <1>10
<1>. QED BY <1>11 DEF Searches

\* The search is the function that the code's loop computes.
LEMMA SearchIsTheLoop ==
  ASSUME re.names \in Seq(Entry), NEW name
  PROVE  \E f : Searches(f, name) /\ pcre_get_stringnumber(name) = f[<<0, Len(re.names)>>]
<1>1. PICK h : Searches(h, name)
  BY SearchExists
<1>2. PICK f : f = CHOOSE x : Searches(x, name)
  OBVIOUS
<1>3. Searches(f, name)
  BY <1>1, <1>2
<1>4. pcre_get_stringnumber(name) = f[<<0, Len(re.names)>>]
  BY <1>2 DEF pcre_get_stringnumber, Searches, Sought
<1>. QED BY <1>3, <1>4

\* The search finds a name wherever it is between bot and top.
Found(f, name, piece) ==
  \E k \in DOMAIN re.names : re.names[k].name = name /\ re.names[k].n = f[piece]
Between(name, piece) ==
  \E k \in DOMAIN re.names : re.names[k].name = name /\ piece[1] < k /\ k <= piece[2]

\* The half that is left out has not the name, as the table is in order.
LEMMA FoundIfThere ==
  ASSUME re.names \in Seq(Entry), InOrder(re.names), NEW name \in Seq(Nat),
         NEW f, Searches(f, name), NEW piece \in Unread \X Unread, Between(name, piece),
         \A q \in Unread \X Unread :
           q[2] - q[1] <= (piece[2] - piece[1]) - 1 /\ Between(name, q) => Found(f, name, q)
  PROVE  Found(f, name, piece)
<1>1. PICK bot \in Unread, top \in Unread : piece = <<bot, top>>
  OBVIOUS
<1>2. PICK mid : mid = (top + bot) \div 2
  OBVIOUS
<1>3. PICK k \in DOMAIN re.names : re.names[k].name = name /\ bot < k /\ k <= top
  BY <1>1 DEF Between
<1>4. PICK l \in Nat : l = Len(re.names) /\ DOMAIN re.names = 1..l /\ Unread = 0..l
  BY LenProperties DEF Unread
<1>5. ~(top <= bot)
  BY <1>3, <1>4
<1>6. /\ mid \in bot..(top - 1)
      /\ mid \in Unread /\ mid + 1 \in Unread /\ mid + 1 \in DOMAIN re.names
      /\ top - (mid + 1) <= (top - bot) - 1
      /\ mid - bot <= (top - bot) - 1
  BY <1>2, <1>5, Halves
<1>7. PICK entry \in Entry : entry = re.names[mid + 1]
  BY <1>4, <1>6, ElementOfSeq
<1>8. f[piece] = Sought(f, name, piece)
  BY DEF Searches
<1>9. CASE entry.name = name
  <2>1. f[piece] = entry.n
    BY <1>1, <1>2, <1>5, <1>7, <1>8, <1>9 DEF Sought
  <2>. QED BY <1>6, <1>7, <1>9, <2>1 DEF Found
<1>10. CASE entry.name # name /\ C!Less(entry.name, name)
  <2>1. f[piece] = f[<<mid + 1, top>>]
    BY <1>1, <1>2, <1>5, <1>7, <1>8, <1>10 DEF Sought
  <2>2. ~(k < mid + 1)
    BY <1>3, <1>6, <1>7, <1>10 DEF InOrder
  <2>3. k # mid + 1
    BY <1>3, <1>7, <1>10
  <2>4. mid + 1 < k
    BY <1>4, <1>6, <2>2, <2>3
  <2>5. PICK q \in Unread \X Unread : q = <<mid + 1, top>>
    BY <1>6
  <2>6. Between(name, q)
    BY <1>3, <2>4, <2>5 DEF Between
  <2>7. Found(f, name, q)
    BY <1>1, <1>6, <2>5, <2>6
  <2>. QED BY <2>1, <2>5, <2>7 DEF Found
<1>11. CASE entry.name # name /\ ~C!Less(entry.name, name)
  <2>1. f[piece] = f[<<bot, mid>>]
    BY <1>1, <1>2, <1>5, <1>7, <1>8, <1>11 DEF Sought
  <2>2. C!Less(name, entry.name)
    BY <1>11, LessIsTotal DEF Entry
  <2>3. ~(mid + 1 < k)
    BY <1>3, <1>6, <1>7, <2>2 DEF InOrder
  <2>4. k # mid + 1
    BY <1>3, <1>7, <1>11
  <2>5. k <= mid
    BY <1>4, <1>6, <2>3, <2>4
  <2>6. PICK q \in Unread \X Unread : q = <<bot, mid>>
    BY <1>6
  <2>7. Between(name, q)
    BY <1>3, <2>5, <2>6 DEF Between
  <2>8. Found(f, name, q)
    BY <1>1, <1>6, <2>6, <2>7
  <2>. QED BY <2>1, <2>6, <2>8 DEF Found
<1>. QED BY <1>9, <1>10, <1>11

\* Between the bounds that the search begins with is every name.
LEMMA NamesAreFound ==
  ASSUME re.names \in Seq(Entry), InOrder(re.names), NEW i \in DOMAIN re.names
  PROVE  \E k \in DOMAIN re.names :
           /\ re.names[k].name = re.names[i].name
           /\ re.names[k].n = pcre_get_stringnumber(re.names[i].name)
<1>1. PICK l \in Nat : l = Len(re.names) /\ DOMAIN re.names = 1..l /\ Unread = 0..l
  BY LenProperties DEF Unread
<1>2. PICK name \in Seq(Nat) : name = re.names[i].name
  <2>1. re.names[i] \in Entry
    BY <1>1, ElementOfSeq
  <2>. QED BY <2>1 DEF Entry
<1>3. PICK f : Searches(f, name) /\ pcre_get_stringnumber(name) = f[<<0, l>>]
  BY <1>1, SearchIsTheLoop
<1>4. PICK T : T = {d \in 0..l : \A q \in Unread \X Unread :
                                   q[2] - q[1] <= d /\ Between(name, q) => Found(f, name, q)}
  OBVIOUS
<1>5. \A q \in Unread \X Unread : q[1] \in 0..l /\ q[2] \in 0..l /\ q[2] - q[1] \in Int
  BY <1>1
<1>6. 0 \in T
  <2>1. ASSUME NEW q \in Unread \X Unread, q[2] - q[1] <= 0, Between(name, q) PROVE FALSE
    BY <1>1, <1>5, <2>1 DEF Between
  <2>. QED BY <1>4, <2>1
<1>7. \A d \in 0..(l - 1) : d \in T => d + 1 \in T
  <2>1. ASSUME NEW d \in 0..(l - 1), d \in T,
               NEW piece \in Unread \X Unread, piece[2] - piece[1] <= d + 1, Between(name, piece)
        PROVE  Found(f, name, piece)
    <3>1. \A q \in Unread \X Unread : q[2] - q[1] <= d /\ Between(name, q) => Found(f, name, q)
      BY <1>4, <2>1
    <3>2. \A q \in Unread \X Unread : q[2] - q[1] <= (piece[2] - piece[1]) - 1 => q[2] - q[1] <= d
      BY <1>5, <2>1
    <3>3. \A q \in Unread \X Unread :
            q[2] - q[1] <= (piece[2] - piece[1]) - 1 /\ Between(name, q) => Found(f, name, q)
      BY <3>1, <3>2
    <3>. QED BY <1>3, <2>1, <3>3, FoundIfThere
  <2>2. \A d \in 0..(l - 1) : d + 1 \in 0..l
    BY <1>1
  <2>. QED BY <1>4, <2>1, <2>2
<1>8. l \in T
  <2>1. 0..l \subseteq T
    BY <1>1, <1>6, <1>7, InductionUpTo
  <2>2. l \in 0..l
    BY <1>1
  <2>. QED BY <2>1, <2>2
<1>9. PICK q \in Unread \X Unread : q = <<0, l>>
  <2>1. 0 \in Unread /\ l \in Unread
    BY <1>1
  <2>. QED BY <2>1
<1>10. Between(name, q)
  BY <1>1, <1>2, <1>9 DEF Between
<1>11. q[2] - q[1] <= l
  BY <1>1, <1>9
<1>12. Found(f, name, q)
  BY <1>4, <1>8, <1>10, <1>11
<1>. QED BY <1>2, <1>3, <1>9, <1>12 DEF Found

-----------------------------------------------------------------------------
(* The table of names while it is made: it is in order, and each of its      *)
(* numbers is that of a group that was opened, in this branch or in those    *)
(* before it or around it.                                                  *)
Opened(n) == \/ n <= cd.bracount \/ n <= group.max_bracount
             \/ \E j \in DOMAIN outer : n <= outer[j].group.max_bracount
Table(names) == names \in Seq(Entry) /\ InOrder(names)

NamesInv ==
  /\ CountsInv
  /\ source \in Sources
  /\ Table(cd.names)
  /\ \A i \in DOMAIN cd.names : Opened(cd.names[i].n)
  /\ at = "ended" /\ errorcode = 0 =>
       Table(re.names) /\ \A i \in DOMAIN re.names : re.names[i].n <= re.top_bracket

\* The numbers in the table are natural.
LEMMA TableNumbers ==
  ASSUME NEW names, Table(names), NEW i \in DOMAIN names
  PROVE  names[i].n \in Nat
<1>1. names[i] \in Entry
  BY LenProperties, ElementOfSeq DEF Table
<1>. QED BY <1>1 DEF Entry

\* Reading on, or failing, leaves the table alone.
LEMMA ReadsKeepsNames ==
  ASSUME NamesInv, CountsInv', UNCHANGED source, ReadsOn \/ Fails PROVE NamesInv'
<1>1. /\ cd'.names = cd.names /\ cd'.bracount = cd.bracount /\ UNCHANGED <<group, outer, re>>
      /\ ~(at' = "ended" /\ errorcode' = 0)
  BY DEF ReadsOn, Fails, Numbers
<1>. QED BY <1>1 DEF NamesInv, Opened, Table

\* A group that is opened may be the one a new name stands for.
LEMMA OpensKeepsNames ==
  ASSUME NamesInv, CountsInv', UNCHANGED source, Opens PROVE NamesInv'
<1>1. cd.bracount \in Nat /\ CountedGroup(group) /\ Stack(outer)
  BY DEF NamesInv, CountsInv
<1>2. PICK b : outer' = Append(outer, [branch |-> b, group |-> group])
  BY DEF Opens
<1>3. PICK m \in Nat : m = Len(outer) /\ DOMAIN outer = 1..m
  BY <1>1, LenProperties DEF Stack
<1>4. /\ DOMAIN outer' = 1..(m + 1) /\ outer'[m + 1].group = group
      /\ \A j \in 1..m : outer'[j] = outer[j]
  <2>1. PICK E : outer \in Seq(E)
    BY <1>1 DEF Stack
  <2>2. PICK f : f = [branch |-> b, group |-> group]
    OBVIOUS
  <2>3. outer' = Append(outer, f) /\ f.group = group
    BY <1>2, <2>2
  <2>. QED BY <1>3, <2>1, <2>3
<1>5. ASSUME NEW n \in Nat, Opened(n) PROVE Opened(n)'
  <2>1. CASE n <= cd.bracount
    <3>1. n <= cd'.bracount
      BY <1>1, <2>1 DEF Opens
    <3>. QED BY <3>1 DEF Opened
  <2>2. CASE n <= group.max_bracount
    <3>1. m + 1 \in DOMAIN outer' /\ n <= outer'[m + 1].group.max_bracount
      BY <1>4, <2>2
    <3>. QED BY <3>1 DEF Opened
  <2>3. ASSUME NEW j \in DOMAIN outer, n <= outer[j].group.max_bracount PROVE Opened(n)'
    <3>1. j \in DOMAIN outer' /\ n <= outer'[j].group.max_bracount
      BY <1>3, <1>4, <2>3
    <3>. QED BY <3>1 DEF Opened
  <2>. QED BY <1>5, <2>1, <2>2, <2>3 DEF Opened
<1>6. CASE cd'.names = cd.names
  BY <1>5, <1>6, TableNumbers DEF NamesInv, Opens
<1>7. CASE cd'.bracount = cd.bracount + 1 /\ Named
  <2>1. PICK p \in Nat : cd'.names = C!AddName(C!Text(C!Pattern, p, C!WordEnd(p)), cd.bracount + 1)
    BY <1>7 DEF Named
  <2>2. PICK name \in Seq(Nat) : name = C!Text(C!Pattern, p, C!WordEnd(p))
    BY PatternsAreText, WordIsText DEF NamesInv, C!Pattern
  <2>3. PICK n \in Nat : n = cd.bracount + 1
    BY <1>1
  <2>4. PICK new : new = C!AddName(name, n)
    OBVIOUS
  <2>5. /\ new \in Seq(Entry) /\ InOrder(new)
        /\ \A i \in DOMAIN new : new[i].n = n \/ \E j \in DOMAIN cd.names : new[i].n = cd.names[j].n
    BY <2>4, AddNameInOrder DEF NamesInv, Table
  <2>6. cd'.names = new
    BY <2>1, <2>2, <2>3, <2>4
  <2>7. ASSUME NEW i \in DOMAIN new PROVE Opened(new[i].n)'
    <3>1. CASE new[i].n = n
      BY <1>1, <1>7, <2>3, <3>1 DEF Opened
    <3>2. ASSUME NEW j \in DOMAIN cd.names, new[i].n = cd.names[j].n PROVE Opened(new[i].n)'
      BY <1>5, <3>2, TableNumbers DEF NamesInv
    <3>. QED BY <2>5, <3>1, <3>2
  <2>8. at' # "ended"
    BY DEF Opens
  <2>9. source' \in Sources
    BY DEF NamesInv
  <2>. QED BY <2>5, <2>6, <2>7, <2>8, <2>9 DEF NamesInv, Table
<1>. QED BY <1>6, <1>7 DEF Opens

\* The next alternative keeps in mind the highest number there was.
LEMMA AlternativeKeepsNames ==
  ASSUME NamesInv, CountsInv', UNCHANGED source, C!NextAlternative PROVE NamesInv'
<1>1. CASE Fails
  BY <1>1, ReadsKeepsNames
<1>2. CASE Turns
  <2>1. PICK n \in Nat : n = C!WithBracount /\ cd.bracount <= n /\ group.max_bracount <= n
    BY WithBracountIsNatural DEF NamesInv
  <2>2. group'.max_bracount = n
    <3>1. PICK g : g = C!Merged(group)
      OBVIOUS
    <3>2. "max_bracount" \in DOMAIN g
      BY <3>1, MergedIsCounted DEF NamesInv, CountsInv, CountedGroup
    <3>. QED BY <1>2, <2>1, <3>1, <3>2 DEF Turns
  <2>3. cd'.names = cd.names /\ UNCHANGED outer /\ at' # "ended"
    BY <1>2 DEF Turns, NamesInv, CountsInv, Counts
  <2>4. \A k \in Nat : Opened(k) => Opened(k)'
    <3>1. cd.bracount \in Nat /\ group.max_bracount \in Nat
      BY DEF NamesInv, CountsInv, CountedGroup
    <3>. QED BY <2>1, <2>2, <2>3, <3>1 DEF Opened
  <2>. QED BY <2>3, <2>4, TableNumbers DEF NamesInv
<1>. QED BY <1>1, <1>2, AlternativeTurns

\* So does the group around one that ends.
LEMMA EndGroupKeepsNames ==
  ASSUME NamesInv, CountsInv', UNCHANGED source, C!EndGroup PROVE NamesInv'
<1>1. CASE Fails
  BY <1>1, ReadsKeepsNames
<1>2. CASE Closes
  <2>1. PICK n \in Nat : n = C!WithBracount /\ cd.bracount <= n /\ group.max_bracount <= n
    BY WithBracountIsNatural DEF NamesInv
  <2>2. cd'.bracount = n /\ cd'.names = cd.names /\ at' # "ended"
    BY <1>2, <2>1 DEF Closes, NamesInv, CountsInv, Counts
  <2>3. PICK E : outer \in Seq(E)
    BY DEF NamesInv, CountsInv, Stack
  <2>4. PICK m \in Nat : m = Len(outer) /\ DOMAIN outer = 1..m /\ m # 0
    BY <1>2, <2>3, LenProperties DEF Closes
  <2>5. /\ group' = outer[m].group /\ DOMAIN outer' = 1..(m - 1)
        /\ \A j \in 1..(m - 1) : outer'[j] = outer[j]
    BY <1>2, <2>3, <2>4 DEF Closes
  <2>6. ASSUME NEW k \in Nat, Opened(k) PROVE Opened(k)'
    <3>1. cd.bracount \in Nat /\ group.max_bracount \in Nat
      BY DEF NamesInv, CountsInv, CountedGroup
    <3>2. CASE k <= cd.bracount \/ k <= group.max_bracount
      <4>1. k <= cd'.bracount
        BY <2>1, <2>2, <3>1, <3>2
      <4>. QED BY <4>1 DEF Opened
    <3>3. ASSUME NEW j \in DOMAIN outer, k <= outer[j].group.max_bracount PROVE Opened(k)'
      <4>1. CASE j = m
        BY <2>5, <3>3, <4>1 DEF Opened
      <4>2. CASE j # m
        <5>1. j \in DOMAIN outer' /\ outer'[j] = outer[j]
          BY <2>4, <2>5, <4>2
        <5>. QED BY <3>3, <5>1 DEF Opened
      <4>. QED BY <4>1, <4>2
    <3>. QED BY <2>6, <3>2, <3>3 DEF Opened
  <2>. QED BY <2>2, <2>6, TableNumbers DEF NamesInv
<1>. QED BY <1>1, <1>2, EndGroupCloses

\* Each pass begins without names.
LEMMA PassKeepsNames ==
  ASSUME NEW n, NEW options, NEW shared, C!StartsPass(n, options, shared), source \in Sources,
         UNCHANGED source, CountsInv', shared.names = <<>>
  PROVE  NamesInv'
<1>1. Table(<<>>) /\ DOMAIN <<>> = {}
  BY EmptySeq DEF Table, InOrder
<1>2. cd'.names = <<>> /\ at' # "ended"
  BY DEF C!StartsPass
<1>. QED BY <1>1, <1>2 DEF NamesInv

\* The table goes into the compiled pattern, with the number of groups.
LEMMA FinishKeepsNames ==
  ASSUME NamesInv, CountsInv', UNCHANGED source, C!Finish PROVE NamesInv'
<1>1. CASE \E e : e # 0 /\ C!FailWith(e)
  BY <1>1, FailWithFails, ReadsKeepsNames
<1>2. CASE ~\E e : e # 0 /\ C!FailWith(e)
  <2>1. UNCHANGED <<cd, group, outer>> /\ C!FinishCode(C!Resolved(C!Whole)) /\ outer = <<>>
    BY <1>2 DEF C!Finish, C!EndOfPattern, C!AtTop
  <2>2. re'.top_bracket = C!WithBracount /\ re'.names = cd.names
    BY <2>1 DEF C!FinishCode, C!FinishWith, C!RealPcre
  <2>3. PICK k \in Nat : k = C!WithBracount /\ cd.bracount <= k /\ group.max_bracount <= k
    BY WithBracountIsNatural DEF NamesInv
  <2>4. \A n \in Nat : Opened(n) => n <= k
    <3>1. cd.bracount \in Nat /\ group.max_bracount \in Nat /\ DOMAIN outer = {}
      BY <2>1 DEF NamesInv, CountsInv, CountedGroup
    <3>. QED BY <2>3, <3>1 DEF Opened
  <2>5. \A i \in DOMAIN cd.names : cd.names[i].n <= k
    BY <2>4, TableNumbers DEF NamesInv
  <2>. QED BY <2>1, <2>2, <2>3, <2>5 DEF NamesInv, Opened
<1>. QED BY <1>1, <1>2

\* Every step of the compiler keeps the table.
LEMMA CompileKeepsNames ==
  ASSUME NamesInv, UNCHANGED source, C!Compile PROVE NamesInv'
<1>0. CountsInv'
  BY CompileKeepsCounts DEF NamesInv
<1>1. CASE C!Start
  <2>1. CASE C!BadSource # 0
    BY <1>0, <1>1, <2>1, FailWithFails, ReadsKeepsNames DEF C!Start
  <2>2. CASE C!BadSource = 0
    <3>1. \E nl, bsr : C!StartsPass(1, source.options, C!NewCd(nl, bsr, source.options))
      BY <1>1, <2>2 DEF C!Start
    <3>2. source \in Sources
      BY DEF NamesInv
    <3>. QED BY <1>0, <3>1, <3>2, PassKeepsNames DEF C!NewCd
  <2>. QED BY <2>1, <2>2
<1>2. CASE C!SecondPass
  <2>1. PICK shared : shared = C!Anew
    OBVIOUS
  <2>2. shared.names = <<>>
    BY <2>1 DEF C!Anew, NamesInv, CountsInv, Counts
  <2>3. source \in Sources
    BY DEF NamesInv
  <2>. QED BY <1>0, <1>2, <2>1, <2>2, <2>3, PassKeepsNames DEF C!SecondPass
<1>3. CASE C!Finish
  BY <1>0, <1>3, FinishKeepsNames
<1>4. CASE C!ReadItem
  <2>1. Counts \subseteq DOMAIN cd /\ cd.bracount \in Nat
    BY DEF NamesInv, CountsInv
  <2>2. CASE C!NextAlternative BY <1>0, <2>2, AlternativeKeepsNames
  <2>3. CASE C!EndGroup BY <1>0, <2>3, EndGroupKeepsNames
  <2>4. CASE ~C!NextAlternative /\ ~C!EndGroup
    <3>1. ReadsOn \/ Fails \/ Opens
      BY <1>4, <2>1, <2>4, ReadingSteps, OpeningSteps, ReferringSteps DEF C!ReadItem
    <3>. QED BY <1>0, <3>1, ReadsKeepsNames, OpensKeepsNames
  <2>. QED BY <2>2, <2>3, <2>4
<1>. QED BY <1>1, <1>2, <1>3, <1>4 DEF C!Compile

\* Nothing else makes names.
LEMMA NextKeepsNames ==
  ASSUME NamesInv, [NextFind]_<<vars, findVars>> PROVE NamesInv'
<1>1. CASE C!Compile /\ UNCHANGED source
  BY <1>1, CompileKeepsNames
<1>2. CASE Study
  <2>1. UNCHANGED <<cd, group, outer, source>> /\ at' # "ended"
    BY <1>2 DEF Study
  <2>. QED BY <2>1 DEF NamesInv, CountsInv, CountedGroup, Table, Opened
<1>3. CASE UNCHANGED <<re, compileVars>>
  <2>1. UNCHANGED <<cd, group, outer, source, re, at, errorcode>>
    BY <1>3 DEF compileVars
  <2>2. CountsInv'
    BY <2>1, CountsStay DEF NamesInv
  <2>. QED BY <2>1, <2>2 DEF NamesInv, Table, Opened
<1>. QED BY <1>1, <1>2, <1>3 DEF NextFind, Enumerate, Compile, Execute, CallExec, FindInString, FindReturns,
         Deliver, Begin, vars

\* The compiler has not begun.
LEMMA InitNames == Init => NamesInv
<1>. SUFFICES ASSUME Init PROVE NamesInv
  OBVIOUS
<1>1. CountsInv
  BY StackEmpty DEF Init, C!InitCompile, C!NewCd, C!Idle, C!NewGroup, CountsInv, Counts, CountedGroup
<1>2. Table(<<>>) /\ DOMAIN <<>> = {}
  BY EmptySeq DEF Table, InOrder
<1>3. cd.names = <<>> /\ at # "ended" /\ source \in Sources
  BY DEF Init, C!InitCompile, C!NewCd
<1>. QED BY <1>1, <1>2, <1>3 DEF NamesInv

\* In a compiled pattern every name stands for a group there is, and is found
\* by the search an application makes, whatever the pattern.
THEOREM NamesAlwaysHaveGroups == SpecFind => []NamesHaveGroups
<1>1. Init /\ InitFind => NamesInv
  BY InitNames
<1>2. NamesInv /\ [NextFind]_<<vars, findVars>> => NamesInv'
  BY NextKeepsNames
<1>3. NamesInv => NamesHaveGroups
  <2>1. SUFFICES ASSUME NamesInv, at = "ended", errorcode = 0, NEW i \in DOMAIN re.names
                 PROVE  /\ re.names[i].n <= re.top_bracket
                        /\ \E k \in DOMAIN re.names :
                             /\ re.names[k].name = re.names[i].name
                             /\ re.names[k].n = pcre_get_stringnumber(re.names[i].name)
    BY DEF NamesHaveGroups
  <2>. QED BY <2>1, NamesAreFound DEF NamesInv, Table
<1>. QED BY <1>1, <1>2, <1>3, PTL DEF SpecFind
=============================================================================
