------------------------------ MODULE PcreExec ------------------------------
(***************************************************************************)
(* pcre_exec() and the backtracking function match() that it calls for one *)
(* start of the subject after another.  match() calls itself (RMATCH) for   *)
(* every point it may have to come back to; the machine here makes the      *)
(* frames of that recursion a variable, so that a step is what match() does *)
(* for one instruction, or on the return (RRETURN) to a frame.              *)
(***************************************************************************)
EXTENDS PcreTypes, FiniteSetsExt, SequencesExt

CONSTANT CalloutAnswers  \* what the application's callout may answer

VARIABLES
  re,             \* the compiled pattern, a real_pcre record
  job,            \* the arguments of the call: subject, start, options, limits
  phase,          \* "idle", "called", "scan", "match" or "ended"
  start_match,    \* where the subject is being matched
  req_byte_ptr,   \* where the required byte was found last
  md,             \* the match_data that changes
  frame,          \* the locals of the running match()
  frames,         \* those of its callers, the outermost first
  rrc,            \* "CALL", "RUN", or what a match() has returned
  result          \* what pcre_exec has returned

matchVars == <<md, frame, frames, rrc>>
searchVars == <<job, phase, start_match, req_byte_ptr, result>>
execVars  == <<searchVars, matchVars>>

-----------------------------------------------------------------------------
(* What the call fixes: the parts of match_data that match() only reads.    *)
Code    == re.code
Subject == job.subject
End     == Len(Subject)                               \* md->end_subject

Utf8     == "UTF8" \in re.options
Anchored == "ANCHORED" \in re.options \cup job.options
Partial  == "PARTIAL" \in job.options

NewlineName == IF job.newline # "none" THEN job.newline
               ELSE IF re.newline # "none" THEN re.newline ELSE "lf"
Nl == Newline[NewlineName]
BsrAnycrlf == IF job.bsr # "none" THEN job.bsr = "anycrlf" ELSE re.bsr = "anycrlf"

M == [s |-> Subject, nl |-> Nl, utf8 |-> Utf8, bsr_anycrlf |-> BsrAnycrlf]

OCount == IF re.top_backref > 0 /\ re.top_backref >= (job.offsetcount \div 3)
          THEN re.top_backref * 3 + 3
          ELSE job.offsetcount - (job.offsetcount % 3)
UsingTemporaryOffsets == OCount > job.offsetcount
OffsetMax  == (2 * OCount) \div 3
ResetCount == IF 2 + re.top_bracket * 2 > job.offsetcount THEN OCount
              ELSE 2 + re.top_bracket * 2

Op == Code[frame.ecode]
NoLocals == [at |-> "none"]
Verdicts == {"PRUNE", "COMMIT", "SKIP", "THEN"}
Errors   == {"MATCHLIMIT", "RECURSIONLIMIT", "CALLOUT"}
Returns  == {"MATCH", "NOMATCH"} \cup Verdicts \cup Errors

-----------------------------------------------------------------------------
(* The control of match().  st is the stack of callers a step leaves: the    *)
(* present one, or all but its top on the return to that.                   *)
Callers == SubSeq(frames, 1, Len(frames) - 1)

\* break or continue: the next instruction, in the same frame.
Go(st, fr) == frame' = fr /\ frames' = st /\ rrc' = "RUN"

\* goto TAIL_RECURSE: the same frame, entered anew.
TAIL_RECURSE(st, fr) == frame' = fr /\ frames' = st /\ rrc' = "CALL"

\* RMATCH: a call from fr, to be resumed with the locals loc.
RMATCH(st, fr, loc, eptr, ecode, eptrb, flags) ==
  /\ frames' = Append(st, [fr EXCEPT !.loc = loc])
  /\ frame' = [fr EXCEPT !.eptr = eptr, !.ecode = ecode, !.eptrb = eptrb,
                         !.flags = flags, !.loc = NoLocals]
  /\ rrc' = "CALL"

RRETURN(st, code) == rrc' = code /\ frames' = st /\ frame' = frame

\* The partial-match test at the head of the loop over the instructions.
MdPastEnd == IF Partial /\ frame.eptr > End /\ frame.eptr > frame.mstart
             THEN [md EXCEPT !.hitend = TRUE] ELSE md                   \* a mutant

Md == IF Partial /\ frame.eptr >= End /\ frame.eptr > frame.mstart
      THEN [md EXCEPT !.hitend = TRUE] ELSE md

Running(ops) == rrc = "RUN" /\ Op.op \in ops
Returning(at) == rrc \in Returns /\ frames # <<>> /\ Last(frames).loc.at = at
Failed   == rrc \in {"NOMATCH", "THEN"}
At1(e)   == [frame EXCEPT !.eptr = e, !.ecode = @ + 1]

\* The entry of match(): the two limits, and the chain of saved pointers.
TooDeepOffByOne == Len(frames) > job.match_limit_recursion             \* a mutant

TooDeep == Len(frames) >= job.match_limit_recursion

Enter ==
  /\ rrc = "CALL"
  /\ md' = [md EXCEPT !.match_call_count = @ + 1]
  /\ IF md.match_call_count >= job.match_limit
     THEN RRETURN(frames, "MATCHLIMIT")
     ELSE IF TooDeep
     THEN RRETURN(frames, "RECURSIONLIMIT")
     ELSE Go(frames, [frame EXCEPT
                !.original_ims = frame.ims,
                !.eptrb = IF "cbegroup" \in frame.flags
                          THEN <<frame.eptr>> \o @ ELSE @])

-----------------------------------------------------------------------------
(* The backtracking verbs.                                                  *)
Verb ==
  /\ Running({"PRUNE", "COMMIT", "SKIP", "THEN"})
  /\ md' = Md
  /\ RMATCH(frames, frame, [at |-> "RM51", op |-> Op.op], frame.eptr,
            frame.ecode + 1, frame.eptrb, frame.flags)

VerbFails ==
  /\ Returning("RM51")
  /\ LET fr == Last(frames)
     IN IF rrc # "NOMATCH" THEN RRETURN(Callers, rrc) /\ md' = md
        ELSE /\ RRETURN(Callers, fr.loc.op)
             /\ md' = IF fr.loc.op = "SKIP"
                      THEN [md EXCEPT !.start_match_ptr = fr.eptr] ELSE md

Fail == Running({"FAIL"}) /\ RRETURN(frames, "NOMATCH") /\ md' = Md

-----------------------------------------------------------------------------
(* Brackets.  A capture's start is kept at the far end of the vector until   *)
(* the KET; without room for it the bracket is as one that does not capture.*)
BraFlags(op) == IF op \in SBraOps THEN {"cbegroup"} ELSE {}

CaptureBracket ==
  /\ Running(CaptureOps)
  /\ 2 * Op.n < OffsetMax
  /\ LET v  == md.offset_vector
         fr == [frame EXCEPT !.flags = BraFlags(Op.op)]
     IN /\ md' = [Md EXCEPT !.offset_vector[OCount - Op.n] = frame.eptr]
        /\ RMATCH(frames, fr,
             [at |-> "RM1", n |-> Op.n, save_capture_last |-> md.capture_last,
              save |-> <<v[2 * Op.n], v[2 * Op.n + 1], v[OCount - Op.n]>>],
             frame.eptr, frame.ecode + 1, frame.eptrb, fr.flags)

CaptureBracketFails ==
  /\ Returning("RM1")
  /\ LET fr   == Last(frames)
         loc  == fr.loc
         next == NextAlt(Code, fr.ecode)
     IN IF ~Failed THEN RRETURN(Callers, rrc) /\ md' = md
        ELSE IF Code[next].op = "ALT"
        THEN /\ md' = [md EXCEPT !.capture_last = loc.save_capture_last]
             /\ RMATCH(Callers, [fr EXCEPT !.ecode = next], loc, fr.eptr,
                       next + 1, fr.eptrb, fr.flags)
        ELSE /\ md' = [md EXCEPT !.capture_last = loc.save_capture_last,
                                 !.offset_vector =
                          [@ EXCEPT ![2 * loc.n] = loc.save[1],
                                    ![2 * loc.n + 1] = loc.save[2],
                                    ![OCount - loc.n] = loc.save[3]]]
             /\ RRETURN(Callers, "NOMATCH")

\* One alternative of a bracket that does not capture: a tail recursion for
\* the last, unless the group may match an empty string.
TryAlternative(st, fr) ==
  IF ~IsLastAlt(Code, fr.ecode)
  THEN RMATCH(st, fr, [at |-> "RM2"], fr.eptr, fr.ecode + 1, fr.eptrb, fr.flags)
  ELSE IF fr.flags = {}
  THEN TAIL_RECURSE(st, [fr EXCEPT !.ecode = @ + 1])
  ELSE RMATCH(st, fr, [at |-> "RM48"], fr.eptr, fr.ecode + 1, fr.eptrb, fr.flags)

Bracket ==
  /\ \/ Running({"BRA", "SBRA"})
     \/ Running(CaptureOps) /\ 2 * Op.n >= OffsetMax
  /\ md' = Md
  /\ TryAlternative(frames, [frame EXCEPT !.flags = BraFlags(Op.op)])

BracketFails ==
  /\ Returning("RM2")
  /\ md' = md
  /\ LET fr == Last(frames)
     IN IF Failed
        THEN TryAlternative(Callers, [fr EXCEPT !.ecode = NextAlt(Code, @)])
        ELSE RRETURN(Callers, rrc)

\* The calls whose answer, whatever it is, the caller returns.
PassOn ==
  /\ \/ Returning("RM48") \/ Returning("RM49") \/ Returning("RM50")
  /\ RRETURN(Callers, rrc) /\ md' = md

-----------------------------------------------------------------------------
(* Conditional groups: a reference to a recursion or to a capture, DEFINE,   *)
(* or an assertion.                                                         *)
TakeBranch(st, fr, op, condition) ==
  IF condition \/ Code[fr.ecode].op = "ALT"
  THEN IF op = "SCOND"
       THEN RMATCH(st, [fr EXCEPT !.ecode = @ + 1], [at |-> "RM49"], fr.eptr,
                   fr.ecode + 1, fr.eptrb, {"cbegroup"})
       ELSE TAIL_RECURSE(st, [fr EXCEPT !.ecode = @ + 1, !.flags = {}])
  ELSE Go(st, [fr EXCEPT !.ecode = @ + 1])

Condition ==
  /\ Running({"COND", "SCOND"})
  /\ Code[frame.ecode + 1].op \in ConditionOps
  /\ md' = Md
  /\ LET if == Code[frame.ecode + 1]
         condition ==
           CASE if.op = "RREF" -> /\ md.recursive # <<>>
                                  /\ \/ if.n = RREF_ANY
                                     \/ if.n = md.recursive[1].group_num
             [] if.op = "CREF" -> /\ 2 * if.n < frame.offset_top
                                  /\ md.offset_vector[2 * if.n] >= 0
             [] if.op = "DEF"  -> FALSE
     IN TakeBranch(frames,
          [frame EXCEPT !.ecode = IF condition THEN @ + 1 ELSE NextAlt(Code, @)],
          Op.op, condition)

ConditionAssertion ==
  /\ Running({"COND", "SCOND"})
  /\ Code[frame.ecode + 1].op \notin ConditionOps
  /\ md' = Md
  /\ RMATCH(frames, frame, [at |-> "RM3", op |-> Op.op], frame.eptr,
            frame.ecode + 1, <<>>, {"condassert"})

ConditionDecided ==
  /\ Returning("RM3")
  /\ md' = md
  /\ LET fr == Last(frames)
     IN IF rrc = "MATCH"
        THEN TakeBranch(Callers, [fr EXCEPT !.ecode = KetOf(Code, @ + 1)],
                        fr.loc.op, TRUE)
        ELSE IF Failed
        THEN TakeBranch(Callers, [fr EXCEPT !.ecode = NextAlt(Code, @)],
                        fr.loc.op, FALSE)
        ELSE RRETURN(Callers, rrc)

-----------------------------------------------------------------------------
(* The end of the pattern, or the verb ACCEPT.  *)
EndRecursion(fr, rec) ==
  [fr EXCEPT !.mstart = rec.save_start, !.ims = fr.original_ims,
             !.ecode = rec.after_call]

Accept ==
  /\ Running({"END", "ACCEPT"})
  /\ IF md.recursive # <<>> /\ md.recursive[1].group_num = 0
     THEN LET rec == md.recursive[1]
          IN /\ md' = [Md EXCEPT !.recursive = Tail(@),
                                 !.offset_vector = rec.offset_save]
             /\ Go(frames, EndRecursion(frame, rec))
     ELSE IF "NOTEMPTY" \in job.options /\ frame.eptr = frame.mstart
     THEN RRETURN(frames, "NOMATCH") /\ md' = Md
     ELSE /\ md' = [Md EXCEPT !.end_match_ptr = frame.eptr,
                              !.end_offset_top = frame.offset_top,
                              !.start_match_ptr = frame.mstart]
          /\ RRETURN(frames, "MATCH")

SetOptions == /\ Running({"OPT"}) /\ md' = Md
              /\ Go(frames, [frame EXCEPT !.ims = Op.ims, !.ecode = @ + 1])

-----------------------------------------------------------------------------
(* Assertions.  The first alternative that matches decides; captures it set  *)
(* stay set in a positive one.                                              *)
Assertion ==
  /\ Running(LookOps)
  /\ md' = Md
  /\ RMATCH(frames, frame,
       [at |-> IF Op.op \in {"ASSERT", "ASSERTBACK"} THEN "RM4" ELSE "RM5"],
       frame.eptr, frame.ecode + 1, <<>>, {})

\* The next alternative, or the answer if there is none.
NextAssertion(fr, none) ==
  LET next == NextAlt(Code, fr.ecode)
  IN IF Code[next].op = "ALT"
     THEN RMATCH(Callers, [fr EXCEPT !.ecode = next], fr.loc, fr.eptr, next + 1,
                 <<>>, {})
     ELSE none

AssertionReturns ==
  /\ Returning("RM4")
  /\ md' = md
  /\ LET fr == Last(frames)
     IN CASE rrc = "MATCH" /\ "condassert" \in fr.flags -> RRETURN(Callers, "MATCH")
          [] rrc = "MATCH" /\ "condassert" \notin fr.flags ->
               Go(Callers, [fr EXCEPT !.ecode = KetOf(Code, @) + 1,
                                      !.offset_top = md.end_offset_top])
          [] Failed -> NextAssertion(fr, RRETURN(Callers, "NOMATCH"))
          [] OTHER -> RRETURN(Callers, rrc)

NegativeAssertionReturns ==
  /\ Returning("RM5")
  /\ md' = md
  /\ LET fr == Last(frames)
     IN CASE rrc = "MATCH" -> RRETURN(Callers, "NOMATCH")
          [] Failed -> NextAssertion(fr,
               IF "condassert" \in fr.flags THEN RRETURN(Callers, "MATCH")
               ELSE Go(Callers, [fr EXCEPT !.ecode = KetOf(Code, @) + 1]))
          [] OTHER -> RRETURN(Callers, rrc)

\* A lookbehind steps back: characters in UTF-8, else bytes.
ReverseBack ==
  /\ Running({"REVERSE"})
  /\ md' = Md
  /\ LET back[i \in 0..Op.n] ==
           IF i = 0 THEN frame.eptr
           ELSE IF back[i - 1] <= 0 THEN -1
           ELSE IF Utf8 THEN BACKCHAR(Subject, back[i - 1] - 1) ELSE back[i - 1] - 1
     IN IF back[Op.n] < 0 THEN RRETURN(frames, "NOMATCH")
        ELSE Go(frames, At1(back[Op.n]))

\* The application's function may fail the match here, or end it.
Callout ==
  /\ Running({"CALLOUT"})
  /\ md' = Md
  /\ \E answer \in CalloutAnswers :
       IF answer > 0 THEN RRETURN(frames, "NOMATCH")
       ELSE IF answer < 0 THEN RRETURN(frames, "CALLOUT")
       ELSE Go(frames, At1(frame.eptr))

-----------------------------------------------------------------------------
(* A call of a group, or of the whole pattern, as a subroutine: the captures *)
(* are saved, and restored when the group's KET is met.                     *)
GroupNumber(p) == IF p = 1 THEN 0 ELSE Code[p].n

Recurse ==
  /\ Running({"RECURSE"})
  /\ LET callpat == Op.link
         rec == [group_num |-> GroupNumber(callpat), after_call |-> frame.ecode + 1,
                 offset_save |-> md.offset_vector, save_start |-> frame.mstart]
         fr  == [frame EXCEPT !.ecode = @ + 1, !.mstart = frame.eptr,
                              !.flags = BraFlags(Code[callpat].op)]
     IN /\ md' = [Md EXCEPT !.recursive = <<rec>> \o @]
        /\ RMATCH(frames, fr,
             [at |-> "RM6", callpat |-> callpat, rec |-> rec,
              prevrec |-> md.recursive],
             frame.eptr, callpat + 1, frame.eptrb, fr.flags)

RecurseReturns ==
  /\ Returning("RM6")
  /\ LET fr   == Last(frames)
         loc  == fr.loc
         next == NextAlt(Code, loc.callpat)
     IN CASE rrc = "MATCH" -> /\ md' = [md EXCEPT !.recursive = loc.prevrec]
                              /\ RRETURN(Callers, "MATCH")
          [] ~Failed /\ rrc # "MATCH" -> RRETURN(Callers, rrc) /\ md' = md
          [] Failed /\ Code[next].op = "ALT" ->
               /\ md' = [md EXCEPT !.recursive = <<loc.rec>> \o loc.prevrec,
                                   !.offset_vector = loc.rec.offset_save]
               /\ RMATCH(Callers, fr, [loc EXCEPT !.callpat = next], fr.eptr,
                         next + 1, fr.eptrb, fr.flags)
          [] Failed /\ Code[next].op # "ALT" ->
               /\ md' = [md EXCEPT !.recursive = loc.prevrec,
                                   !.offset_vector = loc.rec.offset_save]
               /\ RRETURN(Callers, "NOMATCH")

-----------------------------------------------------------------------------
(* Atomic groups: the first alternative that matches is kept.               *)
Atomic ==
  /\ Running({"ONCE"})
  /\ md' = Md
  /\ RMATCH(frames, frame, [at |-> "RM7", prev |-> frame.ecode], frame.eptr,
            frame.ecode + 1, frame.eptrb, {})

\* After the group: go on, or repeat it.
AtomicMatched(fr) ==
  LET ket  == KetOf(Code, fr.ecode)
      next == Code[ket + 1]
      on   == [fr EXCEPT !.eptr = md.end_match_ptr,
                         !.offset_top = md.end_offset_top, !.ecode = ket]
      opt  == IF next.op = "OPT" THEN [on EXCEPT !.ims = next.ims] ELSE on
  IN IF Code[ket].op = "KET" \/ md.end_match_ptr = fr.eptr
     THEN Go(Callers, [on EXCEPT !.ecode = ket + 1])
     ELSE IF Code[ket].op = "KETRMIN"
     THEN RMATCH(Callers, opt, [at |-> "RM8", prev |-> fr.loc.prev], opt.eptr,
                 ket + 1, fr.eptrb, {})
     ELSE RMATCH(Callers, opt, [at |-> "RM9"], opt.eptr, fr.loc.prev, fr.eptrb,
                 {"cbegroup"})

AtomicReturns ==
  /\ Returning("RM7")
  /\ md' = md
  /\ LET fr   == Last(frames)
         next == NextAlt(Code, fr.ecode)
     IN CASE rrc = "MATCH" -> AtomicMatched(fr)
          [] Failed /\ Code[next].op = "ALT" ->
               RMATCH(Callers, [fr EXCEPT !.ecode = next], fr.loc, fr.eptr,
                      next + 1, fr.eptrb, {})
          [] Failed /\ Code[next].op # "ALT" -> RRETURN(Callers, "NOMATCH")
          [] OTHER -> RRETURN(Callers, rrc)

\* What followed a repeated atomic group failed: the group again (lazy), or
\* what follows it (greedy).
AtomicRepeatFails ==
  /\ Returning("RM8") \/ Returning("RM9")
  /\ md' = md
  /\ LET fr == Last(frames)
     IN IF rrc # "NOMATCH" THEN RRETURN(Callers, rrc)
        ELSE TAIL_RECURSE(Callers, [fr EXCEPT
               !.flags = {},
               !.ecode = IF fr.loc.at = "RM8" THEN fr.loc.prev ELSE @ + 1])

\* An alternative has matched to its end: skip those that follow.
SkipAlternatives ==
  /\ Running({"ALT"}) /\ md' = Md
  /\ Go(frames, [frame EXCEPT !.ecode = KetOf(Code, @)])

-----------------------------------------------------------------------------
(* Groups that may be passed over, greedily, lazily or always.              *)
AfterGroup == KetOf(Code, frame.ecode + 1) + 1

OptionalGroup ==
  /\ Running({"BRAZERO", "BRAMINZERO"})
  /\ md' = Md
  /\ RMATCH(frames, frame,
       [at |-> IF Op.op = "BRAZERO" THEN "RM10" ELSE "RM11"], frame.eptr,
       IF Op.op = "BRAZERO" THEN frame.ecode + 1 ELSE AfterGroup, frame.eptrb, {})

OptionalGroupFails ==
  /\ Returning("RM10") \/ Returning("RM11")
  /\ md' = md
  /\ LET fr == Last(frames)
     IN IF rrc # "NOMATCH" THEN RRETURN(Callers, rrc)
        ELSE Go(Callers, [fr EXCEPT
               !.ecode = IF fr.loc.at = "RM10" THEN KetOf(Code, @ + 1) + 1
                         ELSE @ + 1])

SkipGroup == Running({"SKIPZERO"}) /\ md' = Md
             /\ Go(frames, [frame EXCEPT !.ecode = AfterGroup])

-----------------------------------------------------------------------------
(* The end of a group.  An assertion or an atomic group ends its call of     *)
(* match(); a capture is recorded; a subroutine call returns; a group that   *)
(* matched nothing is not repeated.                                         *)
Prev == frame.ecode - Op.link
SavedEptr == IF Code[Prev].op \in SBraOps THEN frame.eptrb[1] ELSE -1
Popped    == IF Code[Prev].op \in SBraOps
             THEN [frame EXCEPT !.eptrb = Tail(@)] ELSE frame

InSubroutine(n) == md.recursive # <<>> /\ md.recursive[1].group_num = n

KetOfCall ==
  /\ Running(KetOps)
  /\ Code[Prev].op \in LookOps \cup {"ONCE"}
  /\ md' = [Md EXCEPT !.end_match_ptr = frame.eptr,
                      !.end_offset_top = frame.offset_top]
  /\ RRETURN(frames, "MATCH")

KetCapture(n) ==
  IF 2 * n >= OffsetMax THEN [Md EXCEPT !.capture_last = n, !.offset_overflow = TRUE]
  ELSE [Md EXCEPT !.capture_last = n,
          !.offset_vector = [@ EXCEPT ![2 * n] = md.offset_vector[OCount - n],
                                      ![2 * n + 1] = frame.eptr]]

KetOfSubroutine ==
  /\ Running(KetOps)
  /\ Code[Prev].op \in CaptureOps
  /\ InSubroutine(Code[Prev].n)
  /\ LET rec == md.recursive[1]
         top == IF 2 * Code[Prev].n < OffsetMax
                THEN Max({frame.offset_top, 2 * Code[Prev].n + 2})
                ELSE frame.offset_top
     IN /\ md' = [KetCapture(Code[Prev].n) EXCEPT !.recursive = Tail(@),
                                                 !.offset_vector = rec.offset_save]
        /\ Go(frames, [EndRecursion(Popped, rec) EXCEPT !.offset_top = top])

KetRepeats(fr, prev) ==
  LET flags == BraFlags(Code[prev].op)
      ket   == fr.ecode
  IN IF Code[ket].op = "KET" \/ fr.eptr = SavedEptr
     THEN Go(frames, [fr EXCEPT !.ecode = ket + 1])
     ELSE IF Code[ket].op = "KETRMIN"
     THEN RMATCH(frames, [fr EXCEPT !.flags = flags],
                 [at |-> "RM12", prev |-> prev], fr.eptr, ket + 1, fr.eptrb, {})
     ELSE RMATCH(frames, [fr EXCEPT !.flags = flags], [at |-> "RM13"], fr.eptr,
                 prev, fr.eptrb, flags)

Ket ==
  /\ Running(KetOps)
  /\ Code[Prev].op \notin LookOps \cup {"ONCE"}
  /\ LET group == Code[Prev]
         on    == [Popped EXCEPT !.ims = frame.original_ims]
     IN IF group.op \in CaptureOps
        THEN /\ ~InSubroutine(group.n)
             /\ md' = KetCapture(group.n)
             /\ KetRepeats([on EXCEPT !.offset_top =
                              IF 2 * group.n < OffsetMax
                              THEN Max({@, 2 * group.n + 2}) ELSE @], Prev)
        ELSE md' = Md /\ KetRepeats(on, Prev)

KetFails ==
  /\ Returning("RM12") \/ Returning("RM13")
  /\ md' = md
  /\ LET fr == Last(frames)
     IN CASE rrc # "NOMATCH" -> RRETURN(Callers, rrc)
          [] rrc = "NOMATCH" /\ fr.loc.at = "RM13" ->
               TAIL_RECURSE(Callers, [fr EXCEPT !.ecode = @ + 1, !.flags = {}])
          [] rrc = "NOMATCH" /\ fr.loc.at = "RM12" /\ fr.flags # {} ->
               RMATCH(Callers, fr, [at |-> "RM50"], fr.eptr, fr.loc.prev,
                      fr.eptrb, fr.flags)
          [] rrc = "NOMATCH" /\ fr.loc.at = "RM12" /\ fr.flags = {} ->
               TAIL_RECURSE(Callers, [fr EXCEPT !.ecode = fr.loc.prev])

-----------------------------------------------------------------------------
(* The assertions that look at the subject around the current point.        *)
NlLen == IF Nl.type = "FIXED" THEN Len(Nl.nl)
         ELSE NewlineLen(Subject, frame.eptr, Nl, Utf8)
AtNl(e)  == IS_NEWLINE(Subject, e, Nl, Utf8)
WasNl(e) == WAS_NEWLINE(Subject, e, Nl, Utf8)
AtFinalNewline(e) == e = End \/ (AtNl(e) /\ e = End - NlLen)
Multiline == "MULTILINE" \in frame.ims

LineHolds(op, e) ==
  CASE op = "CIRC" -> /\ ~("NOTBOL" \in job.options /\ e = 0)
                      /\ IF Multiline THEN e = 0 \/ (e # End /\ WasNl(e)) ELSE e = 0
    [] op = "SOD"  -> e = 0
    [] op = "SOM"  -> e = job.start_offset
    [] op = "DOLL" -> IF Multiline
                      THEN IF e < End THEN AtNl(e) ELSE "NOTEOL" \notin job.options
                      ELSE /\ "NOTEOL" \notin job.options
                           /\ IF "DOLLAR_ENDONLY" \in re.options THEN e >= End
                              ELSE AtFinalNewline(e)
    [] op = "EOD"  -> e >= End
    [] op = "EODN" -> AtFinalNewline(e)

PrevIsWord(e) ==
  IF e = 0 THEN FALSE
  ELSE LET c == IF Utf8 THEN GETCHAR(Subject, BACKCHAR(Subject, e - 1))
                ELSE At(Subject, e - 1)
       IN c < 256 /\ c \in Ctype("word")

CurIsWord(e) ==
  IF e >= End THEN FALSE
  ELSE CharAt(M, e) < 256 /\ CharAt(M, e) \in Ctype("word")

BoundaryHolds(op, e) ==
  IF op = "WORD_BOUNDARY" THEN CurIsWord(e) # PrevIsWord(e)
  ELSE CurIsWord(e) = PrevIsWord(e)

SimpleAssertion ==
  /\ Running(SimpleAssertions)
  /\ md' = Md
  /\ IF IF Op.op \in {"WORD_BOUNDARY", "NOT_WORD_BOUNDARY"}
        THEN BoundaryHolds(Op.op, frame.eptr) ELSE LineHolds(Op.op, frame.eptr)
     THEN Go(frames, At1(frame.eptr)) ELSE RRETURN(frames, "NOMATCH")

SetStartOfMatch ==
  /\ Running({"SET_SOM"}) /\ md' = Md
  /\ Go(frames, [frame EXCEPT !.mstart = frame.eptr, !.ecode = @ + 1])

-----------------------------------------------------------------------------
(* Single items.                                                            *)
Type ==
  /\ Running(CharTypes)
  /\ md' = Md
  /\ LET e == SingleType(Op.op, M, frame.eptr)
     IN IF e = NoMatch THEN RRETURN(frames, "NOMATCH") ELSE Go(frames, At1(e))

\* The bytes of a character in the code, and whether they are at offset e.
CodeBytes(c) == CharBytes(c, Utf8)
BytesAt(bytes, e) == /\ Len(bytes) <= End - e
                     /\ \A k \in 1..Len(bytes) : At(Subject, e + k - 1) = bytes[k]

CharMatches(c, e) == If(BytesAt(CodeBytes(c), e), e + Len(CodeBytes(c)))

CharNcMatches(c, e) ==
  IF Len(CodeBytes(c)) > End - e THEN NoMatch
  ELSE IF Utf8 /\ c >= 128
  THEN If(GETCHAR(Subject, e) = c, e + GETCHARLEN(Subject, e))
  ELSE If(Lcc(c) = Lcc(At(Subject, e)), e + 1)

Char ==
  /\ Running({"CHAR", "CHARNC"})
  /\ md' = Md
  /\ LET e == IF Op.op = "CHAR" THEN CharMatches(Op.c, frame.eptr)
              ELSE CharNcMatches(Op.c, frame.eptr)
     IN IF e = NoMatch THEN RRETURN(frames, "NOMATCH") ELSE Go(frames, At1(e))

NotChar ==
  /\ Running({"NOT"})
  /\ md' = Md
  /\ LET c == CharAt(M, frame.eptr)
         differs == IF "CASELESS" \in frame.ims
                    THEN Lcc(Op.c) # (IF c < 256 THEN Lcc(c) ELSE c)
                    ELSE Op.c # c
     IN IF frame.eptr >= End \/ ~differs THEN RRETURN(frames, "NOMATCH")
        ELSE Go(frames, At1(CharEnd(M, frame.eptr)))

-----------------------------------------------------------------------------
(* Repeated items.  ItemEnd gives the offset after one more item at e, or    *)
(* NoMatch; when says which of the three loops asks: the minimum (whose     *)
(* room was tested before), the lazy rest or the greedy one.                *)
MultiByteChar(when, bytes, e) ==
  IF (when = "lazy" /\ e >= End) \/ (when = "greedy" /\ e > End - Len(bytes)) THEN NoMatch
  ELSE If(\A k \in 1..Len(bytes) : At(Subject, e + k - 1) = bytes[k],
          e + Len(bytes))

CaselessChar(when, c, e) ==
  If(~(when # "min" /\ e >= End) /\ Lcc(c) = Lcc(At(Subject, e)), e + 1)

CasedChar(when, c, e) ==
  If(~(when # "min" /\ e >= End) /\ c = At(Subject, e), e + 1)

CharItem(when, ims, c, e) ==
  IF Utf8 /\ c >= 128 THEN MultiByteChar(when, OrdToUtf8(c), e)
  ELSE IF "CASELESS" \in ims THEN CaselessChar(when, c, e)
  ELSE CasedChar(when, c, e)

CaselessNotChar(when, c, e) ==
  LET d == CharAt(M, e)
  IN If(/\ ~(when # "min" /\ e >= End)
        /\ Lcc(c) # (IF d < 256 THEN Lcc(d) ELSE d), CharEnd(M, e))

CasedNotChar(when, c, e) ==
  If(~(when # "min" /\ e >= End) /\ c # CharAt(M, e), CharEnd(M, e))

TypeItem(when, type, e) ==
  CASE when = "min"    -> IF Utf8 THEN MinUtf8Type(type, M, e)
                          ELSE MinByteType(type, M, e)
    [] when = "lazy"   -> IF Utf8 THEN LazyUtf8Type(type, M, e)
                          ELSE LazyByteType(type, M, e)
    [] when = "greedy" -> IF Utf8 THEN GreedyUtf8Type(type, M, e)
                          ELSE GreedyByteType(type, M, e)

\* A map of bytes says nothing of the characters past them: only a negated
\* class takes those.
ClassItem(class, e) ==
  LET c == CharAt(M, e)
  IN If(/\ e < End
        /\ IF c > 255 THEN class.op = "NCLASS" ELSE c \in class.map, CharEnd(M, e))

XClassItem(class, e) == If(e < End /\ XClass(GETCHAR(Subject, e), class),
                           e + GETCHARLEN(Subject, e))

\* match_ref: the text of a capture again; case is folded byte by byte.
MatchRef(ims, offset, length, e) ==
  LET p == md.offset_vector[offset]
  IN If(/\ length <= End - e
        /\ \A k \in 0..(length - 1) :
             IF "CASELESS" \in ims
             THEN Lcc(At(Subject, p + k)) = Lcc(At(Subject, e + k))
             ELSE At(Subject, p + k) = At(Subject, e + k), e + length)

ItemEnd(when, fr, item, e) ==
  CASE item.op = "CHARREP" -> CharItem(when, fr.ims, item.c, e)
    [] item.op = "NOTREP"  -> IF "CASELESS" \in fr.ims
                              THEN CaselessNotChar(when, item.c, e)
                              ELSE CasedNotChar(when, item.c, e)
    [] item.op = "TYPEREP" -> TypeItem(when, item.type, e)
    [] item.op \in {"CLASS", "NCLASS"} -> ClassItem(item, e)
    [] item.op = "XCLASS"  -> XClassItem(item, e)
    [] item.op = "REF"     -> MatchRef(fr.ims, item.offset, item.length, e)

RoomForChars(item, min) ==
  IF item.op = "CHARREP" THEN min * Len(CodeBytes(item.c)) ELSE 0      \* a mutant

\* The bytes a repeat must have before it tries its minimum.
Room(item, min) ==
  CASE item.op = "CHARREP" -> min * Len(CodeBytes(item.c))
    [] item.op \in {"NOTREP", "TYPEREP"} -> min
    [] OTHER -> 0

MinimumEnd(fr, item, min) ==
  LET m[i \in 0..min] == IF i = 0 THEN fr.eptr
                         ELSE IF m[i - 1] = NoMatch THEN NoMatch
                         ELSE ItemEnd("min", fr, item, m[i - 1])
  IN IF Room(item, min) > End - fr.eptr THEN NoMatch ELSE m[min]

\* The greedy loop: from p, up to n more items.
OneMore(fr, item) ==
  [e \in 0..(End + 1) |-> LET next == ItemEnd("greedy", fr, item, e)
                          IN IF next = NoMatch THEN e ELSE next]

GreedyEnd(fr, item, p, n) ==
  LET g[k \in 0..n] == IF k = 0 THEN p ELSE OneMore(fr, item)[g[k - 1]]
  IN g[n]

\* Where the greedy loop gives back its last item: one character, one byte
\* or one copy of the capture.
GiveBack(item, e) ==
  CASE item.op = "REF" -> e - item.length
    [] item.op = "CHARREP" /\ Utf8 -> e - Len(OrdToUtf8(item.c))
    [] item.op \notin {"REF", "CHARREP"} /\ Utf8 -> BACKCHAR(Subject, e - 1)
    [] OTHER -> e - 1

\* After the minimum, at e: no more, one at a time, or all there are, at last.
LazyRest(fr, item, min, max, e) ==
  RMATCH(frames, [fr EXCEPT !.eptr = e],
         [at |-> "LAZY", item |-> item, fi |-> min, max |-> max],
         e, fr.ecode, fr.eptrb, {})

GreedyRest(fr, item, e, last, possessive) ==
  IF possessive THEN Go(frames, [fr EXCEPT !.eptr = last])
  ELSE RMATCH(frames, [fr EXCEPT !.eptr = last],
              [at |-> "GREEDY", item |-> item, pp |-> e],
              last, fr.ecode, fr.eptrb, {})

RepeatRest(fr, item, min, max, lazy, possessive, e) ==
  CASE e = NoMatch -> RRETURN(frames, "NOMATCH")
    [] e # NoMatch /\ min = max -> Go(frames, [fr EXCEPT !.eptr = e])
    [] e # NoMatch /\ min # max /\ lazy -> LazyRest(fr, item, min, max, e)
    [] OTHER -> GreedyRest(fr, item, e,
                           GreedyEnd(fr, item, e, Min({max - min, End})), possessive)

Repeat(fr, item, min, max, lazy, possessive) ==
  RepeatRest(fr, item, min, max, lazy, possessive, MinimumEnd(fr, item, min))

RepeatSingle ==
  /\ Running(RepOps)
  /\ md' = Md
  /\ Repeat([frame EXCEPT !.ecode = @ + 1], Op, RepMin(Op.rep, Op.n),
            RepMax(Op.rep, Op.n), Op.rep \in LazyReps, Op.rep \in PossessiveReps)

RepeatClass ==
  /\ Running(ClassOps)
  /\ md' = Md
  /\ LET q == Quantifier(Code, frame.ecode)
     IN Repeat([frame EXCEPT !.ecode = AfterItem(Code, @)], Op, q.min, q.max,
               q.lazy, FALSE)

\* A reference to a group that is not set can match nothing, except in
\* JavaScript's way.
Reference ==
  /\ Running({"REF"})
  /\ md' = Md
  /\ LET offset == 2 * Op.n
         unset  == offset >= frame.offset_top \/ md.offset_vector[offset] < 0
         length == IF ~unset
                   THEN md.offset_vector[offset + 1] - md.offset_vector[offset]
                   ELSE IF "JAVASCRIPT_COMPAT" \in re.options THEN 0
                   ELSE End - frame.eptr + 1
         q    == Quantifier(Code, frame.ecode)
         fr   == [frame EXCEPT !.ecode = AfterItem(Code, @)]
         item == [op |-> "REF", offset |-> offset, length |-> length]
     IN IF length = 0 THEN Go(frames, fr)
        ELSE Repeat(fr, item, q.min, q.max, q.lazy, FALSE)

\* What follows has failed: one more item, to e, or one less.
LazyNext(fr, e) ==
  IF e = NoMatch THEN RRETURN(Callers, "NOMATCH")
  ELSE RMATCH(Callers, [fr EXCEPT !.eptr = e], [fr.loc EXCEPT !.fi = @ + 1],
              e, fr.ecode, fr.eptrb, {})

LazyRepeatFails ==
  /\ Returning("LAZY")
  /\ md' = md
  /\ LET fr   == Last(frames)
         loc  == fr.loc
     IN IF rrc # "NOMATCH" THEN RRETURN(Callers, rrc)
        ELSE LazyNext(fr,
               IF loc.fi >= loc.max \/ (fr.eptr >= End /\ loc.item.op # "REF")
               THEN NoMatch ELSE ItemEnd("lazy", fr, loc.item, fr.eptr))

GreedyRepeatFails ==
  /\ Returning("GREEDY")
  /\ md' = md
  /\ LET fr == Last(frames)
         e  == GiveBack(fr.loc.item, fr.eptr)
     IN IF rrc # "NOMATCH" THEN RRETURN(Callers, rrc)
        ELSE IF fr.eptr = fr.loc.pp \/ e < fr.loc.pp THEN RRETURN(Callers, "NOMATCH")
        ELSE RMATCH(Callers, [fr EXCEPT !.eptr = e], fr.loc, e, fr.ecode,
                    fr.eptrb, {})

-----------------------------------------------------------------------------
(* match() as a whole: one instruction, or one return.                      *)
MatchStep ==
  \/ Enter \/ Verb \/ VerbFails \/ Fail
  \/ CaptureBracket \/ CaptureBracketFails \/ Bracket \/ BracketFails \/ PassOn
  \/ Condition \/ ConditionAssertion \/ ConditionDecided
  \/ Accept \/ SetOptions
  \/ Assertion \/ AssertionReturns \/ NegativeAssertionReturns \/ ReverseBack
  \/ Callout \/ Recurse \/ RecurseReturns
  \/ Atomic \/ AtomicReturns \/ AtomicRepeatFails \/ SkipAlternatives
  \/ OptionalGroup \/ OptionalGroupFails \/ SkipGroup
  \/ KetOfCall \/ KetOfSubroutine \/ Ket \/ KetFails
  \/ SimpleAssertion \/ SetStartOfMatch
  \/ Type \/ Char \/ NotChar
  \/ RepeatSingle \/ RepeatClass \/ Reference
  \/ LazyRepeatFails \/ GreedyRepeatFails

Match == phase = "match" /\ MatchStep /\ UNCHANGED searchVars

-----------------------------------------------------------------------------
(* pcre_exec.  The checks of the arguments, then the block for the matches.  *)
PublicExecOptions == {"ANCHORED", "NOTBOL", "NOTEOL", "NOTEMPTY",
                      "NO_UTF8_CHECK", "PARTIAL"}
NoOffsets == [i \in 0..(OCount - 1) |-> -1]

BadCall ==
  CASE ~(job.options \subseteq PublicExecOptions) -> "BADOPTION"
    [] job.offsetcount < 0 -> "BADCOUNT"
    [] job.newline = "bad" \/ job.bsr = "bad" -> "BADNEWLINE"
    [] Partial /\ "NOPARTIAL" \in re.flags -> "BADPARTIAL"
    [] /\ Utf8 /\ "NO_UTF8_CHECK" \notin job.options
       /\ ValidUtf8(Subject) >= 0 -> "BADUTF8"
    [] /\ Utf8 /\ "NO_UTF8_CHECK" \notin job.options
       /\ job.start_offset > 0 /\ job.start_offset < End
       /\ Trails(At(Subject, job.start_offset)) -> "BADUTF8_OFFSET"
    [] OTHER -> "none"

Idle == [eptr |-> 0, ecode |-> 1, mstart |-> 0, offset_top |-> 2, ims |-> {},
         original_ims |-> {}, eptrb |-> <<>>, flags |-> {}, loc |-> NoLocals]
NewMd == [offset_vector |-> <<>>, capture_last |-> -1, recursive |-> <<>>,
          end_match_ptr |-> 0, end_offset_top |-> 0, start_match_ptr |-> 0,
          match_call_count |-> 0, hitend |-> FALSE, offset_overflow |-> FALSE]
Unanswered == [rc |-> "none", count |-> 0, offsets |-> <<>>]

Answer(code) == /\ phase' = "ended"
                /\ result' = [rc |-> code, count |-> 0, offsets |-> <<>>]

Call ==
  /\ phase = "called"
  /\ IF BadCall # "none" THEN Answer(BadCall) /\ UNCHANGED md
     ELSE /\ phase' = "scan" /\ result' = result
          /\ md' = [md EXCEPT !.offset_vector = NoOffsets]
  /\ UNCHANGED <<job, start_match, req_byte_ptr, frame, frames, rrc>>

\* Where the subject can be searched for the start: PCRE_FIRSTLINE ends it at
\* the first newline.
Boundary(e) == ~(Utf8 /\ Trails(At(Subject, e)))       \* no character is split at e

SearchEnd ==
  IF "FIRSTLINE" \in re.options
  THEN Min({e \in start_match..End : e = End \/ (Boundary(e) /\ AtNl(e))})
  ELSE End

\* The first of the places from start_match on, or the end of the search.
FirstOf(places) ==
  IF start_match >= SearchEnd THEN start_match
  ELSE Min({SearchEnd} \cup {e \in places : start_match <= e /\ e <= SearchEnd})

\* A match must begin with a given byte, at a line start, or with a byte of
\* the study's map: the start moves on to the first such place.
FirstByteAt(e) == IF re.first_byte.caseless
                  THEN Lcc(At(Subject, e)) = Lcc(re.first_byte.c)
                  ELSE At(Subject, e) = re.first_byte.c

PastCrlf(line) ==       \* between the CR and the LF no line starts
  IF /\ At(Subject, line - 1) = CR /\ Nl.type # "FIXED"
     /\ line < SearchEnd /\ At(Subject, line) = LF
  THEN line + 1 ELSE line

StartCandidate ==
  CASE ~Anchored /\ "FIRSTSET" \in re.flags ->
         FirstOf({e \in 0..End : FirstByteAt(e)})
    [] (Anchored \/ "FIRSTSET" \notin re.flags) /\ "STARTLINE" \in re.flags ->
         IF start_match <= job.start_offset THEN start_match
         ELSE PastCrlf(FirstOf({e \in 0..End : Boundary(e) /\ WasNl(e)}))
    [] /\ ~Anchored /\ re.flags \cap {"FIRSTSET", "STARTLINE"} = {}
       /\ job.study /\ re.studied ->
         FirstOf({e \in 0..End : At(Subject, e) \in re.start_bits})
    [] OTHER -> start_match

\* The byte every match must contain, searched for again only past the place
\* where it was found before.  The result is that place, or Missing.
REQ_BYTE_MAX == 1000
Missing == -2

SearchFromNext(start) == start + 1                                     \* a mutant

SearchFrom(start) == start + (IF ~Anchored /\ "FIRSTSET" \in re.flags THEN 1 ELSE 0)

RequiredByte(start) ==
  LET p == SearchFrom(start)
      wanted == IF re.req_byte.caseless THEN {re.req_byte.c, Fcc(re.req_byte.c)}
                ELSE {re.req_byte.c}
      places == {e \in p..(End - 1) : At(Subject, e) \in wanted}
  IN IF "REQCHSET" \notin re.flags \/ End - start >= REQ_BYTE_MAX \/ Partial
        \/ p <= req_byte_ptr
     THEN req_byte_ptr
     ELSE IF places = {} THEN Missing ELSE Min(places)

NoMatchAnswer == IF Partial /\ md.hitend THEN "PARTIAL" ELSE "NOMATCH"

\* One turn of the loop, up to the call of match() at start.
NotThere(start) ==
  /\ Answer(NoMatchAnswer)
  /\ start_match' = start
  /\ UNCHANGED <<job, req_byte_ptr, md, frame, frames, rrc>>

BeginMatch(start, req) ==
  /\ phase' = "match"
  /\ start_match' = start
  /\ req_byte_ptr' = req
  /\ md' = [md EXCEPT !.start_match_ptr = start, !.match_call_count = 0,
                      !.offset_vector = [i \in DOMAIN @ |->
                                           IF i < ResetCount THEN -1 ELSE @[i]]]
  /\ frame' = [Idle EXCEPT !.eptr = start, !.mstart = start,
                 !.ims = re.options \cap {"CASELESS", "MULTILINE", "DOTALL"}]
  /\ frames' = <<>>
  /\ rrc' = "CALL"
  /\ UNCHANGED <<job, result>>

ScanFrom(start, req) ==
  IF req = Missing THEN NotThere(start) ELSE BeginMatch(start, req)

ScanAt(start) == ScanFrom(start, RequiredByte(start))

Scan == phase = "scan" /\ ScanAt(StartCandidate)

\* The next start when match() has failed: one character on, or where SKIP
\* says; between the CR and the LF of a newline there is no start.
SplitsNewline(e) ==
  /\ At(Subject, e - 1) = CR /\ e < End /\ At(Subject, e) = LF
  /\ "HASCRORLF" \notin re.flags
  /\ Nl.type # "FIXED" \/ Len(Nl.nl) = 2

Bumpalong == IF rrc = "SKIP" THEN md.start_match_ptr
             ELSE IF Utf8 THEN SkipTrails(M, start_match + 1) ELSE start_match + 1

NextStartBack == IF SplitsNewline(Bumpalong) THEN Bumpalong - 1 ELSE Bumpalong  \* a mutant

NextStart == IF SplitsNewline(Bumpalong) THEN Bumpalong + 1 ELSE Bumpalong

\* The loop ends without another start: the pattern is anchored, the first
\* line is over, or the subject is.
NoOtherStart ==
  \/ "FIRSTLINE" \in re.options /\ AtNl(start_match)
  \/ Anchored
  \/ rrc # "SKIP" /\ start_match >= End

\* The caller's vector: from the temporary one its captures are copied.
UserOffsets ==
  [i \in 0..(job.offsetcount - 1) |->
     CASE i = 0 -> md.start_match_ptr
       [] i = 1 -> md.end_match_ptr
       [] i > 1 /\ ~UsingTemporaryOffsets /\ i < OCount -> md.offset_vector[i]
       [] i > 1 /\ UsingTemporaryOffsets /\ job.offsetcount >= 4 -> md.offset_vector[i]
       [] OTHER -> -1]

Matched ==
  LET overflow == \/ md.offset_overflow
                  \/ UsingTemporaryOffsets /\ md.end_offset_top > job.offsetcount
  IN [rc |-> "MATCH",
      count |-> IF overflow \/ job.offsetcount < 2 THEN 0
                ELSE md.end_offset_top \div 2,
      offsets |-> IF job.offsetcount < 2 THEN <<>> ELSE UserOffsets]

\* The other end of the turn: what match() has answered.
MatchReturned ==
  /\ phase = "match" /\ rrc \in Returns /\ frames = <<>>
  /\ CASE rrc = "MATCH" -> /\ result' = Matched /\ phase' = "ended"
                           /\ UNCHANGED start_match
       [] rrc \in Errors -> Answer(rrc) /\ UNCHANGED start_match
       [] rrc = "COMMIT" -> Answer(NoMatchAnswer) /\ UNCHANGED start_match
       [] rrc \in {"NOMATCH", "PRUNE", "THEN", "SKIP"} ->
            IF NoOtherStart THEN Answer(NoMatchAnswer) /\ UNCHANGED start_match
            ELSE /\ phase' = "scan" /\ start_match' = NextStart
                 /\ UNCHANGED result
  /\ UNCHANGED <<job, req_byte_ptr, md, frame, frames, rrc>>

-----------------------------------------------------------------------------
NoJob == [subject |-> <<>>, start_offset |-> 0, options |-> {}, newline |-> "none",
          bsr |-> "none", offsetcount |-> 0, match_limit |-> 0,
          match_limit_recursion |-> 0, study |-> FALSE]

InitExec ==
  /\ job = NoJob /\ phase = "idle" /\ start_match = 0 /\ req_byte_ptr = 0
  /\ md = NewMd /\ frame = Idle /\ frames = <<>> /\ rrc = "RUN"
  /\ result = Unanswered

\* An application's call.
pcre_exec(j) ==
  /\ job' = j /\ phase' = "called"
  /\ start_match' = j.start_offset /\ req_byte_ptr' = j.start_offset - 1
  /\ md' = NewMd /\ frame' = Idle /\ frames' = <<>> /\ rrc' = "RUN"
  /\ result' = Unanswered

Exec == Call \/ Scan \/ Match \/ MatchReturned
=============================================================================
