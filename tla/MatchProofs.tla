---------------------------- MODULE MatchProofs -----------------------------
(***************************************************************************)
(* match() never leaves the code it executes.  The links it follows are those*)
(* of its own place, of the places its callers wait at, and of the calls of *)
(* groups that are under way; FramesInv and RecursionsInv say where all of  *)
(* these are.  That the code is well formed is a condition of the theorem.  *)
(***************************************************************************)
EXTENDS RegexProofs

-----------------------------------------------------------------------------
(* Where match() goes in the code.                                           *)
FrameFields == {"eptr", "ecode", "mstart", "offset_top", "ims", "original_ims",
                "eptrb", "flags", "loc"}

\* What holds of the code when it is executed.
WellFormed == /\ Code \in Seq(Range(Code)) \ {<<>>} /\ re.top_backref \in Nat
              /\ \A p \in DOMAIN Code : Linked(Code, p) /\ Numeric(Code, p)

\* The calls of groups that are under way go on in the code.
Recursions(s) == Stack(s) /\ \A i \in DOMAIN s : s[i].after_call \in DOMAIN Code

\* A caller has its place at the instruction it was called for, and goes on
\* from there.
HasLink(p) == IsGroup(Code, p) \/ IsAlt(Code, p)

GoesOn(p, loc) ==
  /\ "at" \in DOMAIN loc
  /\ loc.at \in {"RM1", "RM2", "RM4", "RM5", "RM7"} => HasLink(p)
  /\ loc.at = "RM2" => IsAlt(Code, NextAlt(Code, p))
  /\ loc.at = "RM3" => Code[p].op \in {"COND", "SCOND"} /\ Code[p + 1].op \notin ConditionOps
  /\ loc.at \in {"RM8", "RM9", "RM12", "RM13"} => IsKet(Code, p)
  /\ loc.at \in {"RM7", "RM8", "RM12"} => loc.prev \in DOMAIN Code
  /\ loc.at \in {"RM10", "RM11"} => Code[p].op \in {"BRAZERO", "BRAMINZERO"}
  /\ loc.at = "RM6" =>
       /\ {"callpat", "rec", "prevrec"} \subseteq DOMAIN loc /\ HasLink(loc.callpat)
       /\ loc.rec.after_call \in DOMAIN Code /\ Recursions(loc.prevrec)

Framed(fr) == FrameFields \subseteq DOMAIN fr /\ InCode(fr)
Calling(fr) == Framed(fr) /\ GoesOn(fr.ecode, fr.loc)
AllCalling(st) == Stack(st) /\ \A i \in DOMAIN st : Calling(st[i])

FramesInv == Framed(frame) /\ AllCalling(frames)

-----------------------------------------------------------------------------
LEMMA AfterInstruction ==
  ASSUME WellFormed, NEW p, p \in DOMAIN Code, Code[p].op # "END"
  PROVE  p \in Nat /\ p + 1 \in DOMAIN Code
<1>1. Len(Code) \in Nat /\ DOMAIN Code = 1..Len(Code)
  BY DEF WellFormed
<1>2. p # Len(Code)
  BY DEF WellFormed, Linked
<1>. QED BY <1>1, <1>2

\* Behind a KET, and behind a group, the code goes on.
LEMMA AfterGroupInCode ==
  ASSUME WellFormed, NEW p, HasLink(p)
  PROVE  /\ p \in DOMAIN Code /\ p + 1 \in DOMAIN Code
         /\ IsKet(Code, KetOf(Code, p)) /\ KetOf(Code, p) + 1 \in DOMAIN Code
         /\ IsKet(Code, NextAlt(Code, p)) \/ IsAlt(Code, NextAlt(Code, p))
         /\ NextAlt(Code, p) \in DOMAIN Code /\ NextAlt(Code, p) + 1 \in DOMAIN Code
         /\ Code[NextAlt(Code, p)].op = "ALT" => HasLink(NextAlt(Code, p))
<1>1. p \in DOMAIN Code /\ Code[p].op \in BracketOps \cup {"ALT"}
  BY DEF HasLink, IsGroup, IsAlt
<1>2. IsKet(Code, KetOf(Code, p)) /\ (IsKet(Code, NextAlt(Code, p)) \/ IsAlt(Code, NextAlt(Code, p)))
  BY <1>1 DEF WellFormed, Linked
<1>3. "END" \notin BracketOps \cup {"ALT"} /\ "END" \notin KetOps /\ "ALT" \notin KetOps
  BY DEF BracketOps, LookOps, SBraOps, KetOps
<1>4. Code[p].op # "END" /\ Code[KetOf(Code, p)].op # "END" /\ Code[NextAlt(Code, p)].op # "END"
  BY <1>1, <1>2, <1>3 DEF IsKet, IsAlt
<1>5. KetOf(Code, p) \in DOMAIN Code /\ NextAlt(Code, p) \in DOMAIN Code
  BY <1>2 DEF IsKet, IsAlt
<1>. QED BY <1>1, <1>2, <1>4, <1>5, AfterInstruction DEF HasLink, IsAlt

LEMMA AfterKet ==
  ASSUME WellFormed, NEW p, IsKet(Code, p)
  PROVE  p \in DOMAIN Code /\ p + 1 \in DOMAIN Code
<1>1. "END" \notin KetOps
  BY DEF KetOps
<1>. QED BY <1>1, AfterInstruction DEF IsKet

-----------------------------------------------------------------------------
\* The machine's moves, from callers and to places that are in the code.
LEMMA GoStays ==
  ASSUME NEW st, NEW fr, AllCalling(st), Framed(fr), Go(st, fr) \/ TAIL_RECURSE(st, fr), re' = re
  PROVE  FramesInv'
<1>1. Code' = Code
  BY DEF Code
<1>2. frame' = fr /\ frames' = st
  BY DEF Go, TAIL_RECURSE
<1>. QED
  BY <1>1, <1>2 DEF FramesInv, AllCalling, Calling, Framed, InCode, GoesOn, HasLink, IsGroup,
     IsAlt, IsKet, NextAlt, Recursions

LEMMA ReturnStays ==
  ASSUME NEW st, NEW answered, AllCalling(st), Framed(frame), RRETURN(st, answered), re' = re
  PROVE  FramesInv'
<1>1. Code' = Code
  BY DEF Code
<1>2. frame' = frame /\ frames' = st
  BY DEF RRETURN
<1>. QED
  BY <1>1, <1>2 DEF FramesInv, AllCalling, Calling, Framed, InCode, GoesOn, HasLink, IsGroup,
     IsAlt, IsKet, NextAlt, Recursions

LEMMA CallStays ==
  ASSUME NEW st, NEW fr, NEW loc, NEW eptr, NEW ecode, NEW eptrb, NEW flags, AllCalling(st),
         Framed(fr), GoesOn(fr.ecode, loc), ecode \in DOMAIN Code,
         RMATCH(st, fr, loc, eptr, ecode, eptrb, flags), re' = re
  PROVE  FramesInv'
<1>1. PICK c : c = [fr EXCEPT !.loc = loc]
  OBVIOUS
<1>2. PICK f : f = [fr EXCEPT !.eptr = eptr, !.ecode = ecode, !.eptrb = eptrb,
                              !.flags = flags, !.loc = NoLocals]
  OBVIOUS
<1>3. Calling(c)
  BY <1>1 DEF Calling, Framed, InCode, FrameFields
<1>4. Framed(f)
  BY <1>2 DEF Framed, InCode, FrameFields
<1>5. frames' = Append(st, c) /\ frame' = f
  BY <1>1, <1>2 DEF RMATCH
<1>6. AllCalling(Append(st, c))
  <2>1. Stack(Append(st, c)) /\ Len(st) \in Nat
    BY StackPush DEF AllCalling
  <2>2. ASSUME NEW i \in DOMAIN Append(st, c)
        PROVE  Append(st, c)[i] = c \/ (i \in DOMAIN st /\ Append(st, c)[i] = st[i])
    <3>1. PICK E : st \in Seq(E)
      BY DEF AllCalling, Stack
    <3>. QED BY <3>1, <2>2
  <2>. QED BY <2>1, <2>2, <1>3 DEF AllCalling
<1>7. Code' = Code
  BY DEF Code
<1>. QED
  BY <1>4, <1>5, <1>6, <1>7 DEF FramesInv, AllCalling, Calling, Framed, InCode, GoesOn, HasLink,
     IsGroup, IsAlt, IsKet, NextAlt, Recursions

\* The last caller, and those below it.
LEMMA LastCalls ==
  ASSUME FramesInv, frames # <<>>
  PROVE  Calling(Last(frames)) /\ AllCalling(Callers)
<1>1. PICK E : frames \in Seq(E)
  BY DEF FramesInv, AllCalling, Stack
<1>2. Len(frames) \in Nat \ {0} /\ DOMAIN frames = 1..Len(frames)
  BY <1>1, EmptySeq
<1>3. Stack(Callers) /\ Len(Callers) = Len(frames) - 1
  BY StackPop DEF FramesInv, AllCalling, Callers
<1>4. ASSUME NEW i \in DOMAIN Callers
      PROVE  i \in DOMAIN frames /\ Callers[i] = frames[i]
  <2>1. PICK n : n = Len(frames) - 1
    OBVIOUS
  <2>2. Callers = SubSeq(frames, 1, n) /\ n \in Nat /\ n < Len(frames)
    BY <2>1, <1>2 DEF Callers
  <2>. QED BY <1>1, <1>2, <1>4, <2>1, <2>2
<1>5. Last(frames) = frames[Len(frames)]
  BY DEF Last
<1>6. Len(frames) \in DOMAIN frames
  BY <1>2
<1>. QED BY <1>3, <1>4, <1>5, <1>6 DEF FramesInv, AllCalling

-----------------------------------------------------------------------------
\* The steps of match() that stay in the code by themselves, each from its
\* instruction or its caller's.
InMatch == WellFormed /\ FramesInv /\ re' = re

LEMMA NextIsInCode ==
  ASSUME InMatch, NEW ops, Running(ops), "END" \notin ops
  PROVE  /\ Framed(frame) /\ AllCalling(frames) /\ Op.op \in ops /\ Op = Code[frame.ecode]
         /\ frame.ecode \in DOMAIN Code /\ frame.ecode + 1 \in DOMAIN Code
<1>1. frame.ecode \in DOMAIN Code /\ Op = Code[frame.ecode] /\ Op.op \in ops
  BY DEF InMatch, FramesInv, Framed, InCode, Op, Running
<1>. QED BY <1>1, AfterInstruction DEF InMatch, FramesInv

\* The next instruction, with the other locals as they come.
LEMMA NextStays ==
  ASSUME InMatch, NEW ops, Running(ops), "END" \notin ops, NEW e,
         \/ Go(frames, At1(e)) \/ \E answered : RRETURN(frames, answered)
  PROVE  FramesInv'
<1>1. /\ Framed(frame) /\ AllCalling(frames) /\ frame.ecode + 1 \in DOMAIN Code
  BY NextIsInCode
<1>2. PICK f : f = [frame EXCEPT !.eptr = e, !.ecode = @ + 1]
  OBVIOUS
<1>3. Framed(f)
  BY <1>1, <1>2 DEF Framed, InCode, FrameFields
<1>4. CASE Go(frames, At1(e))
  BY <1>1, <1>2, <1>3, <1>4, GoStays DEF At1, InMatch
<1>5. CASE \E answered : RRETURN(frames, answered)
  BY <1>1, <1>5, ReturnStays DEF InMatch
<1>. QED BY <1>4, <1>5

LEMMA PlainStepsStay ==
  ASSUME InMatch, SimpleAssertion \/ Type \/ Char \/ NotChar \/ ReverseBack \/ Callout \/ Fail
  PROVE  FramesInv'
<1>1. CASE SimpleAssertion
  <2>1. "END" \notin SimpleAssertions
    BY DEF SimpleAssertions
  <2>. QED BY <1>1, <2>1, NextStays DEF SimpleAssertion
<1>2. CASE Type
  <2>1. "END" \notin CharTypes
    BY DEF CharTypes
  <2>. QED BY <1>2, <2>1, NextStays DEF Type
<1>3. CASE Char
  BY <1>3, NextStays DEF Char
<1>4. CASE NotChar
  BY <1>4, NextStays DEF NotChar
<1>5. CASE ReverseBack
  <2>1. \E e : RRETURN(frames, "NOMATCH") \/ Go(frames, At1(e))
    BY <1>5 DEF ReverseBack
  <2>. QED BY <1>5, <2>1, NextStays DEF ReverseBack
<1>6. CASE Callout
  <2>1. \/ RRETURN(frames, "NOMATCH") \/ RRETURN(frames, "CALLOUT") \/ Go(frames, At1(frame.eptr))
    BY <1>6 DEF Callout
  <2>. QED BY <1>6, <2>1, NextStays DEF Callout
<1>7. CASE Fail
  BY <1>7, NextStays DEF Fail
<1>. QED BY <1>1, <1>2, <1>3, <1>4, <1>5, <1>6, <1>7

\* The entry, and the verbs and options that only go on.
LEMMA FirstStepsStay ==
  ASSUME InMatch, Enter \/ Verb \/ SetOptions \/ SetStartOfMatch \/ SkipAlternatives \/ SkipGroup
  PROVE  FramesInv'
<1> USE DEF FrameFields
<1>a. re' = re /\ Framed(frame) /\ AllCalling(frames)
  BY DEF InMatch, FramesInv
<1>1. CASE Enter
  <2>1. PICK f : f = [frame EXCEPT
                !.original_ims = frame.ims,
                !.eptrb = IF "cbegroup" \in frame.flags
                          THEN <<frame.eptr>> \o @ ELSE @]
    OBVIOUS
  <2>2. Framed(f)
    BY <1>a, <2>1 DEF Framed, InCode
  <2>3. Go(frames, f) \/ \E answered : RRETURN(frames, answered)
    BY <1>1, <2>1 DEF Enter
  <2>. QED BY <1>a, <2>2, <2>3, GoStays, ReturnStays
<1>2. CASE Verb
  <2>1. frame.ecode + 1 \in DOMAIN Code
    BY <1>2, NextIsInCode DEF Verb
  <2>2. PICK loc : loc = [at |-> "RM51", op |-> Op.op]
    OBVIOUS
  <2>3. GoesOn(frame.ecode, loc)
    BY <2>2 DEF GoesOn
  <2>4. RMATCH(frames, frame, loc, frame.eptr, frame.ecode + 1, frame.eptrb, frame.flags)
    BY <1>2, <2>2 DEF Verb
  <2>. QED BY <1>a, <2>1, <2>3, <2>4, CallStays
<1>3. CASE SetOptions
  <2>1. frame.ecode + 1 \in DOMAIN Code
    BY <1>3, NextIsInCode DEF SetOptions
  <2>2. PICK f : f = [frame EXCEPT !.ims = Op.ims, !.ecode = @ + 1]
    OBVIOUS
  <2>3. Framed(f) /\ Go(frames, f)
    BY <1>3, <1>a, <2>1, <2>2 DEF SetOptions, Framed, InCode
  <2>. QED BY <1>a, <2>3, GoStays
<1>4. CASE SetStartOfMatch
  <2>1. frame.ecode + 1 \in DOMAIN Code
    BY <1>4, NextIsInCode DEF SetStartOfMatch
  <2>2. PICK f : f = [frame EXCEPT !.mstart = frame.eptr, !.ecode = @ + 1]
    OBVIOUS
  <2>3. Framed(f) /\ Go(frames, f)
    BY <1>4, <1>a, <2>1, <2>2 DEF SetStartOfMatch, Framed, InCode
  <2>. QED BY <1>a, <2>3, GoStays
<1>5. CASE SkipAlternatives
  <2>1. IsAlt(Code, frame.ecode)
    BY <1>5, NextIsInCode DEF SkipAlternatives, IsAlt
  <2>2. KetOf(Code, frame.ecode) \in DOMAIN Code
    BY <2>1, AfterGroupInCode DEF InMatch, IsKet, HasLink
  <2>3. PICK f : f = [frame EXCEPT !.ecode = KetOf(Code, @)]
    OBVIOUS
  <2>4. Framed(f) /\ Go(frames, f)
    BY <1>5, <1>a, <2>2, <2>3 DEF SkipAlternatives, Framed, InCode
  <2>. QED BY <1>a, <2>4, GoStays
<1>6. CASE SkipGroup
  <2>1. Op.op = "SKIPZERO" /\ Op = Code[frame.ecode] /\ frame.ecode \in DOMAIN Code
    BY <1>6, NextIsInCode DEF SkipGroup
  <2>2. IsGroup(Code, frame.ecode + 1)
    BY <2>1 DEF InMatch, WellFormed, Linked
  <2>3. AfterGroup \in DOMAIN Code
    BY <2>2, AfterGroupInCode DEF InMatch, HasLink, AfterGroup
  <2>4. PICK f : f = [frame EXCEPT !.ecode = AfterGroup]
    OBVIOUS
  <2>5. Framed(f) /\ Go(frames, f)
    BY <1>6, <1>a, <2>3, <2>4 DEF SkipGroup, Framed, InCode
  <2>. QED BY <1>a, <2>5, GoStays
<1>. QED BY <1>1, <1>2, <1>3, <1>4, <1>5, <1>6

-----------------------------------------------------------------------------
\* Brackets: from one alternative to the next.
LEMMA AlternativeStays ==
  ASSUME InMatch, NEW st, NEW fr, AllCalling(st), Framed(fr), HasLink(fr.ecode),
         TryAlternative(st, fr)
  PROVE  FramesInv'
<1>1. /\ fr.ecode + 1 \in DOMAIN Code
      /\ IsKet(Code, NextAlt(Code, fr.ecode)) \/ IsAlt(Code, NextAlt(Code, fr.ecode))
  BY AfterGroupInCode DEF InMatch
<1>2. CASE ~IsLastAlt(Code, fr.ecode)
  <2>1. PICK loc : loc = [at |-> "RM2"]
    OBVIOUS
  <2>2. IsAlt(Code, NextAlt(Code, fr.ecode))
    BY <1>1, <1>2 DEF IsLastAlt, IsAlt, IsKet, KetOps
  <2>3. GoesOn(fr.ecode, loc)
    BY <2>1, <2>2 DEF GoesOn
  <2>4. RMATCH(st, fr, loc, fr.eptr, fr.ecode + 1, fr.eptrb, fr.flags)
    BY <1>2, <2>1 DEF TryAlternative
  <2>. QED BY <1>1, <2>3, <2>4, CallStays DEF InMatch
<1>3. CASE IsLastAlt(Code, fr.ecode) /\ fr.flags = {}
  <2>1. PICK f : f = [fr EXCEPT !.ecode = @ + 1]
    OBVIOUS
  <2>2. Framed(f) /\ TAIL_RECURSE(st, f)
    BY <1>1, <1>3, <2>1 DEF TryAlternative, Framed, InCode, FrameFields
  <2>. QED BY <2>2, GoStays DEF InMatch
<1>4. CASE IsLastAlt(Code, fr.ecode) /\ fr.flags # {}
  <2>1. PICK loc : loc = [at |-> "RM48"]
    OBVIOUS
  <2>2. GoesOn(fr.ecode, loc)
    BY <2>1 DEF GoesOn
  <2>3. RMATCH(st, fr, loc, fr.eptr, fr.ecode + 1, fr.eptrb, fr.flags)
    BY <1>4, <2>1 DEF TryAlternative
  <2>. QED BY <1>1, <2>2, <2>3, CallStays DEF InMatch
<1>. QED BY <1>2, <1>3, <1>4

\* A group is one by its opcode.
LEMMA RunsGroup ==
  ASSUME InMatch, NEW ops, ops \subseteq BracketOps, Running(ops)
  PROVE  /\ IsGroup(Code, frame.ecode) /\ HasLink(frame.ecode) /\ Op = Code[frame.ecode]
         /\ Op.op \in ops /\ frame.ecode + 1 \in DOMAIN Code
<1>1. "END" \notin BracketOps
  BY DEF BracketOps, LookOps, SBraOps
<1>2. "END" \notin ops
  BY <1>1
<1>. QED BY <1>2, NextIsInCode DEF IsGroup, HasLink

LEMMA BracketStays ==
  ASSUME InMatch, Bracket
  PROVE  FramesInv'
<1>1. {"BRA", "SBRA"} \subseteq BracketOps /\ CaptureOps \subseteq BracketOps
  BY DEF BracketOps, SBraOps, CaptureOps
<1>2. HasLink(frame.ecode)
  BY <1>1, RunsGroup DEF Bracket
<1>3. PICK f : f = [frame EXCEPT !.flags = BraFlags(Op.op)]
  OBVIOUS
<1>4. Framed(f) /\ f.ecode = frame.ecode /\ TryAlternative(frames, f)
  BY <1>3 DEF Bracket, InMatch, FramesInv, Framed, InCode, FrameFields
<1>. QED BY <1>2, <1>4, AlternativeStays DEF InMatch, FramesInv

LEMMA CaptureBracketStays ==
  ASSUME InMatch, CaptureBracket
  PROVE  FramesInv'
<1>1. CaptureOps \subseteq BracketOps
  BY DEF BracketOps, SBraOps, CaptureOps
<1>2. HasLink(frame.ecode) /\ frame.ecode + 1 \in DOMAIN Code
  BY <1>1, RunsGroup DEF CaptureBracket
<1>3. PICK f : f = [frame EXCEPT !.flags = BraFlags(Op.op)]
  OBVIOUS
<1>4. Framed(f) /\ f.ecode = frame.ecode
  BY <1>3 DEF InMatch, FramesInv, Framed, InCode, FrameFields
<1>5. PICK loc : loc = [at |-> "RM1", n |-> Op.n, save_capture_last |-> md.capture_last,
              save |-> <<md.offset_vector[2 * Op.n], md.offset_vector[2 * Op.n + 1],
                         md.offset_vector[OCount - Op.n]>>]
  OBVIOUS
<1>6. RMATCH(frames, f, loc, frame.eptr, frame.ecode + 1, frame.eptrb, f.flags)
  BY <1>3, <1>5 DEF CaptureBracket
<1>7. GoesOn(f.ecode, loc)
  BY <1>2, <1>4, <1>5 DEF GoesOn
<1>. QED BY <1>2, <1>4, <1>6, <1>7, CallStays DEF InMatch, FramesInv

\* The return to a caller: it is in the code, and where its call says.
LEMMA ReturnsInCode ==
  ASSUME InMatch, NEW a, Returning(a)
  PROVE  /\ Framed(Last(frames)) /\ AllCalling(Callers) /\ re' = re /\ Framed(frame)
         /\ GoesOn(Last(frames).ecode, Last(frames).loc) /\ Last(frames).loc.at = a
BY LastCalls DEF Returning, InMatch, FramesInv, Calling

LEMMA CaptureBracketFailsStays ==
  ASSUME InMatch, CaptureBracketFails
  PROVE  FramesInv'
<1>1. PICK fr : fr = Last(frames)
  OBVIOUS
<1>2. /\ Framed(fr) /\ AllCalling(Callers) /\ GoesOn(fr.ecode, fr.loc) /\ fr.loc.at = "RM1"
      /\ re' = re /\ Framed(frame)
  BY <1>1, ReturnsInCode DEF CaptureBracketFails
<1>3. PICK next : next = NextAlt(Code, fr.ecode)
  OBVIOUS
<1>4. next \in DOMAIN Code /\ next + 1 \in DOMAIN Code /\ (Code[next].op = "ALT" => HasLink(next))
  BY <1>2, <1>3, AfterGroupInCode DEF GoesOn, InMatch
<1>5. PICK f : f = [fr EXCEPT !.ecode = next]
  OBVIOUS
<1>6. \/ \E answered : RRETURN(Callers, answered)
      \/ Code[next].op = "ALT" /\ RMATCH(Callers, f, fr.loc, fr.eptr, next + 1, fr.eptrb, fr.flags)
  BY <1>1, <1>3, <1>5 DEF CaptureBracketFails
<1>7. Framed(f) /\ f.ecode = next
  BY <1>2, <1>4, <1>5 DEF Framed, InCode, FrameFields
<1>8. Code[next].op = "ALT" => GoesOn(f.ecode, fr.loc)
  BY <1>2, <1>4, <1>7 DEF GoesOn
<1>. QED BY <1>2, <1>4, <1>6, <1>7, <1>8, CallStays, ReturnStays

LEMMA BracketFailsStays ==
  ASSUME InMatch, BracketFails
  PROVE  FramesInv'
<1>1. PICK fr : fr = Last(frames)
  OBVIOUS
<1>2. /\ Framed(fr) /\ AllCalling(Callers) /\ GoesOn(fr.ecode, fr.loc) /\ fr.loc.at = "RM2"
      /\ re' = re /\ Framed(frame)
  BY <1>1, ReturnsInCode DEF BracketFails
<1>3. IsAlt(Code, NextAlt(Code, fr.ecode))
  BY <1>2 DEF GoesOn
<1>4. PICK f : f = [fr EXCEPT !.ecode = NextAlt(Code, @)]
  OBVIOUS
<1>5. Framed(f) /\ HasLink(f.ecode)
  BY <1>2, <1>3, <1>4 DEF Framed, InCode, FrameFields, HasLink, IsAlt
<1>6. TryAlternative(Callers, f) \/ \E answered : RRETURN(Callers, answered)
  BY <1>1, <1>4 DEF BracketFails
<1>. QED BY <1>2, <1>5, <1>6, AlternativeStays, ReturnStays

LEMMA PassOnStays ==
  ASSUME InMatch, PassOn
  PROVE  FramesInv'
<1>1. AllCalling(Callers) /\ re' = re /\ Framed(frame)
  BY ReturnsInCode DEF PassOn
<1>. QED BY <1>1, ReturnStays DEF PassOn

-----------------------------------------------------------------------------
\* Conditional groups.
LEMMA BranchStays ==
  ASSUME InMatch, NEW st, NEW fr, NEW op, NEW condition, AllCalling(st), Framed(fr),
         fr.ecode + 1 \in DOMAIN Code, TakeBranch(st, fr, op, condition)
  PROVE  FramesInv'
<1>1. PICK f : f = [fr EXCEPT !.ecode = @ + 1]
  OBVIOUS
<1>2. PICK g : g = [fr EXCEPT !.ecode = @ + 1, !.flags = {}]
  OBVIOUS
<1>3. Framed(f) /\ Framed(g)
  BY <1>1, <1>2 DEF Framed, InCode, FrameFields
<1>4. PICK loc : loc = [at |-> "RM49"]
  OBVIOUS
<1>5. GoesOn(f.ecode, loc)
  BY <1>4 DEF GoesOn
<1>6. \/ RMATCH(st, f, loc, fr.eptr, fr.ecode + 1, fr.eptrb, {"cbegroup"})
      \/ TAIL_RECURSE(st, g) \/ Go(st, f)
  BY <1>1, <1>2, <1>4 DEF TakeBranch
<1>. QED BY <1>3, <1>5, <1>6, GoStays, CallStays DEF InMatch

LEMMA ConditionStays ==
  ASSUME InMatch, Condition
  PROVE  FramesInv'
<1>1. {"COND", "SCOND"} \subseteq BracketOps /\ "END" \notin ConditionOps
  BY DEF BracketOps, SBraOps, ConditionOps
<1>2. HasLink(frame.ecode) /\ frame.ecode + 1 \in DOMAIN Code
  BY <1>1, RunsGroup DEF Condition
<1>3. Code[frame.ecode + 1].op # "END"
  BY <1>1 DEF Condition
<1>4. /\ frame.ecode + 1 + 1 \in DOMAIN Code
      /\ NextAlt(Code, frame.ecode) \in DOMAIN Code /\ NextAlt(Code, frame.ecode) + 1 \in DOMAIN Code
  BY <1>2, <1>3, AfterInstruction, AfterGroupInCode DEF InMatch
<1>5. PICK condition, f : /\ f = [frame EXCEPT !.ecode = IF condition THEN @ + 1 ELSE NextAlt(Code, @)]
                          /\ TakeBranch(frames, f, Op.op, condition)
  BY DEF Condition
<1>6. Framed(f) /\ f.ecode + 1 \in DOMAIN Code
  BY <1>2, <1>4, <1>5 DEF InMatch, FramesInv, Framed, InCode, FrameFields
<1>. QED BY <1>5, <1>6, BranchStays DEF InMatch, FramesInv

LEMMA ConditionAssertionStays ==
  ASSUME InMatch, ConditionAssertion
  PROVE  FramesInv'
<1>1. {"COND", "SCOND"} \subseteq BracketOps
  BY DEF BracketOps, SBraOps
<1>2. frame.ecode + 1 \in DOMAIN Code /\ Op = Code[frame.ecode] /\ Op.op \in {"COND", "SCOND"}
  BY <1>1, RunsGroup DEF ConditionAssertion
<1>3. PICK loc : loc = [at |-> "RM3", op |-> Op.op]
  OBVIOUS
<1>4. GoesOn(frame.ecode, loc)
  BY <1>2, <1>3 DEF GoesOn, ConditionAssertion
<1>5. RMATCH(frames, frame, loc, frame.eptr, frame.ecode + 1, <<>>, {"condassert"})
  BY <1>3 DEF ConditionAssertion
<1>. QED BY <1>2, <1>4, <1>5, CallStays DEF InMatch, FramesInv

LEMMA ConditionDecidedStays ==
  ASSUME InMatch, ConditionDecided
  PROVE  FramesInv'
<1>1. PICK fr : fr = Last(frames)
  OBVIOUS
<1>2. /\ Framed(fr) /\ AllCalling(Callers) /\ GoesOn(fr.ecode, fr.loc) /\ fr.loc.at = "RM3"
      /\ re' = re /\ Framed(frame)
  BY <1>1, ReturnsInCode DEF ConditionDecided
<1>3. /\ Code[fr.ecode].op \in {"COND", "SCOND"} /\ Code[fr.ecode + 1].op \notin ConditionOps
      /\ fr.ecode \in DOMAIN Code
  BY <1>2 DEF GoesOn, Framed, InCode
<1>4. HasLink(fr.ecode)
  BY <1>3 DEF HasLink, IsGroup, BracketOps, SBraOps
<1>5. fr.ecode + 1 \in DOMAIN Code
  BY <1>4, AfterGroupInCode DEF InMatch
<1>6. Code[fr.ecode + 1].op \in LookOps
  BY <1>3 DEF InMatch, WellFormed, Linked
<1>7. HasLink(fr.ecode + 1)
  BY <1>5, <1>6 DEF HasLink, IsGroup, BracketOps
<1>8. /\ KetOf(Code, fr.ecode + 1) \in DOMAIN Code /\ KetOf(Code, fr.ecode + 1) + 1 \in DOMAIN Code
      /\ NextAlt(Code, fr.ecode) \in DOMAIN Code /\ NextAlt(Code, fr.ecode) + 1 \in DOMAIN Code
  BY <1>4, <1>7, AfterGroupInCode DEF InMatch, IsKet
<1>9. PICK f : f = [fr EXCEPT !.ecode = KetOf(Code, @ + 1)]
  OBVIOUS
<1>10. PICK g : g = [fr EXCEPT !.ecode = NextAlt(Code, @)]
  OBVIOUS
<1>11. Framed(f) /\ f.ecode + 1 \in DOMAIN Code /\ Framed(g) /\ g.ecode + 1 \in DOMAIN Code
  BY <1>2, <1>8, <1>9, <1>10 DEF Framed, InCode, FrameFields
<1>12. \/ TakeBranch(Callers, f, fr.loc.op, TRUE) \/ TakeBranch(Callers, g, fr.loc.op, FALSE)
       \/ RRETURN(Callers, rrc)
  BY <1>1, <1>9, <1>10 DEF ConditionDecided
<1>. QED BY <1>2, <1>11, <1>12, BranchStays, ReturnStays

-----------------------------------------------------------------------------
\* Assertions.
LEMMA AssertionStays ==
  ASSUME InMatch, Assertion
  PROVE  FramesInv'
<1>1. LookOps \subseteq BracketOps
  BY DEF BracketOps
<1>2. HasLink(frame.ecode) /\ frame.ecode + 1 \in DOMAIN Code
  BY <1>1, RunsGroup DEF Assertion
<1>3. PICK loc : loc = [at |-> IF Op.op \in {"ASSERT", "ASSERTBACK"} THEN "RM4" ELSE "RM5"]
  OBVIOUS
<1>4. GoesOn(frame.ecode, loc)
  BY <1>2, <1>3 DEF GoesOn
<1>5. RMATCH(frames, frame, loc, frame.eptr, frame.ecode + 1, <<>>, {})
  BY <1>3 DEF Assertion
<1>. QED BY <1>2, <1>4, <1>5, CallStays DEF InMatch, FramesInv

\* The next alternative, of an assertion or an atomic group.
LEMMA NextAlternativeStays ==
  ASSUME InMatch, NEW fr, NEW f, NEW next, Framed(fr), AllCalling(Callers),
         GoesOn(fr.ecode, fr.loc), fr.loc.at \in {"RM4", "RM5", "RM7"},
         next = NextAlt(Code, fr.ecode), f = [fr EXCEPT !.ecode = next],
         Code[next].op = "ALT", RMATCH(Callers, f, fr.loc, fr.eptr, next + 1, fr.eptrb, {})
           \/ RMATCH(Callers, f, fr.loc, fr.eptr, next + 1, <<>>, {})
  PROVE  FramesInv'
<1>1. HasLink(next) /\ next \in DOMAIN Code /\ next + 1 \in DOMAIN Code
  BY AfterGroupInCode DEF GoesOn, InMatch
<1>2. Framed(f) /\ f.ecode = next
  BY <1>1 DEF Framed, InCode, FrameFields
<1>3. GoesOn(f.ecode, fr.loc)
  BY <1>1, <1>2 DEF GoesOn
<1>. QED BY <1>1, <1>2, <1>3, CallStays DEF InMatch

LEMMA AssertionReturnsStays ==
  ASSUME InMatch, AssertionReturns
  PROVE  FramesInv'
<1>1. PICK fr : fr = Last(frames)
  OBVIOUS
<1>2. /\ Framed(fr) /\ AllCalling(Callers) /\ GoesOn(fr.ecode, fr.loc) /\ fr.loc.at = "RM4"
      /\ re' = re /\ Framed(frame)
  BY <1>1, ReturnsInCode DEF AssertionReturns
<1>3. KetOf(Code, fr.ecode) + 1 \in DOMAIN Code
  BY <1>2, AfterGroupInCode DEF GoesOn, InMatch
<1>4. PICK next, f : next = NextAlt(Code, fr.ecode) /\ f = [fr EXCEPT !.ecode = next]
  OBVIOUS
<1>5. PICK g : g = [fr EXCEPT !.ecode = KetOf(Code, @) + 1, !.offset_top = md.end_offset_top]
  OBVIOUS
<1>6. Framed(g)
  BY <1>2, <1>3, <1>5 DEF Framed, InCode, FrameFields
<1>7. rrc = "MATCH" \/ Failed \/ (rrc # "MATCH" /\ ~Failed)
  OBVIOUS
<1>8. \/ \E answered : RRETURN(Callers, answered)
      \/ Go(Callers, g)
      \/ Code[next].op = "ALT" /\ RMATCH(Callers, f, fr.loc, fr.eptr, next + 1, <<>>, {})
  BY <1>1, <1>4, <1>5, <1>7 DEF AssertionReturns, NextAssertion, Failed
<1>. QED BY <1>2, <1>4, <1>6, <1>8, GoStays, ReturnStays, NextAlternativeStays

LEMMA NegativeAssertionReturnsStays ==
  ASSUME InMatch, NegativeAssertionReturns
  PROVE  FramesInv'
<1>1. PICK fr : fr = Last(frames)
  OBVIOUS
<1>2. /\ Framed(fr) /\ AllCalling(Callers) /\ GoesOn(fr.ecode, fr.loc) /\ fr.loc.at = "RM5"
      /\ re' = re /\ Framed(frame)
  BY <1>1, ReturnsInCode DEF NegativeAssertionReturns
<1>3. KetOf(Code, fr.ecode) + 1 \in DOMAIN Code
  BY <1>2, AfterGroupInCode DEF GoesOn, InMatch
<1>4. PICK next, f : next = NextAlt(Code, fr.ecode) /\ f = [fr EXCEPT !.ecode = next]
  OBVIOUS
<1>5. PICK g : g = [fr EXCEPT !.ecode = KetOf(Code, @) + 1]
  OBVIOUS
<1>6. Framed(g)
  BY <1>2, <1>3, <1>5 DEF Framed, InCode, FrameFields
<1>8. \/ \E answered : RRETURN(Callers, answered)
      \/ Go(Callers, g)
      \/ Code[next].op = "ALT" /\ RMATCH(Callers, f, fr.loc, fr.eptr, next + 1, <<>>, {})
  BY <1>1, <1>4, <1>5 DEF NegativeAssertionReturns, NextAssertion, Failed
<1>. QED BY <1>2, <1>4, <1>6, <1>8, GoStays, ReturnStays, NextAlternativeStays

-----------------------------------------------------------------------------
\* Atomic groups, and groups that may be passed over.
LEMMA AtomicStays ==
  ASSUME InMatch, Atomic
  PROVE  FramesInv'
<1>1. {"ONCE"} \subseteq BracketOps
  BY DEF BracketOps
<1>2. HasLink(frame.ecode) /\ frame.ecode + 1 \in DOMAIN Code /\ frame.ecode \in DOMAIN Code
  BY <1>1, RunsGroup DEF Atomic, IsGroup
<1>3. PICK loc : loc = [at |-> "RM7", prev |-> frame.ecode]
  OBVIOUS
<1>4. GoesOn(frame.ecode, loc)
  BY <1>2, <1>3 DEF GoesOn
<1>5. RMATCH(frames, frame, loc, frame.eptr, frame.ecode + 1, frame.eptrb, {})
  BY <1>3 DEF Atomic
<1>. QED BY <1>2, <1>4, <1>5, CallStays DEF InMatch, FramesInv

LEMMA AtomicMatchedStays ==
  ASSUME InMatch, NEW fr, Framed(fr), AllCalling(Callers), GoesOn(fr.ecode, fr.loc),
         fr.loc.at = "RM7", AtomicMatched(fr)
  PROVE  FramesInv'
<1>1. PICK ket : ket = KetOf(Code, fr.ecode)
  OBVIOUS
<1>2. IsKet(Code, ket) /\ ket \in DOMAIN Code /\ ket + 1 \in DOMAIN Code /\ fr.loc.prev \in DOMAIN Code
  BY <1>1, AfterGroupInCode, AfterKet DEF GoesOn, InMatch
<1>3. PICK on : on = [fr EXCEPT !.eptr = md.end_match_ptr,
                         !.offset_top = md.end_offset_top, !.ecode = ket]
  OBVIOUS
<1>4. PICK opt : opt = IF Code[ket + 1].op = "OPT" THEN [on EXCEPT !.ims = Code[ket + 1].ims] ELSE on
  OBVIOUS
<1>5. PICK past : past = [on EXCEPT !.ecode = ket + 1]
  OBVIOUS
<1>6. Framed(on) /\ on.ecode = ket
  BY <1>2, <1>3 DEF Framed, InCode, FrameFields
<1>7. Framed(opt) /\ opt.ecode = ket /\ Framed(past)
  BY <1>2, <1>4, <1>5, <1>6 DEF Framed, InCode, FrameFields
<1>8. PICK lazy, greedy : lazy = [at |-> "RM8", prev |-> fr.loc.prev] /\ greedy = [at |-> "RM9"]
  OBVIOUS
<1>9. GoesOn(opt.ecode, lazy) /\ GoesOn(opt.ecode, greedy)
  BY <1>2, <1>7, <1>8 DEF GoesOn
<1>10. \/ Go(Callers, past)
       \/ RMATCH(Callers, opt, lazy, opt.eptr, ket + 1, fr.eptrb, {})
       \/ RMATCH(Callers, opt, greedy, opt.eptr, fr.loc.prev, fr.eptrb, {"cbegroup"})
  BY <1>1, <1>3, <1>4, <1>5, <1>8 DEF AtomicMatched
<1>. QED BY <1>2, <1>7, <1>9, <1>10, GoStays, CallStays DEF InMatch

LEMMA AtomicReturnsStays ==
  ASSUME InMatch, AtomicReturns
  PROVE  FramesInv'
<1>1. PICK fr : fr = Last(frames)
  OBVIOUS
<1>2. /\ Framed(fr) /\ AllCalling(Callers) /\ GoesOn(fr.ecode, fr.loc) /\ fr.loc.at = "RM7"
      /\ re' = re /\ Framed(frame)
  BY <1>1, ReturnsInCode DEF AtomicReturns
<1>4. PICK next, f : next = NextAlt(Code, fr.ecode) /\ f = [fr EXCEPT !.ecode = next]
  OBVIOUS
<1>8. \/ \E answered : RRETURN(Callers, answered)
      \/ AtomicMatched(fr)
      \/ Code[next].op = "ALT" /\ RMATCH(Callers, f, fr.loc, fr.eptr, next + 1, fr.eptrb, {})
  BY <1>1, <1>4 DEF AtomicReturns, Failed
<1>. QED BY <1>2, <1>4, <1>8, ReturnStays, AtomicMatchedStays, NextAlternativeStays

LEMMA AtomicRepeatFailsStays ==
  ASSUME InMatch, AtomicRepeatFails
  PROVE  FramesInv'
<1>1. PICK fr : fr = Last(frames)
  OBVIOUS
<1>2. /\ Framed(fr) /\ AllCalling(Callers) /\ GoesOn(fr.ecode, fr.loc)
      /\ fr.loc.at = "RM8" \/ fr.loc.at = "RM9"
  BY <1>1, ReturnsInCode DEF AtomicRepeatFails
<1>3. fr.ecode + 1 \in DOMAIN Code /\ (fr.loc.at = "RM8" => fr.loc.prev \in DOMAIN Code)
  BY <1>2, AfterKet DEF GoesOn, InMatch
<1>4. PICK f : f = [fr EXCEPT !.flags = {}, !.ecode = IF fr.loc.at = "RM8" THEN fr.loc.prev ELSE @ + 1]
  OBVIOUS
<1>5. Framed(f)
  BY <1>2, <1>3, <1>4 DEF Framed, InCode, FrameFields
<1>6. TAIL_RECURSE(Callers, f) \/ \E answered : RRETURN(Callers, answered)
  BY <1>1, <1>4 DEF AtomicRepeatFails
<1>. QED BY <1>2, <1>5, <1>6, GoStays, ReturnStays DEF InMatch, FramesInv

LEMMA OptionalGroupStays ==
  ASSUME InMatch, OptionalGroup
  PROVE  FramesInv'
<1>1. /\ frame.ecode + 1 \in DOMAIN Code /\ Op = Code[frame.ecode] /\ frame.ecode \in DOMAIN Code
      /\ Op.op \in {"BRAZERO", "BRAMINZERO"}
  BY NextIsInCode DEF OptionalGroup
<1>2. HasLink(frame.ecode + 1)
  BY <1>1 DEF InMatch, WellFormed, Linked, HasLink
<1>3. AfterGroup \in DOMAIN Code
  BY <1>2, AfterGroupInCode DEF InMatch, AfterGroup
<1>4. PICK loc : loc = [at |-> IF Op.op = "BRAZERO" THEN "RM10" ELSE "RM11"]
  OBVIOUS
<1>5. GoesOn(frame.ecode, loc)
  BY <1>1, <1>4 DEF GoesOn
<1>6. PICK p : p = IF Op.op = "BRAZERO" THEN frame.ecode + 1 ELSE AfterGroup
  OBVIOUS
<1>7. p \in DOMAIN Code /\ RMATCH(frames, frame, loc, frame.eptr, p, frame.eptrb, {})
  BY <1>1, <1>3, <1>4, <1>6 DEF OptionalGroup
<1>. QED BY <1>5, <1>7, CallStays DEF InMatch, FramesInv

LEMMA OptionalGroupFailsStays ==
  ASSUME InMatch, OptionalGroupFails
  PROVE  FramesInv'
<1>1. PICK fr : fr = Last(frames)
  OBVIOUS
<1>2. /\ Framed(fr) /\ AllCalling(Callers) /\ GoesOn(fr.ecode, fr.loc)
      /\ fr.loc.at = "RM10" \/ fr.loc.at = "RM11"
  BY <1>1, ReturnsInCode DEF OptionalGroupFails
<1>3. fr.ecode \in DOMAIN Code /\ Code[fr.ecode].op \in {"BRAZERO", "BRAMINZERO"}
  BY <1>2 DEF GoesOn, Framed, InCode
<1>4. HasLink(fr.ecode + 1)
  BY <1>3 DEF InMatch, WellFormed, Linked, HasLink
<1>5. fr.ecode + 1 \in DOMAIN Code /\ KetOf(Code, fr.ecode + 1) + 1 \in DOMAIN Code
  BY <1>4, AfterGroupInCode DEF InMatch
<1>6. PICK f : f = [fr EXCEPT !.ecode = IF fr.loc.at = "RM10" THEN KetOf(Code, @ + 1) + 1 ELSE @ + 1]
  OBVIOUS
<1>7. Framed(f)
  BY <1>2, <1>5, <1>6 DEF Framed, InCode, FrameFields
<1>8. Go(Callers, f) \/ \E answered : RRETURN(Callers, answered)
  BY <1>1, <1>6 DEF OptionalGroupFails
<1>. QED BY <1>2, <1>7, <1>8, GoStays, ReturnStays DEF InMatch, FramesInv

-----------------------------------------------------------------------------
\* The end of a group.
LEMMA RunsKet ==
  ASSUME InMatch, Running(KetOps)
  PROVE  /\ IsKet(Code, frame.ecode) /\ frame.ecode + 1 \in DOMAIN Code
         /\ IsGroup(Code, Prev) /\ Prev \in DOMAIN Code
<1>1. "END" \notin KetOps
  BY DEF KetOps
<1>2. /\ frame.ecode + 1 \in DOMAIN Code /\ Op = Code[frame.ecode] /\ frame.ecode \in DOMAIN Code
      /\ Op.op \in KetOps
  BY <1>1, NextIsInCode
<1>3. IsGroup(Code, Prev)
  BY <1>2 DEF InMatch, WellFormed, Linked, Prev
<1>. QED BY <1>2, <1>3 DEF IsKet, IsGroup

LEMMA KetRepeatsStays ==
  ASSUME InMatch, NEW fr, Framed(fr), NEW prev, prev \in DOMAIN Code, IsKet(Code, fr.ecode),
         KetRepeats(fr, prev)
  PROVE  FramesInv'
<1>1. fr.ecode + 1 \in DOMAIN Code
  BY AfterKet DEF InMatch
<1>2. PICK on : on = [fr EXCEPT !.ecode = fr.ecode + 1]
  OBVIOUS
<1>3. PICK f : f = [fr EXCEPT !.flags = BraFlags(Code[prev].op)]
  OBVIOUS
<1>4. Framed(on) /\ Framed(f) /\ f.ecode = fr.ecode
  BY <1>1, <1>2, <1>3 DEF Framed, InCode, FrameFields
<1>5. PICK lazy, greedy : lazy = [at |-> "RM12", prev |-> prev] /\ greedy = [at |-> "RM13"]
  OBVIOUS
<1>6. GoesOn(f.ecode, lazy) /\ GoesOn(f.ecode, greedy)
  BY <1>4, <1>5 DEF GoesOn
<1>7. \/ Go(frames, on)
      \/ RMATCH(frames, f, lazy, fr.eptr, fr.ecode + 1, fr.eptrb, {})
      \/ RMATCH(frames, f, greedy, fr.eptr, prev, fr.eptrb, BraFlags(Code[prev].op))
  BY <1>2, <1>3, <1>5 DEF KetRepeats
<1>. QED BY <1>1, <1>4, <1>6, <1>7, GoStays, CallStays DEF InMatch, FramesInv

LEMMA KetStays ==
  ASSUME InMatch, Ket
  PROVE  FramesInv'
<1>1. IsKet(Code, frame.ecode) /\ Prev \in DOMAIN Code
  BY RunsKet DEF Ket
<1>2. PICK popped : popped = Popped
  OBVIOUS
<1>3. Framed(popped) /\ popped.ecode = frame.ecode
  BY <1>2 DEF Popped, InMatch, FramesInv, Framed, InCode, FrameFields
<1>4. PICK on : on = [popped EXCEPT !.ims = frame.original_ims]
  OBVIOUS
<1>5. Framed(on) /\ on.ecode = frame.ecode
  BY <1>3, <1>4 DEF Framed, InCode, FrameFields
<1>6. PICK top : top = [on EXCEPT !.offset_top =
                              IF 2 * Code[Prev].n < OffsetMax
                              THEN Max({@, 2 * Code[Prev].n + 2}) ELSE @]
  OBVIOUS
<1>7. Framed(top) /\ top.ecode = frame.ecode
  BY <1>5, <1>6 DEF Framed, InCode, FrameFields
<1>8. KetRepeats(top, Prev) \/ KetRepeats(on, Prev)
  BY <1>2, <1>4, <1>6 DEF Ket
<1>. QED BY <1>1, <1>5, <1>7, <1>8, KetRepeatsStays

LEMMA KetOfCallStays ==
  ASSUME InMatch, KetOfCall
  PROVE  FramesInv'
BY ReturnStays DEF KetOfCall, InMatch, FramesInv

LEMMA KetFailsStays ==
  ASSUME InMatch, KetFails
  PROVE  FramesInv'
<1>1. PICK fr : fr = Last(frames)
  OBVIOUS
<1>2. /\ Framed(fr) /\ AllCalling(Callers) /\ GoesOn(fr.ecode, fr.loc)
      /\ fr.loc.at = "RM12" \/ fr.loc.at = "RM13"
  BY <1>1, ReturnsInCode DEF KetFails
<1>3. fr.ecode + 1 \in DOMAIN Code /\ (fr.loc.at = "RM12" => fr.loc.prev \in DOMAIN Code)
  BY <1>2, AfterKet DEF GoesOn, InMatch
<1>4. PICK on, again : on = [fr EXCEPT !.ecode = @ + 1, !.flags = {}]
                       /\ again = [fr EXCEPT !.ecode = fr.loc.prev]
  OBVIOUS
<1>5. Framed(on) /\ (fr.loc.at = "RM12" => Framed(again))
  BY <1>2, <1>3, <1>4 DEF Framed, InCode, FrameFields
<1>6. PICK loc : loc = [at |-> "RM50"]
  OBVIOUS
<1>7. GoesOn(fr.ecode, loc)
  BY <1>6 DEF GoesOn
<1>8. \/ TAIL_RECURSE(Callers, on) \/ \E answered : RRETURN(Callers, answered)
      \/ fr.loc.at = "RM12" /\ TAIL_RECURSE(Callers, again)
      \/ fr.loc.at = "RM12" /\ RMATCH(Callers, fr, loc, fr.eptr, fr.loc.prev, fr.eptrb, fr.flags)
  BY <1>1, <1>2, <1>4, <1>6 DEF KetFails
<1>. QED BY <1>2, <1>3, <1>5, <1>7, <1>8, GoStays, ReturnStays, CallStays DEF InMatch, FramesInv

-----------------------------------------------------------------------------
\* Repeats: the place behind the item is known before the first is tried.
LEMMA RepeatStays ==
  ASSUME InMatch, NEW fr, Framed(fr), NEW item, NEW min, NEW max, NEW lazy, NEW possessive,
         Repeat(fr, item, min, max, lazy, possessive)
  PROVE  FramesInv'
<1>1. PICK e : RepeatRest(fr, item, min, max, lazy, possessive, e)
  BY DEF Repeat
<1>2. PICK last : last = GreedyEnd(fr, item, e, Min({max - min, End}))
  OBVIOUS
<1>3. PICK f, g : f = [fr EXCEPT !.eptr = e] /\ g = [fr EXCEPT !.eptr = last]
  OBVIOUS
<1>4. Framed(f) /\ f.ecode = fr.ecode /\ Framed(g) /\ g.ecode = fr.ecode
  BY <1>3 DEF Framed, InCode, FrameFields
<1>5. PICK each, all : each = [at |-> "LAZY", item |-> item, fi |-> min, max |-> max]
                       /\ all = [at |-> "GREEDY", item |-> item, pp |-> e]
  OBVIOUS
<1>6. GoesOn(fr.ecode, each) /\ GoesOn(fr.ecode, all)
  BY <1>5 DEF GoesOn
<1>7. CASE e = NoMatch
  BY <1>1, <1>7, ReturnStays DEF RepeatRest, InMatch, FramesInv
<1>8. CASE e # NoMatch /\ min = max
  BY <1>1, <1>3, <1>4, <1>8, GoStays DEF RepeatRest, InMatch, FramesInv
<1>9. CASE e # NoMatch /\ min # max /\ lazy
  <2>1. RMATCH(frames, f, each, e, fr.ecode, fr.eptrb, {})
    BY <1>1, <1>3, <1>5, <1>9 DEF RepeatRest, LazyRest
  <2>2. fr.ecode \in DOMAIN Code
    BY DEF Framed, InCode
  <2>. QED BY <1>4, <1>6, <2>1, <2>2, CallStays DEF InMatch, FramesInv
<1>10. CASE e # NoMatch /\ min # max /\ ~lazy
  <2>1. GreedyRest(fr, item, e, last, possessive)
    BY <1>1, <1>2, <1>10 DEF RepeatRest
  <2>2. Go(frames, g) \/ RMATCH(frames, g, all, last, fr.ecode, fr.eptrb, {})
    BY <2>1, <1>3, <1>5 DEF GreedyRest
  <2>3. fr.ecode \in DOMAIN Code
    BY DEF Framed, InCode
  <2>. QED BY <1>4, <1>6, <2>2, <2>3, CallStays, GoStays DEF InMatch, FramesInv
<1>. QED BY <1>7, <1>8, <1>9, <1>10

LEMMA BehindItem ==
  ASSUME InMatch, NEW ops, Running(ops), "END" \notin ops
  PROVE  AfterItem(Code, frame.ecode) \in DOMAIN Code
<1>1. frame.ecode + 1 \in DOMAIN Code /\ frame.ecode \in DOMAIN Code
  BY NextIsInCode
<1>2. CASE Code[frame.ecode + 1].op = "CR"
  <2>1. frame.ecode + 1 \in Nat /\ frame.ecode + 1 + 1 \in DOMAIN Code
    BY <1>1, <1>2, AfterInstruction DEF InMatch
  <2>2. Len(Code) \in Nat /\ DOMAIN Code = 1..Len(Code)
    BY DEF InMatch, WellFormed
  <2>3. frame.ecode + 1 + 1 = frame.ecode + 2
    BY <1>1, <2>2
  <2>. QED BY <1>2, <2>1, <2>3 DEF AfterItem, IsRepeated
<1>3. CASE Code[frame.ecode + 1].op # "CR"
  BY <1>1, <1>3 DEF AfterItem, IsRepeated
<1>. QED BY <1>2, <1>3

LEMMA RepeatsStay ==
  ASSUME InMatch, RepeatSingle \/ RepeatClass \/ Reference
  PROVE  FramesInv'
<1>1. CASE RepeatSingle
  <2>1. "END" \notin RepOps
    BY DEF RepOps
  <2>2. frame.ecode + 1 \in DOMAIN Code /\ Framed(frame)
    BY <1>1, <2>1, NextIsInCode DEF RepeatSingle
  <2>3. PICK f : f = [frame EXCEPT !.ecode = @ + 1]
    OBVIOUS
  <2>4. Framed(f)
    BY <2>2, <2>3 DEF Framed, InCode, FrameFields
  <2>5. \E min, max, lazy, possessive : Repeat(f, Op, min, max, lazy, possessive)
    BY <1>1, <2>3 DEF RepeatSingle
  <2>. QED BY <2>4, <2>5, RepeatStays
<1>2. CASE RepeatClass
  <2>1. "END" \notin ClassOps
    BY DEF ClassOps
  <2>2. AfterItem(Code, frame.ecode) \in DOMAIN Code /\ Framed(frame)
    BY <1>2, <2>1, NextIsInCode, BehindItem DEF RepeatClass
  <2>3. PICK f : f = [frame EXCEPT !.ecode = AfterItem(Code, @)]
    OBVIOUS
  <2>4. Framed(f)
    BY <2>2, <2>3 DEF Framed, InCode, FrameFields
  <2>5. \E min, max, lazy, possessive : Repeat(f, Op, min, max, lazy, possessive)
    BY <1>2, <2>3 DEF RepeatClass
  <2>. QED BY <2>4, <2>5, RepeatStays
<1>3. CASE Reference
  <2>2. AfterItem(Code, frame.ecode) \in DOMAIN Code /\ Framed(frame)
    BY <1>3, NextIsInCode, BehindItem DEF Reference
  <2>3. PICK f : f = [frame EXCEPT !.ecode = AfterItem(Code, @)]
    OBVIOUS
  <2>4. Framed(f)
    BY <2>2, <2>3 DEF Framed, InCode, FrameFields
  <2>5. Go(frames, f) \/ \E item, min, max, lazy, possessive : Repeat(f, item, min, max, lazy, possessive)
    BY <1>3, <2>3 DEF Reference
  <2>. QED BY <2>4, <2>5, RepeatStays, GoStays DEF InMatch, FramesInv
<1>. QED BY <1>1, <1>2, <1>3

LEMMA RepeatFailsStays ==
  ASSUME InMatch, LazyRepeatFails \/ GreedyRepeatFails
  PROVE  FramesInv'
<1>1. PICK fr : fr = Last(frames)
  OBVIOUS
<1>2. /\ Framed(fr) /\ AllCalling(Callers) /\ GoesOn(fr.ecode, fr.loc)
      /\ fr.loc.at \in {"LAZY", "GREEDY"} /\ fr.ecode \in DOMAIN Code
  BY <1>1, ReturnsInCode DEF LazyRepeatFails, GreedyRepeatFails, Framed, InCode
<1>3. CASE LazyRepeatFails
  <2>1. PICK e : LazyNext(fr, e) \/ RRETURN(Callers, rrc)
    BY <1>1, <1>3 DEF LazyRepeatFails
  <2>2. PICK f, loc : f = [fr EXCEPT !.eptr = e] /\ loc = [fr.loc EXCEPT !.fi = @ + 1]
    OBVIOUS
  <2>3. Framed(f) /\ f.ecode = fr.ecode
    BY <1>2, <2>2 DEF Framed, InCode, FrameFields
  <2>4. GoesOn(fr.ecode, loc)
    BY <1>2, <2>2 DEF GoesOn
  <2>5. \/ \E answered : RRETURN(Callers, answered)
        \/ RMATCH(Callers, f, loc, e, fr.ecode, fr.eptrb, {})
    BY <2>1, <2>2 DEF LazyNext
  <2>. QED BY <1>2, <2>3, <2>4, <2>5, ReturnStays, CallStays DEF InMatch, FramesInv
<1>4. CASE GreedyRepeatFails
  <2>1. PICK e, f : /\ f = [fr EXCEPT !.eptr = e]
                    /\ \/ \E answered : RRETURN(Callers, answered)
                       \/ RMATCH(Callers, f, fr.loc, e, fr.ecode, fr.eptrb, {})
    BY <1>1, <1>4 DEF GreedyRepeatFails
  <2>3. Framed(f) /\ f.ecode = fr.ecode
    BY <1>2, <2>1 DEF Framed, InCode, FrameFields
  <2>. QED BY <1>2, <2>1, <2>3, ReturnStays, CallStays DEF InMatch, FramesInv
<1>. QED BY <1>3, <1>4

-----------------------------------------------------------------------------
\* Calls of groups: the place to go on from is kept with the call.
RecursionsInv == "recursive" \in DOMAIN md /\ Recursions(md.recursive)

LEMMA RecursionsPop ==
  ASSUME NEW s, Recursions(s), s # <<>>
  PROVE  s[1].after_call \in DOMAIN Code /\ Recursions(Tail(s))
<1>1. PICK E : s \in Seq(E)
  BY DEF Recursions, Stack
<1>2. 1 \in DOMAIN s /\ Len(s) \in Nat \ {0} /\ DOMAIN s = 1..Len(s)
  BY <1>1, EmptySeq
<1>3. Tail(s) \in Seq(E)
  BY <1>1
<1>4. \A i \in DOMAIN Tail(s) : i + 1 \in DOMAIN s /\ Tail(s)[i] = s[i + 1]
  BY <1>1, <1>2
<1>. QED BY <1>2, <1>3, <1>4 DEF Recursions, Stack

LEMMA RecursionsPush ==
  ASSUME NEW s, Recursions(s), NEW rec, rec.after_call \in DOMAIN Code
  PROVE  Recursions(<<rec>> \o s)
<1>1. PICK E : s \in Seq(E)
  BY DEF Recursions, Stack
<1>2. s \in Seq(E \cup {rec}) /\ <<rec>> \in Seq(E \cup {rec})
  BY <1>1, SeqMonotonic
<1>3. <<rec>> \o s \in Seq(E \cup {rec})
  BY <1>2
<1>4. ASSUME NEW i \in DOMAIN (<<rec>> \o s)
      PROVE  \/ (<<rec>> \o s)[i] = rec
             \/ i - 1 \in DOMAIN s /\ (<<rec>> \o s)[i] = s[i - 1]
  <2>1. Len(s) \in Nat /\ Len(<<rec>>) = 1 /\ DOMAIN s = 1..Len(s)
    BY <1>1
  <2>2. i \in 1..(1 + Len(s))
    BY <1>2, <1>4, <2>1
  <2>. QED BY <1>2, <2>1, <2>2
<1>. QED BY <1>3, <1>4 DEF Recursions, Stack

\* A step that changes the calls under way no further.
KeepsCalls == "recursive" \in DOMAIN md' /\ md'.recursive = md.recursive

LEMMA RecursionsStay ==
  ASSUME RecursionsInv, KeepsCalls, re' = re
  PROVE  RecursionsInv'
<1>1. Code' = Code
  BY DEF Code
<1>. QED BY <1>1 DEF RecursionsInv, KeepsCalls, Recursions

LEMMA EndOfRecursion ==
  ASSUME InMatch, RecursionsInv, NEW fr, Framed(fr), NEW rec, rec = md.recursive[1],
         md.recursive # <<>>
  PROVE  Framed(EndRecursion(fr, rec)) /\ Recursions(Tail(md.recursive))
<1>1. rec.after_call \in DOMAIN Code /\ Recursions(Tail(md.recursive))
  BY RecursionsPop DEF RecursionsInv
<1>2. PICK f : f = EndRecursion(fr, rec)
  OBVIOUS
<1>3. Framed(f)
  BY <1>1, <1>2 DEF EndRecursion, Framed, InCode, FrameFields
<1>. QED BY <1>1, <1>2, <1>3

LEMMA MdStays ==
  ASSUME RecursionsInv
  PROVE  "recursive" \in DOMAIN Md /\ Md.recursive = md.recursive
BY DEF Md, RecursionsInv

LEMMA AcceptStays ==
  ASSUME InMatch, RecursionsInv, Accept
  PROVE  FramesInv' /\ RecursionsInv'
<1>1. Framed(frame) /\ AllCalling(frames) /\ re' = re /\ Code' = Code
  BY DEF InMatch, FramesInv, Code
<1>2. CASE md.recursive # <<>> /\ md.recursive[1].group_num = 0
  <2>1. PICK rec : rec = md.recursive[1]
    OBVIOUS
  <2>2. /\ md' = [Md EXCEPT !.recursive = Tail(@), !.offset_vector = rec.offset_save]
        /\ Go(frames, EndRecursion(frame, rec))
    BY <1>2, <2>1 DEF Accept
  <2>3. Framed(EndRecursion(frame, rec)) /\ Recursions(Tail(md.recursive))
    BY <1>1, <1>2, <2>1, EndOfRecursion
  <2>4. "recursive" \in DOMAIN md' /\ md'.recursive = Tail(md.recursive)
    BY <2>2, MdStays
  <2>5. RecursionsInv'
    BY <1>1, <2>3, <2>4 DEF RecursionsInv, Recursions
  <2>. QED BY <1>1, <2>2, <2>3, <2>5, GoStays
<1>3. CASE ~(md.recursive # <<>> /\ md.recursive[1].group_num = 0)
  <2>1. \/ md' = Md
        \/ md' = [Md EXCEPT !.end_match_ptr = frame.eptr,
                            !.end_offset_top = frame.offset_top,
                            !.start_match_ptr = frame.mstart]
    BY <1>3 DEF Accept
  <2>2. KeepsCalls
    BY <2>1, MdStays DEF KeepsCalls
  <2>3. \E answered : RRETURN(frames, answered)
    BY <1>3 DEF Accept
  <2>. QED BY <1>1, <2>2, <2>3, ReturnStays, RecursionsStay
<1>. QED BY <1>2, <1>3

LEMMA RecurseStays ==
  ASSUME InMatch, RecursionsInv, Recurse
  PROVE  FramesInv' /\ RecursionsInv'
<1>1. Framed(frame) /\ AllCalling(frames) /\ re' = re /\ Code' = Code
  BY DEF InMatch, FramesInv, Code
<1>2. /\ frame.ecode + 1 \in DOMAIN Code /\ Op = Code[frame.ecode] /\ Op.op = "RECURSE"
      /\ frame.ecode \in DOMAIN Code
  BY NextIsInCode DEF Recurse
<1>3. PICK callpat : callpat = Op.link
  OBVIOUS
<1>4. IsGroup(Code, callpat) /\ callpat + 1 \in DOMAIN Code
  BY <1>2, <1>3, AfterGroupInCode DEF InMatch, WellFormed, Linked, HasLink
<1>5. PICK rec : rec = [group_num |-> GroupNumber(callpat), after_call |-> frame.ecode + 1,
                 offset_save |-> md.offset_vector, save_start |-> frame.mstart]
  OBVIOUS
<1>6. PICK f : f = [frame EXCEPT !.ecode = @ + 1, !.mstart = frame.eptr,
                              !.flags = BraFlags(Code[callpat].op)]
  OBVIOUS
<1>7. PICK loc : loc = [at |-> "RM6", callpat |-> callpat, rec |-> rec, prevrec |-> md.recursive]
  OBVIOUS
<1>8. /\ md' = [Md EXCEPT !.recursive = <<rec>> \o @]
      /\ RMATCH(frames, f, loc, frame.eptr, callpat + 1, frame.eptrb, f.flags)
  BY <1>3, <1>5, <1>6, <1>7 DEF Recurse
<1>9. Framed(f) /\ rec.after_call \in DOMAIN Code
  BY <1>1, <1>2, <1>5, <1>6 DEF Framed, InCode, FrameFields
<1>10. GoesOn(f.ecode, loc)
  BY <1>4, <1>7, <1>9 DEF GoesOn, HasLink, RecursionsInv
<1>11. Recursions(<<rec>> \o md.recursive)
  BY <1>9, RecursionsPush DEF RecursionsInv
<1>12. "recursive" \in DOMAIN md' /\ md'.recursive = <<rec>> \o md.recursive
  BY <1>8, MdStays
<1>13. RecursionsInv'
  BY <1>1, <1>11, <1>12 DEF RecursionsInv, Recursions
<1>. QED BY <1>1, <1>4, <1>8, <1>9, <1>10, <1>13, CallStays

LEMMA RecurseReturnsStays ==
  ASSUME InMatch, RecursionsInv, RecurseReturns
  PROVE  FramesInv' /\ RecursionsInv'
<1>1. PICK fr, loc : fr = Last(frames) /\ loc = fr.loc
  OBVIOUS
<1>2. /\ Framed(fr) /\ AllCalling(Callers) /\ GoesOn(fr.ecode, loc) /\ loc.at = "RM6"
      /\ re' = re /\ Framed(frame) /\ Code' = Code
  BY <1>1, ReturnsInCode DEF RecurseReturns, Code
<1>3. /\ {"callpat", "rec", "prevrec"} \subseteq DOMAIN loc /\ HasLink(loc.callpat)
      /\ loc.rec.after_call \in DOMAIN Code /\ Recursions(loc.prevrec)
  BY <1>2 DEF GoesOn
<1>4. PICK next, l2 : next = NextAlt(Code, loc.callpat) /\ l2 = [loc EXCEPT !.callpat = next]
  OBVIOUS
<1>5. next + 1 \in DOMAIN Code /\ (Code[next].op = "ALT" => HasLink(next))
  BY <1>3, <1>4, AfterGroupInCode DEF InMatch
<1>6. Code[next].op = "ALT" => GoesOn(fr.ecode, l2)
  BY <1>2, <1>3, <1>4, <1>5 DEF GoesOn
<1>7. PICK again : again = <<loc.rec>> \o loc.prevrec
  OBVIOUS
<1>8. Recursions(again)
  BY <1>3, <1>7, RecursionsPush
<1>9. rrc = "MATCH" \/ Failed \/ (~Failed /\ rrc # "MATCH")
  OBVIOUS
<1>10. \/ md' = md \/ md' = [md EXCEPT !.recursive = loc.prevrec]
       \/ md' = [md EXCEPT !.recursive = again, !.offset_vector = loc.rec.offset_save]
       \/ md' = [md EXCEPT !.recursive = loc.prevrec, !.offset_vector = loc.rec.offset_save]
  BY <1>1, <1>7, <1>9 DEF RecurseReturns, Failed
<1>11. "recursive" \in DOMAIN md' /\ md'.recursive \in {md.recursive, loc.prevrec, again}
  BY <1>10 DEF RecursionsInv
<1>12. Recursions(md'.recursive)
  BY <1>3, <1>8, <1>11 DEF RecursionsInv
<1>13. RecursionsInv'
  BY <1>2, <1>11, <1>12 DEF RecursionsInv, Recursions
<1>14. \/ \E answered : RRETURN(Callers, answered)
       \/ /\ Code[next].op = "ALT"
          /\ RMATCH(Callers, fr, l2, fr.eptr, next + 1, fr.eptrb, fr.flags)
  BY <1>1, <1>4, <1>9 DEF RecurseReturns, Failed
<1>15. FramesInv'
  BY <1>2, <1>5, <1>6, <1>14, ReturnStays, CallStays
<1>. QED BY <1>13, <1>15

LEMMA KetCaptureStays ==
  ASSUME RecursionsInv, NEW n
  PROVE  "recursive" \in DOMAIN KetCapture(n) /\ KetCapture(n).recursive = md.recursive
<1>1. PICK m : m = Md
  OBVIOUS
<1>2. "recursive" \in DOMAIN m /\ m.recursive = md.recursive
  BY <1>1, MdStays
<1>. QED BY <1>1, <1>2 DEF KetCapture

LEMMA KetOfSubroutineStays ==
  ASSUME InMatch, RecursionsInv, KetOfSubroutine
  PROVE  FramesInv' /\ RecursionsInv'
<1>1. Framed(frame) /\ AllCalling(frames) /\ re' = re /\ Code' = Code
  BY DEF InMatch, FramesInv, Code
<1>2. PICK rec, n : rec = md.recursive[1] /\ n = Code[Prev].n
  OBVIOUS
<1>3. PICK top, f : /\ md' = [KetCapture(n) EXCEPT !.recursive = Tail(@),
                                                !.offset_vector = rec.offset_save]
                    /\ f = [EndRecursion(Popped, rec) EXCEPT !.offset_top = top]
                    /\ Go(frames, f)
  BY <1>2 DEF KetOfSubroutine
<1>4. PICK popped : popped = Popped
  OBVIOUS
<1>5. Framed(popped)
  BY <1>1, <1>4 DEF Popped, Framed, InCode, FrameFields
<1>6. md.recursive # <<>>
  BY DEF KetOfSubroutine, InSubroutine
<1>7. PICK g : g = EndRecursion(popped, rec)
  OBVIOUS
<1>8. Framed(g) /\ Recursions(Tail(md.recursive))
  BY <1>2, <1>5, <1>6, <1>7, EndOfRecursion
<1>9. Framed(f)
  BY <1>3, <1>4, <1>7, <1>8 DEF Framed, InCode, FrameFields
<1>10. PICK m : m = KetCapture(n)
  OBVIOUS
<1>11. "recursive" \in DOMAIN m /\ m.recursive = md.recursive
  BY <1>10, KetCaptureStays
<1>12. "recursive" \in DOMAIN md' /\ md'.recursive = Tail(md.recursive)
  BY <1>3, <1>10, <1>11
<1>13. RecursionsInv'
  BY <1>1, <1>8, <1>12 DEF RecursionsInv, Recursions
<1>. QED BY <1>1, <1>3, <1>9, <1>13, GoStays

\* The other steps leave the calls of groups as they are.
LEMMA OtherStepsKeepCalls ==
  ASSUME RecursionsInv,
         \/ Enter \/ Verb \/ VerbFails \/ Fail
         \/ CaptureBracket \/ CaptureBracketFails \/ Bracket \/ BracketFails \/ PassOn
         \/ Condition \/ ConditionAssertion \/ ConditionDecided \/ SetOptions
         \/ Assertion \/ AssertionReturns \/ NegativeAssertionReturns \/ ReverseBack \/ Callout
         \/ Atomic \/ AtomicReturns \/ AtomicRepeatFails \/ SkipAlternatives
         \/ OptionalGroup \/ OptionalGroupFails \/ SkipGroup \/ KetOfCall \/ Ket \/ KetFails
         \/ SimpleAssertion \/ SetStartOfMatch \/ Type \/ Char \/ NotChar
         \/ RepeatSingle \/ RepeatClass \/ Reference \/ LazyRepeatFails \/ GreedyRepeatFails
  PROVE  KeepsCalls
<1> USE DEF KeepsCalls
<1>1. PICK m : m = Md
  OBVIOUS
<1>2. "recursive" \in DOMAIN m /\ m.recursive = md.recursive /\ "recursive" \in DOMAIN md
  BY <1>1, MdStays DEF RecursionsInv
<1>3. CASE md' = md \/ md' = Md
  BY <1>1, <1>2, <1>3
<1>4. CASE CaptureBracket
  BY <1>1, <1>2, <1>4 DEF CaptureBracket
<1>5. CASE CaptureBracketFails
  <2>1. PICK fr, loc : fr = Last(frames) /\ loc = fr.loc
    OBVIOUS
  <2>2. \/ md' = md \/ md' = [md EXCEPT !.capture_last = loc.save_capture_last]
        \/ \E v : md' = [md EXCEPT !.capture_last = loc.save_capture_last, !.offset_vector = v]
    BY <1>5, <2>1 DEF CaptureBracketFails
  <2>. QED BY <1>2, <2>2
<1>6. CASE Enter
  BY <1>2, <1>6 DEF Enter
<1>7. CASE VerbFails
  BY <1>2, <1>7 DEF VerbFails
<1>8. CASE KetOfCall
  BY <1>1, <1>2, <1>8 DEF KetOfCall
<1>9. CASE Ket
  <2>1. md' = Md \/ \E n : md' = KetCapture(n)
    BY <1>9 DEF Ket
  <2>. QED BY <1>1, <1>2, <2>1, KetCaptureStays
<1>10. CASE \/ Verb \/ Fail \/ Bracket \/ BracketFails \/ PassOn
            \/ Condition \/ ConditionAssertion \/ ConditionDecided \/ SetOptions
            \/ Assertion \/ AssertionReturns \/ NegativeAssertionReturns
  BY <1>3, <1>10 DEF Verb, Fail, Bracket, BracketFails, PassOn, Condition, ConditionAssertion,
     ConditionDecided, SetOptions, Assertion, AssertionReturns, NegativeAssertionReturns
<1>11. CASE \/ ReverseBack \/ Callout \/ Atomic \/ AtomicReturns \/ AtomicRepeatFails
            \/ SkipAlternatives \/ OptionalGroup \/ OptionalGroupFails \/ SkipGroup
  BY <1>3, <1>11 DEF ReverseBack, Callout, Atomic, AtomicReturns, AtomicRepeatFails,
     SkipAlternatives, OptionalGroup, OptionalGroupFails, SkipGroup
<1>12. CASE \/ KetFails \/ SimpleAssertion \/ SetStartOfMatch \/ Type \/ Char \/ NotChar
            \/ RepeatSingle \/ RepeatClass \/ Reference \/ LazyRepeatFails \/ GreedyRepeatFails
  BY <1>3, <1>12 DEF KetFails, SimpleAssertion, SetStartOfMatch, Type, Char, NotChar,
     RepeatSingle, RepeatClass, Reference, LazyRepeatFails, GreedyRepeatFails
<1>. QED BY <1>4, <1>5, <1>6, <1>7, <1>8, <1>9, <1>10, <1>11, <1>12

LEMMA VerbFailsStays ==
  ASSUME InMatch, VerbFails
  PROVE  FramesInv'
<1>1. AllCalling(Callers) /\ re' = re /\ Framed(frame)
  BY ReturnsInCode DEF VerbFails
<1>2. \E answered : RRETURN(Callers, answered)
  BY DEF VerbFails
<1>. QED BY <1>1, <1>2, ReturnStays

\* Every step of match() stays in the code.
CodeInv == FramesInv /\ RecursionsInv

LEMMA MatchKeepsCode ==
  ASSUME WellFormed, CodeInv, MatchStep, re' = re
  PROVE  CodeInv'
<1> USE DEF CodeInv
<1>1. InMatch
  BY DEF InMatch
<1>2. CASE Accept \/ Recurse \/ RecurseReturns \/ KetOfSubroutine
  BY <1>1, <1>2, AcceptStays, RecurseStays, RecurseReturnsStays, KetOfSubroutineStays
<1>3. ASSUME KeepsCalls, FramesInv' PROVE CodeInv'
  BY <1>3, RecursionsStay
<1>4. CASE Enter \/ Verb \/ SetOptions \/ SetStartOfMatch \/ SkipAlternatives \/ SkipGroup
  <2>1. FramesInv'
    BY <1>1, <1>4, FirstStepsStay
  <2>2. KeepsCalls
    BY <1>4, OtherStepsKeepCalls
  <2>. QED BY <1>3, <2>1, <2>2
<1>5. CASE SimpleAssertion \/ Type \/ Char \/ NotChar \/ ReverseBack \/ Callout \/ Fail
  <2>1. FramesInv'
    BY <1>1, <1>5, PlainStepsStay
  <2>2. KeepsCalls
    BY <1>5, OtherStepsKeepCalls
  <2>. QED BY <1>3, <2>1, <2>2
<1>6. CASE \/ VerbFails \/ CaptureBracket \/ CaptureBracketFails \/ Bracket \/ BracketFails
           \/ PassOn \/ Condition \/ ConditionAssertion \/ ConditionDecided
  <2>1. FramesInv'
    BY <1>1, <1>6, VerbFailsStays, CaptureBracketStays, CaptureBracketFailsStays, BracketStays,
       BracketFailsStays, PassOnStays, ConditionStays, ConditionAssertionStays,
       ConditionDecidedStays
  <2>2. KeepsCalls
    BY <1>6, OtherStepsKeepCalls
  <2>. QED BY <1>3, <2>1, <2>2
<1>7. CASE \/ Assertion \/ AssertionReturns \/ NegativeAssertionReturns \/ Atomic \/ AtomicReturns
           \/ AtomicRepeatFails \/ OptionalGroup \/ OptionalGroupFails
  <2>1. FramesInv'
    BY <1>1, <1>7, AssertionStays, AssertionReturnsStays, NegativeAssertionReturnsStays,
       AtomicStays, AtomicReturnsStays, AtomicRepeatFailsStays, OptionalGroupStays,
       OptionalGroupFailsStays
  <2>2. KeepsCalls
    BY <1>7, OtherStepsKeepCalls
  <2>. QED BY <1>3, <2>1, <2>2
<1>8. CASE \/ KetOfCall \/ Ket \/ KetFails \/ RepeatSingle \/ RepeatClass \/ Reference
           \/ LazyRepeatFails \/ GreedyRepeatFails
  <2>1. FramesInv'
    BY <1>1, <1>8, KetOfCallStays, KetStays, KetFailsStays, RepeatsStay, RepeatFailsStays
  <2>2. KeepsCalls
    BY <1>8, OtherStepsKeepCalls
  <2>. QED BY <1>3, <2>1, <2>2
<1>. QED BY <1>2, <1>4, <1>5, <1>6, <1>7, <1>8 DEF MatchStep

-----------------------------------------------------------------------------
\* The code that is executed is that of a pattern that has compiled, and stays.
PatternInv ==
  /\ step # "none" => at = "ended"
  /\ step \in {"next", "finding", "deliver"} => errorcode = 0
  /\ at = "studied" => errorcode = 0
  /\ phase # "idle" => errorcode = 0 /\ (at = "studied" \/ (at = "ended" /\ step # "none"))

MachineInv == /\ phase # "idle" => RecursionsInv
              /\ phase = "match" => FramesInv

LEMMA PatternIsWellFormed ==
  ASSUME PatternInv, CodeIsWellFormed, phase # "idle"
  PROVE  WellFormed
BY DEF PatternInv, CodeIsWellFormed, WellFormed

\* pcre_exec calls match() for the first instruction.
LEMMA ExecKeepsCode ==
  ASSUME MachineInv, WellFormed, Exec, re' = re
  PROVE  MachineInv'
<1>a. Code' = Code /\ phase # "idle" /\ RecursionsInv
  BY DEF Code, MachineInv, Exec, Call, Scan, Match, MatchReturned
<1>1. CASE Call
  <2>1. md' = md \/ md' = [md EXCEPT !.offset_vector = NoOffsets]
    BY <1>1 DEF Call
  <2>2. KeepsCalls
    BY <1>a, <2>1 DEF KeepsCalls, RecursionsInv
  <2>3. phase' # "match"
    BY <1>1 DEF Call, Answer
  <2>. QED BY <1>a, <2>2, <2>3, RecursionsStay DEF MachineInv
<1>2. CASE Scan
  <2>1. PICK start, req : NotThere(start) \/ BeginMatch(start, req)
    BY <1>2 DEF Scan, ScanAt, ScanFrom
  <2>2. CASE NotThere(start)
    <3>1. KeepsCalls /\ phase' # "match"
      BY <1>a, <2>2 DEF NotThere, Answer, KeepsCalls, RecursionsInv
    <3>. QED BY <1>a, <3>1, RecursionsStay DEF MachineInv
  <2>3. CASE BeginMatch(start, req)
    <3>1. PICK v : md' = [md EXCEPT !.start_match_ptr = start, !.match_call_count = 0,
                                    !.offset_vector = v]
      BY <2>3 DEF BeginMatch
    <3>2. KeepsCalls
      BY <1>a, <3>1 DEF KeepsCalls, RecursionsInv
    <3>3. PICK options : frame' = [Idle EXCEPT !.eptr = start, !.mstart = start, !.ims = options]
      BY <2>3 DEF BeginMatch
    <3>4. FrameFields \subseteq DOMAIN frame' /\ frame'.ecode = 1
      BY <3>3 DEF Idle, FrameFields
    <3>5. 1 \in DOMAIN Code
      BY EmptySeq DEF WellFormed
    <3>6. frames' = <<>>
      BY <2>3 DEF BeginMatch
    <3>7. FramesInv'
      BY <1>a, <3>4, <3>5, <3>6, StackEmpty, NoMatches DEF FramesInv, Framed, InCode, AllCalling
    <3>. QED BY <1>a, <3>2, <3>7, RecursionsStay DEF MachineInv
  <2>. QED BY <2>1, <2>2, <2>3
<1>3. CASE Match
  BY <1>3, <1>a, MatchKeepsCode DEF Match, CodeInv, MachineInv
<1>4. CASE MatchReturned
  <2>1. KeepsCalls /\ phase' # "match"
    BY <1>4, <1>a DEF MatchReturned, KeepsCalls, RecursionsInv, Answer, Returns, Verdicts, Errors
  <2>. QED BY <1>a, <2>1, RecursionsStay DEF MachineInv
<1>. QED BY <1>1, <1>2, <1>3, <1>4 DEF Exec

LEMMA CallHasNoFrames ==
  ASSUME NEW j, pcre_exec(j)
  PROVE  MachineInv' /\ phase' = "called"
<1>1. md' = NewMd /\ phase' = "called"
  BY DEF pcre_exec
<1>2. Recursions(<<>>)'
  BY StackEmpty, NoMatches DEF Recursions
<1>. QED BY <1>1, <1>2 DEF MachineInv, RecursionsInv, NewMd, Recursions

LEMMA MachineStays ==
  ASSUME MachineInv, UNCHANGED execVars, phase # "idle" => re' = re
  PROVE  MachineInv'
<1>1. phase # "idle" => Code' = Code
  BY DEF Code
<1>. QED
  BY <1>1 DEF MachineInv, execVars, searchVars, matchVars, RecursionsInv, Recursions, FramesInv,
     AllCalling, Calling, Framed, InCode, GoesOn, HasLink, IsGroup, IsAlt, IsKet, NextAlt

\* The compiler ends, or goes on: what has been studied it does not touch.
LEMMA CompileNotStudied ==
  ASSUME CountsInv, C!Compile PROVE at' # "studied"
<1>1. CASE C!Start
  BY <1>1 DEF C!Start, C!FailWith, C!StartsPass
<1>2. CASE C!SecondPass
  BY <1>2 DEF C!SecondPass, C!StartsPass
<1>3. CASE C!Finish
  BY <1>3 DEF C!Finish, C!EndOfPattern, C!FailWith
<1>4. CASE C!ReadItem
  <2>1. Counts \subseteq DOMAIN cd /\ cd.bracount \in Nat
    BY DEF CountsInv
  <2>2. CASE C!NextAlternative
    BY <2>2, AlternativeTurns DEF Fails, Turns
  <2>3. CASE C!EndGroup
    BY <2>3, EndGroupCloses DEF Fails, Closes
  <2>4. CASE ~C!NextAlternative /\ ~C!EndGroup
    <3>1. ReadsOn \/ Fails \/ Opens
      BY <1>4, <2>1, <2>4, ReadingSteps, OpeningSteps, ReferringSteps DEF C!ReadItem
    <3>. QED BY <3>1 DEF ReadsOn, Fails, Opens
  <2>. QED BY <2>2, <2>3, <2>4
<1>. QED BY <1>1, <1>2, <1>3, <1>4 DEF C!Compile

\* The counts of the compiler are kept, whatever is done next.
LEMMA NextKeepsTheCounts ==
  ASSUME CountsInv, [NextFind]_<<vars, findVars>> PROVE CountsInv'
<1>1. CASE Compile
  BY <1>1, CompileKeepsCounts DEF Compile
<1>2. CASE Study
  BY <1>2 DEF Study, CountsInv, CountedGroup
<1>3. CASE CallExec \/ Execute \/ Begin \/ Enumerate \/ UNCHANGED <<vars, findVars>>
  <2>1. UNCHANGED <<re, compileVars>>
    BY <1>3 DEF CallExec, Execute, Enumerate, Begin, FindInString, FindReturns, Deliver, vars
  <2>. QED BY <2>1, CountsStay DEF compileVars
<1>. QED BY <1>1, <1>2, <1>3 DEF NextFind

\* match() stays in the code, whatever is done next.
LEMMA NextKeepsCode ==
  ASSUME CountsInv, PatternInv, MachineInv, CodeIsWellFormed, [NextFind]_<<vars, findVars>>
  PROVE  PatternInv' /\ MachineInv'
<1>1. CASE Compile /\ UNCHANGED findVars
  <2>1. at \notin {"ended", "studied"} /\ UNCHANGED <<execVars, step>>
    BY <1>1, CompileGoesOn DEF Compile, findVars
  <2>2. phase = "idle" /\ step = "none" /\ phase' = phase
    BY <2>1 DEF PatternInv, execVars, searchVars
  <2>3. at' # "studied"
    BY <1>1, CompileNotStudied DEF Compile
  <2>. QED BY <2>1, <2>2, <2>3, MachineStays DEF PatternInv
<1>2. CASE Study /\ step = "none" /\ UNCHANGED findVars
  <2>1. UNCHANGED <<execVars, step, errorcode>> /\ at = "ended" /\ errorcode = 0 /\ at' = "studied"
    BY <1>2 DEF Study, findVars
  <2>2. phase = "idle" /\ phase' = phase
    BY <1>2, <2>1 DEF PatternInv, execVars, searchVars
  <2>. QED BY <1>2, <2>1, <2>2, MachineStays DEF PatternInv
<1>3. CASE CallExec /\ step = "none" /\ UNCHANGED findVars
  <2>1. UNCHANGED <<at, errorcode, step>> /\ at = "studied"
    BY <1>3 DEF CallExec, compileVars, findVars
  <2>2. MachineInv'
    BY <1>3, CallHasNoFrames DEF CallExec
  <2>. QED BY <1>3, <2>1, <2>2 DEF PatternInv
<1>4. CASE Execute /\ UNCHANGED findVars
  <2>1. UNCHANGED <<at, errorcode, step, re>> /\ Exec
    BY <1>4 DEF Execute, compileVars, findVars
  <2>2. phase # "idle"
    BY <2>1 DEF Exec, Call, Scan, Match, MatchReturned
  <2>3. MachineInv'
    BY <2>1, <2>2, ExecKeepsCode, PatternIsWellFormed
  <2>. QED BY <2>1, <2>2, <2>3 DEF PatternInv
<1>5. CASE Begin
  <2>1. UNCHANGED <<at, errorcode, re, execVars, phase>> /\ phase = "idle" /\ at = "ended"
        /\ step' \in {"next", "ended"} /\ (step' = "next" => errorcode = 0)
    BY <1>5 DEF Begin, compileVars, execVars, searchVars
  <2>. QED BY <2>1, MachineStays DEF PatternInv
<1>6. CASE FindInString
  <2>1. UNCHANGED <<at, errorcode, re>> /\ at = "ended" /\ errorcode = 0
    BY <1>6 DEF FindInString, compileVars, PatternInv
  <2>2. CASE pcre_exec(FindJob) /\ step' = "finding"
    BY <2>1, <2>2, CallHasNoFrames DEF PatternInv
  <2>3. CASE UNCHANGED execVars /\ step' = "ended"
    BY <2>1, <2>3, MachineStays DEF PatternInv, execVars, searchVars
  <2>. QED BY <1>6, <2>2, <2>3 DEF FindInString, Replies
<1>7. CASE FindReturns \/ Deliver
  <2>1. UNCHANGED <<at, errorcode, re, execVars, phase>> /\ step \in {"finding", "deliver"}
    BY <1>7 DEF FindReturns, Deliver, compileVars, execVars, searchVars
  <2>2. step' \in {"next", "deliver", "ended"}
    BY <1>7 DEF FindReturns, Deliver, Replies, MatchFound
  <2>. QED BY <2>1, <2>2, MachineStays DEF PatternInv
<1>8. CASE UNCHANGED <<vars, findVars>>
  <2>1. UNCHANGED <<at, errorcode, re, execVars, phase, step>>
    BY <1>8 DEF vars, compileVars, findVars, execVars, searchVars
  <2>. QED BY <2>1, MachineStays DEF PatternInv
<1>. QED BY <1>1, <1>2, <1>3, <1>4, <1>5, <1>6, <1>7, <1>8 DEF NextFind, Enumerate

\* match() and its callers stay in the code, for every well-formed pattern,
\* every subject and every call.
THEOREM MatchStaysInCode == SpecFind /\ []CodeIsWellFormed => []StaysInCode
<1>1. Init /\ InitFind => CountsInv /\ PatternInv /\ MachineInv
  BY InitFinds DEF FindInv, Init, C!InitCompile, InitExec, InitFind, PatternInv, MachineInv
<1>2. CountsInv /\ PatternInv /\ MachineInv /\ CodeIsWellFormed /\ [NextFind]_<<vars, findVars>>
        => (PatternInv /\ MachineInv)'
  BY NextKeepsCode
<1>3. CountsInv /\ [NextFind]_<<vars, findVars>> => CountsInv'
  BY NextKeepsTheCounts
<1>4. MachineInv => StaysInCode
  BY DEF MachineInv, FramesInv, AllCalling, Calling, Framed, StaysInCode
<1>. QED BY <1>1, <1>2, <1>3, <1>4, PTL DEF SpecFind
=============================================================================
