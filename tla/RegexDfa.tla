------------------------------ MODULE RegexDfa ------------------------------
(***************************************************************************)
(* The other way to match, pcre_dfa_exec, on a subject that comes in        *)
(* segments: after a partial match the application calls again, with        *)
(* PCRE_DFA_RESTART, the next segment and the same working space, in which  *)
(* the states the match had reached are kept.  It does nothing between the  *)
(* calls, so that a call is a step.                                         *)
(***************************************************************************)
EXTENDS Regex, PcreDfa

CONSTANTS
  DfaCalls(_),     \* what is asked of a compiled pattern
  Segments,        \* what may come next
  RestartOptions,  \* the options a match is continued with
  MaxText          \* bound on the length of all the segments

VARIABLES
  asked,   \* the arguments of the last call
  answer,  \* its results, with the working space
  told,    \* the segments put together
  origin   \* where the partial match began in them

dfaVars == <<asked, answer, told, origin>>

Unasked == [rc |-> "none", count |-> -1, offsets |-> <<>>, saved |-> <<>>]

InitDfa == asked = NoJob /\ answer = Unasked /\ told = <<>> /\ origin = 0

\* A call with the arguments j, when text is what the segments make.
Answers(j, text) ==
  /\ asked' = j /\ told' = text
  /\ answer' = pcre_dfa_exec(re, j)
  /\ UNCHANGED vars

CallDfa ==
  /\ at = "studied" /\ answer = Unasked /\ phase = "idle"
  /\ \E j \in DfaCalls(source) : Answers(j, j.subject)
  /\ origin' = IF answer'.rc = "PARTIAL" THEN answer'.offsets[1][1] ELSE 0

Restarted(segment, options) ==
  [asked EXCEPT !.subject = segment, !.start_offset = 0, !.saved = answer.saved,
                !.options = options \cup {"DFA_RESTART"}]

RestartDfa ==
  /\ answer.rc = "PARTIAL"
  /\ \E segment \in Segments, options \in RestartOptions :
       /\ Len(told) + Len(segment) <= MaxText
       /\ Answers(Restarted(segment, options), told \o segment)
  /\ origin' = origin
=============================================================================
