----------------------------- MODULE LineSource -----------------------------
(***************************************************************************)
(* What the readers of FSFile promise (FSFile.h): a text is read line by   *)
(* line, each line up to the next separator, which is dropped, or up to    *)
(* the end; nil when there is nothing left.  How the text reaches the      *)
(* program, in chunks and through a buffer, is not to be seen.             *)
(***************************************************************************)
EXTENDS Naturals, Sequences, SequencesExt

CONSTANTS
  Byte,   \* what a text is made of
  Sep,    \* the separators asked for, sequences of bytes
  Nil

VARIABLES
  text,   \* what the file holds
  rest,   \* what is left to read
  sep,    \* the separator of the last call
  line    \* what it returned

lineVars == <<text, rest, sep, line>>

\* Where separator s begins in t, and the text before and after its first place
Places(s, t) == {i \in 1..(Len(t) - Len(s) + 1) : SubSeq(t, i, i + Len(s) - 1) = s}
FirstPlace(s, t) == CHOOSE i \in Places(s, t) : \A j \in Places(s, t) : i <= j
Before(s, t) == SubSeq(t, 1, FirstPlace(s, t) - 1)
After(s, t) == SubSeq(t, FirstPlace(s, t) + Len(s), Len(t))

From(t, n) == SubSeq(t, n + 1, Len(t))   \* t without its first n bytes

Ask == sep' \in Sep /\ UNCHANGED <<text, rest, line>>

ReadLine ==
  /\ IF Places(sep, rest) # {}
     THEN line' = Before(sep, rest) /\ rest' = After(sep, rest)
     ELSE line' = (IF rest # <<>> THEN rest ELSE Nil) /\ rest' = <<>>
  /\ UNCHANGED <<text, sep>>

\* The text grows at its end
Grow ==
  /\ IsPrefix(text, text') /\ rest' = rest \o From(text', Len(text))
  /\ UNCHANGED <<sep, line>>

\* The file is opened, or the file pointer is moved, or both are changed
Reposition ==
  /\ \E n \in 0..Len(text') : rest' = From(text', n)
  /\ UNCHANGED <<sep, line>>

\* Something is printed over, or after, n bytes that were not read yet
Overwrite ==
  /\ \E k, n \in 0..Len(rest) : rest' = SubSeq(rest, 1, k) \o From(rest, k + n)
  /\ UNCHANGED <<sep, line>>

LineInit == rest = text /\ sep \in Sep /\ line = Nil

LineNext == Ask \/ ReadLine \/ Grow \/ Reposition \/ Overwrite

LineSpec == LineInit /\ [][LineNext]_lineVars
=============================================================================
