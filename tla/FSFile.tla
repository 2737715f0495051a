------------------------------- MODULE FSFile -------------------------------
(***************************************************************************)
(* The file object of fscript (FSFile.m): line reading through a buffer,   *)
(* sustainBuffer, on top of an NSFileHandle, next to the methods of that   *)
(* handle.  One file on disk, one object at a time that is open on it, and *)
(* other processes that append to the file.  The calls are not concurrent, *)
(* but the others may append between two chunks of one call.  A call that  *)
(* throws, as reading does on a handle for writing, changes nothing and    *)
(* has no action.                                                          *)
(***************************************************************************)
EXTENDS Naturals, Sequences, FiniteSets, SequencesExt

CONSTANTS
  Byte,       \* what files hold
  Nul,        \* the byte 0, which ends a C string
  Lead, Cont, \* first and second byte of a character of two bytes
  Sep,        \* the separators asked for, sequences of bytes
  Chunk,      \* bytes read at once, 99 in the code
  Words,      \* what is printed
  MaxText,    \* bound on the file
  Nil

\* Bytes that are whole characters
IsUTF8(t) ==
  \A i \in 1..Len(t) :
    /\ t[i] = Lead => i < Len(t) /\ t[i + 1] = Cont
    /\ t[i] = Cont => i > 1 /\ t[i - 1] = Lead

\* A separator is an NSString
ASSUME FSFileAssumption ==
  /\ Chunk \in Nat \ {0} /\ MaxText \in Nat
  /\ Nil \notin Seq(Byte) \cup Seq(Seq(Byte))
  /\ Sep \subseteq Seq(Byte) \ {<<>>} /\ \A s \in Sep : IsUTF8(s)
  /\ Words \subseteq Seq(Byte)

VARIABLES
  data,          \* the file, Nil if there is none
  access,        \* what the handle is good for: "closed", "<", ">" or "+"
  offset,        \* of the handle
  sustainBuffer, \* text read and not returned yet
  pc,            \* where readlnWithSeparator: is
  sep,           \* the separator it was called with
  line,          \* what it returned last
  lines,         \* the lines that readlines has so far, Nil in a plain readln
  begin          \* ghost: what there was to read when readlines began

fileVars == <<data, access, offset, sustainBuffer, pc, sep, line, lines, begin>>
callVars == <<pc, sep, line, lines, begin>>

LS == INSTANCE LineSource WITH
        text <- IF data = Nil THEN <<>> ELSE data,
        rest <- sustainBuffer \o (IF data = Nil THEN <<>> ELSE SubSeq(data, offset + 1, Len(data)))

Min2(m, n) == IF m < n THEN m ELSE n
Unread == SubSeq(data, offset + 1, Len(data))
Pending == sustainBuffer \o Unread

\* A file after w is written at n, and the bytes that C's string functions see
WriteAt(n, w) == SubSeq(data, 1, n) \o w \o LS!From(data, n + Len(w))
CString(t) == IF LS!Places(<<Nul>>, t) = {} THEN t ELSE LS!Before(<<Nul>>, t)

\* stringWithCString:encoding: gives nil for bytes that are not UTF-8
Decoded(t) == IF IsUTF8(t) THEN t ELSE Nil
DecodedOrNothing(t) == IF IsUTF8(t) THEN t ELSE <<>>

\* What readlnWithSeparator: takes to be behind the separator in a chunk: it
\* skips as many bytes as the separator has characters
Length(s) == Cardinality({i \in 1..Len(s) : s[i] # Cont})
Behind(s, t) == LS!From(t, Len(LS!Before(s, t)) + Length(s))

CanRead == access \in {"<", "+"}
CanWrite == access \in {">", "+"}
Idle == pc = "idle"

-----------------------------------------------------------------------------
(* Opening                                                                 *)

Opened(kind) ==
  /\ access' = kind /\ offset' = 0 /\ sustainBuffer' = <<>>
  /\ UNCHANGED callVars

\* open: makes the file if it is missing and opens it for updating
Open == Idle /\ data' = (IF data = Nil THEN <<>> ELSE data) /\ Opened("+")

\* open:mode: with < or <+, which do not create
OpenExisting ==
  /\ Idle /\ data # Nil /\ UNCHANGED data
  /\ \E kind \in {"<", "+"} : Opened(kind)

\* open:mode: with >, >>, >+ or >>+, which throw if the file is there; the file
\* they create is empty, so that neither truncating nor seeking changes it
OpenCreated ==
  /\ Idle /\ data = Nil /\ data' = <<>>
  /\ \E kind \in {">", "+"} : Opened(kind)

\* Mutant: the buffer is kept
CloseFileOnly ==
  /\ Idle /\ access # "closed"
  /\ access' = "closed" /\ offset' = 0
  /\ UNCHANGED <<data, sustainBuffer, callVars>>

CloseFile ==
  /\ Idle /\ access # "closed"
  /\ access' = "closed" /\ offset' = 0 /\ sustainBuffer' = <<>>
  /\ UNCHANGED <<data, callVars>>

-----------------------------------------------------------------------------
(* Reading lines                                                           *)

Readln(s) ==
  /\ Idle /\ CanRead
  /\ pc' = "buffer" /\ sep' = s /\ lines' = Nil /\ begin' = Nil
  /\ UNCHANGED <<data, access, offset, sustainBuffer, line>>

Readlines(s) ==
  /\ Idle /\ CanRead
  /\ pc' = "buffer" /\ sep' = s /\ lines' = <<>> /\ begin' = Pending
  /\ UNCHANGED <<data, access, offset, sustainBuffer, line>>

\* Mutant: readlines stops at an empty line
ReturnUnlessEmpty(l) ==
  /\ line' = l
  /\ pc' = (IF lines # Nil /\ l \notin {Nil, <<>>} THEN "buffer" ELSE "idle")
  /\ lines' = (IF lines # Nil /\ l \notin {Nil, <<>>} THEN Append(lines, l) ELSE lines)

\* A readln returns l, to the script or to readlines, which calls it again
Return(l) ==
  /\ line' = l
  /\ pc' = (IF lines # Nil /\ l # Nil THEN "buffer" ELSE "idle")
  /\ lines' = (IF lines # Nil /\ l # Nil THEN Append(lines, l) ELSE lines)

\* Mutant: the buffer is not searched
SearchNothing ==
  /\ pc = "buffer" /\ pc' = "chunk"
  /\ UNCHANGED <<data, access, offset, sustainBuffer, sep, line, lines, begin>>

\* The separator is looked for in the buffer
SearchBuffer ==
  /\ pc = "buffer"
  /\ IF LS!Places(sep, sustainBuffer) # {}
     THEN /\ Return(LS!Before(sep, sustainBuffer))
          /\ sustainBuffer' = LS!After(sep, sustainBuffer)
     ELSE pc' = "chunk" /\ UNCHANGED <<line, lines, sustainBuffer>>
  /\ UNCHANGED <<data, access, offset, sep, begin>>

\* A chunk is read; the separator is looked for in it alone
ReadChunk ==
  /\ pc = "chunk" /\ Unread # <<>>
  /\ LET n == Min2(Chunk, Len(Unread))
         chunk == CString(SubSeq(Unread, 1, n))
     IN /\ offset' = offset + n
        /\ IF LS!Places(sep, chunk) # {}
           THEN /\ Return(Decoded(sustainBuffer \o LS!Before(sep, chunk)))
                /\ sustainBuffer' = DecodedOrNothing(Behind(sep, chunk))
           ELSE /\ sustainBuffer' = sustainBuffer \o DecodedOrNothing(chunk)
                /\ UNCHANGED <<pc, line, lines>>
  /\ UNCHANGED <<data, access, sep, begin>>

\* Mutant: with nothing to return it tries again
EndOfFileRetries ==
  /\ pc = "chunk" /\ Unread = <<>>
  /\ IF sustainBuffer # <<>> THEN Return(sustainBuffer)
     ELSE pc' = "buffer" /\ UNCHANGED <<line, lines>>
  /\ sustainBuffer' = <<>>
  /\ UNCHANGED <<data, access, offset, sep, begin>>

\* There are no more chunks: the buffer is the last line
EndOfFile ==
  /\ pc = "chunk" /\ Unread = <<>>
  /\ Return(IF sustainBuffer # <<>> THEN sustainBuffer ELSE Nil)
  /\ sustainBuffer' = <<>>
  /\ UNCHANGED <<data, access, offset, sep, begin>>

-----------------------------------------------------------------------------
(* Printing, and the methods of NSFileHandle                               *)

\* print:, println:, newln and printf:withValues: leave the buffer alone
PrintObject(w) ==
  /\ Idle /\ CanWrite /\ offset + Len(w) <= MaxText
  /\ data' = WriteAt(offset, w) /\ offset' = offset + Len(w)
  /\ UNCHANGED <<access, sustainBuffer, callVars>>

\* The wrappers drop it: writeData:, readDataOfLength: and the other reads,
\* synchronizeFile, and the two seeks with reset
WriteData(w) ==
  /\ Idle /\ CanWrite /\ offset + Len(w) <= MaxText
  /\ data' = WriteAt(offset, w) /\ offset' = offset + Len(w)
  /\ sustainBuffer' = <<>>
  /\ UNCHANGED <<access, callVars>>

ReadData(n) ==
  /\ Idle /\ CanRead
  /\ offset' = Min2(offset + n, Len(data)) /\ sustainBuffer' = <<>>
  /\ UNCHANGED <<data, access, callVars>>

SeekToFileOffset(n) ==
  /\ Idle /\ access # "closed"
  /\ offset' = n /\ sustainBuffer' = <<>>
  /\ UNCHANGED <<data, access, callVars>>

Reset == SeekToFileOffset(0)

TruncateFileAtOffset(n) ==
  /\ Idle /\ CanWrite
  /\ data' = SubSeq(data, 1, n) /\ offset' = n /\ sustainBuffer' = <<>>
  /\ UNCHANGED <<access, callVars>>

\* Another process appends a byte, at any time
Grow(b) ==
  /\ data # Nil /\ Len(data) < MaxText
  /\ data' = Append(data, b)
  /\ begin' = Nil
  /\ UNCHANGED <<access, offset, sustainBuffer, pc, sep, line, lines>>

-----------------------------------------------------------------------------

FSFileInit ==
  /\ data \in {Nil} \cup BoundedSeq(Byte, MaxText)
  /\ access = "closed" /\ offset = 0 /\ sustainBuffer = <<>>
  /\ pc = "idle" /\ sep \in Sep /\ line = Nil /\ lines = Nil /\ begin = Nil

Reading == SearchBuffer \/ ReadChunk \/ EndOfFile

FSFileNext ==
  \/ Open \/ OpenExisting \/ OpenCreated \/ CloseFile
  \/ \E s \in Sep : Readln(s) \/ Readlines(s)
  \/ Reading
  \/ \E w \in Words : PrintObject(w) \/ WriteData(w)
  \/ Reset
  \/ data # Nil /\ \E n \in 0..Len(data) :
       ReadData(n) \/ SeekToFileOffset(n) \/ TruncateFileAtOffset(n)
  \/ \E b \in Byte : Grow(b)

\* A call that began is carried on by the script's thread
FSFileSpec == FSFileInit /\ [][FSFileNext]_fileVars /\ WF_fileVars(Reading)
-----------------------------------------------------------------------------
(* Properties                                                              *)

\* Every variable has its type; only a handle that can read has text in its
\* buffer or a call going on, and the buffer never holds half a character.
FileTypeOK ==
  /\ data \in Seq(Byte) \cup {Nil}
  /\ access \in {"closed", "<", ">", "+"} /\ (data = Nil => access = "closed")
  /\ offset \in 0..(IF data = Nil THEN 0 ELSE Len(data))
  /\ sustainBuffer \in Seq(Byte) /\ IsUTF8(sustainBuffer)
  /\ pc \in {"idle", "buffer", "chunk"} /\ sep \in Sep
  /\ line \in Seq(Byte) \cup {Nil} /\ lines \in Seq(Seq(Byte)) \cup {Nil}
  /\ sustainBuffer # <<>> \/ pc # "idle" => CanRead

\* readlnWithSeparator: reads a text line by line, whatever the chunks, the calls
\* before it and the bytes that others append in the middle of it: nothing is
\* lost, repeated or returned out of order, and nil means the end.
ImplementsLines == LS!LineSpec

\* The lines that readlines collects, with the separators between them, and what
\* is still to be read are what there was to read when it began (FSFile.h: "all
\* the lines of the file").
Joined == FlattenSeq([i \in 1..Len(lines) |-> lines[i] \o sep])

ReadlinesSplits ==
  [][pc # "idle" /\ begin' # Nil =>
       /\ Joined' \o Pending' \in {begin, begin \o sep}
       /\ pc' = "idle" => Pending' = <<>>]_fileVars

\* Every readln and every readlines comes to an end, also at the end of a file
\* that lacks the last separator.
CallsEnd == pc # "idle" ~> pc = "idle"

-----------------------------------------------------------------------------
(* What the documentation says, and the code does not do                   *)

\* "Reads in data until either the specified separator (which can be a single
\* character or a string) is encountered" (FSFile.h): no line contains it.
StopsAtSeparator == Idle /\ line # Nil => LS!Places(sep, line) = {}
=============================================================================
