---------------------------- MODULE ScriptLoading ----------------------------
(***************************************************************************)
(* import: and loadFile (FSSystemUtility.m, Functions.m): which files are  *)
(* run, and run again, when scripts import each other, fail half-way, and  *)
(* are edited by other processes at any moment.  loadFile has a cache of   *)
(* its own, loadedFiles, which nothing fills and which decides nothing.    *)
(*                                                                         *)
(* Of the file system it is assumed that a file put in the place of        *)
(* another is newer, by the clock that dates files.                        *)
(***************************************************************************)
EXTENDS Integers, Sequences

CONSTANTS
  Directory,      \* library directories
  Name,           \* names that are imported, with .fs added
  Absolute,       \* those that begin with a slash
  Text,           \* contents of files
  Imports,        \* text |-> the imports it makes, in order: [name, how]
  Holds,          \* path |-> the texts that are ever put there
  Unterminated,   \* texts whose last line does not end with a newline
  Wide,           \* a 64-bit build: NSNotFound becomes -1 as an int
  Libraries,      \* the directories initLibraries lists, in order
  MaxLibraries,   \* bound on the directories, with those added
  MaxDate,        \* bound on the dates of files
  Nil             \* no file

How == {"import", "force"}
Path == Directory \X Name

ASSUME LoadingAssumption ==
  /\ Imports \in [Text -> Seq([name : Name, how : How])]
  /\ Holds \in [Path -> SUBSET Text]
  /\ Absolute \subseteq Name /\ Unterminated \subseteq Text /\ Wide \in BOOLEAN
  /\ Libraries \in Seq(Directory)
  /\ MaxLibraries \in Nat /\ Len(Libraries) <= MaxLibraries
  /\ MaxDate \in Nat \ {0}

VARIABLES
  disk,           \* path |-> the file there: [date, text], or Nil
  edited,         \* paths of files edited in place, which keeps their date
  now,            \* date of the newest file
  libraries,      \* libraryLocations
  fileModTimes,   \* path |-> its date when last loaded, 0 if it never was
  loaded,         \* path |-> the file the interpreter last ran from it, or Nil
  phase,          \* "start", "prompt" (no script given), "script"
  frames          \* loads in progress, the outermost first

outsideVars == <<disk, edited, now>>
loadingVars == <<libraries, fileModTimes, loaded, phase, frames>>
scriptVars == <<outsideVars, loadingVars>>

\* The date is that of the file's creation, which getFileModTime asks for
File == [date : 1..MaxDate, text : Text]

\* A load: what is loaded and why; where import: or loadFile is; the date that
\* was recorded; the file as read; the next of its imports
Frame ==
  [path : Path, how : How \cup {"main"}, at : {"check", "read", "recheck", "run", "locate"},
   date : 0..MaxDate, file : File \cup {Nil}, next : Nat \ {0}]

Loading == frames # <<>>
Top == frames[Len(frames)]
Below == SubSeq(frames, 1, Len(frames) - 1)
Becomes(top) == frames' = [frames EXCEPT ![Len(frames)] = top]

\* loadFile looks up the line of an error.  If that is a last line without a
\* newline, and -1 is the place of a newline not found, it never ends.
Unlocatable(load) == Wide /\ load.file.text \in Unterminated

\* An exception unwinds the scripts that wait, up to one that catches it
\* (onException:), the prompt or main; every loadFile on the way looks up the
\* line in its own script, and throws again
Raise(waiting) ==
  \E k \in 0..Len(waiting) :
    \/ frames' = SubSeq(waiting, 1, k)
    \/ /\ k > 0 /\ Unlocatable(waiting[k])
       /\ frames' = [SubSeq(waiting, 1, k) EXCEPT ![k].at = "locate"]

-----------------------------------------------------------------------------
(* import:force:                                                           *)

New(p, how, at) ==
  [path |-> p, how |-> how, at |-> at, date |-> 0, file |-> Nil, next |-> 1]

\* The directories that have the file; an absolute name is looked for in none
Candidates(n) ==
  {i \in DOMAIN libraries : n \notin Absolute /\ disk[<<libraries[i], n>>] # Nil}
Foremost(i, S) == i \in S /\ \A j \in S : i <= j

Search(n, how, waiting) ==
  \/ Candidates(n) = {} /\ Raise(waiting)
  \/ \E i \in DOMAIN libraries :
       /\ Foremost(i, Candidates(n))
       /\ frames' = Append(waiting, New(<<libraries[i], n>>, how, "check"))

ImportFromPrompt(n, how) ==
  /\ phase = "prompt" /\ ~Loading
  /\ Search(n, how, <<>>)
  /\ UNCHANGED <<outsideVars, libraries, fileModTimes, loaded, phase>>

\* Mutant: imports are made as soon as the script is read
ImportEarly ==
  /\ Loading /\ Top.at \in {"recheck", "run"}
  /\ LET statements == Imports[Top.file.text] IN
       /\ Top.next <= Len(statements)
       /\ Search(statements[Top.next].name, statements[Top.next].how,
                 Append(Below, [Top EXCEPT !.next = @ + 1]))
  /\ UNCHANGED <<outsideVars, libraries, fileModTimes, loaded, phase>>

ImportFromScript ==
  /\ Loading /\ Top.at = "run"
  /\ LET statements == Imports[Top.file.text] IN
       /\ Top.next <= Len(statements)
       /\ Search(statements[Top.next].name, statements[Top.next].how,
                 Append(Below, [Top EXCEPT !.next = @ + 1]))
  /\ UNCHANGED <<outsideVars, libraries, fileModTimes, loaded, phase>>

\* Mutant: the date is not recorded before the load
CheckModTimeLate ==
  /\ Loading /\ Top.at = "check"
  /\ LET p == Top.path IN
       IF disk[p] = Nil THEN Raise(Below)
       ELSE IF Top.how = "force" \/ fileModTimes[p] < disk[p].date
       THEN Becomes([Top EXCEPT !.at = "read", !.date = disk[p].date])
       ELSE frames' = Below
  /\ UNCHANGED <<outsideVars, libraries, fileModTimes, loaded, phase>>

\* The date decides, and is recorded before the file is loaded
CheckModTime ==
  /\ Loading /\ Top.at = "check"
  /\ LET p == Top.path IN
       \/ /\ disk[p] = Nil
          /\ Raise(Below)
          /\ UNCHANGED fileModTimes
       \/ /\ disk[p] # Nil
          /\ Top.how = "force" \/ fileModTimes[p] < disk[p].date
          /\ fileModTimes' = [fileModTimes EXCEPT ![p] = disk[p].date]
          /\ Becomes([Top EXCEPT !.at = "read", !.date = disk[p].date])
       \/ /\ disk[p] # Nil
          /\ Top.how # "force" /\ fileModTimes[p] >= disk[p].date
          /\ frames' = Below
          /\ UNCHANGED fileModTimes
  /\ UNCHANGED <<outsideVars, libraries, loaded, phase>>

AddLibrary(d) ==
  /\ IF Loading THEN Top.at = "run" ELSE phase = "prompt"
  /\ Len(libraries) < MaxLibraries
  /\ libraries' = Append(libraries, d)
  /\ UNCHANGED <<outsideVars, fileModTimes, loaded, phase, frames>>

-----------------------------------------------------------------------------
(* loadFile                                                                *)

\* Mutant: the error of reading is not raised
ReadFileWaits ==
  /\ Loading /\ Top.at = "read"
  /\ disk[Top.path] # Nil
  /\ Becomes([Top EXCEPT !.at = "recheck", !.file = disk[Top.path]])
  /\ UNCHANGED <<outsideVars, libraries, fileModTimes, loaded, phase>>

\* The file is read; if it is gone, loadFile throws
ReadFile ==
  /\ Loading /\ Top.at = "read"
  /\ IF disk[Top.path] = Nil THEN Raise(Below)
     ELSE Becomes([Top EXCEPT !.at = "recheck", !.file = disk[Top.path]])
  /\ UNCHANGED <<outsideVars, libraries, fileModTimes, loaded, phase>>

\* Mutant: the date of this moment is recorded
ExecuteRecords ==
  /\ Loading /\ Top.at = "recheck"
  /\ disk[Top.path] # Nil
  /\ loaded' = [loaded EXCEPT ![Top.path] = Top.file]
  /\ fileModTimes' = [fileModTimes EXCEPT ![Top.path] = disk[Top.path].date]
  /\ Becomes([Top EXCEPT !.at = "run"])
  /\ UNCHANGED <<outsideVars, libraries, phase>>

\* getFileModTime again, which throws if the file is gone by now; then the
\* script begins
Execute ==
  /\ Loading /\ Top.at = "recheck"
  /\ \/ /\ disk[Top.path] = Nil
        /\ Raise(Below)
        /\ UNCHANGED loaded
     \/ /\ disk[Top.path] # Nil
        /\ loaded' = [loaded EXCEPT ![Top.path] = Top.file]
        /\ Becomes([Top EXCEPT !.at = "run"])
  /\ UNCHANGED <<outsideVars, libraries, fileModTimes, phase>>

\* The script comes to its end
ScriptEnds ==
  /\ Loading /\ Top.at = "run"
  /\ Top.next > Len(Imports[Top.file.text])
  /\ frames' = Below
  /\ UNCHANGED <<outsideVars, libraries, fileModTimes, loaded, phase>>

\* or, anywhere, to an error, which it may catch itself
ScriptFails ==
  /\ Loading /\ Top.at = "run"
  /\ Raise(frames)
  /\ UNCHANGED <<outsideVars, libraries, fileModTimes, loaded, phase>>

-----------------------------------------------------------------------------
(* main, and the outside                                                   *)

\* fscript without a script, and with one, which loadFile loads
StartPrompt ==
  /\ phase = "start" /\ phase' = "prompt"
  /\ UNCHANGED <<outsideVars, libraries, fileModTimes, loaded, frames>>

StartScript(p) ==
  /\ phase = "start" /\ phase' = "script"
  /\ frames' = <<New(p, "main", "read")>>
  /\ UNCHANGED <<outsideVars, libraries, fileModTimes, loaded>>

\* A file is made, or replaced by a new one; edited in place; removed
Put(p, t) ==
  /\ now < MaxDate
  /\ now' = now + 1
  /\ disk' = [disk EXCEPT ![p] = [date |-> now + 1, text |-> t]]
  /\ edited' = edited \ {p}
  /\ UNCHANGED loadingVars

EditInPlace(p, t) ==
  /\ disk[p] # Nil /\ disk[p].text # t
  /\ disk' = [disk EXCEPT ![p].text = t]
  /\ edited' = edited \cup {p}
  /\ UNCHANGED <<now, loadingVars>>

Remove(p) ==
  /\ disk[p] # Nil
  /\ disk' = [disk EXCEPT ![p] = Nil]
  /\ edited' = edited \ {p}
  /\ UNCHANGED <<now, loadingVars>>

-----------------------------------------------------------------------------
(* The specification                                                       *)

LoadingInit ==
  /\ disk = [p \in Path |-> Nil]
  /\ edited = {}
  /\ now = 0
  /\ libraries = Libraries
  /\ fileModTimes = [p \in Path |-> 0]
  /\ loaded = [p \in Path |-> Nil]
  /\ phase = "start"
  /\ frames = <<>>

\* What the thread does on its own once a load began
Proceed ==
  ImportFromScript \/ CheckModTime \/ ReadFile \/ Execute \/ ScriptEnds \/ ScriptFails

Outside ==
  \E p \in Path :
    Remove(p) \/ \E t \in Holds[p] : Put(p, t) \/ EditInPlace(p, t)

LoadingNext ==
  \/ Proceed
  \/ Outside
  \/ \E n \in Name, how \in How : ImportFromPrompt(n, how)
  \/ \E d \in Directory : AddLibrary(d)
  \/ StartPrompt
  \/ \E p \in Path : StartScript(p)

LoadingSpec == LoadingInit /\ [][LoadingNext]_scriptVars /\ WF_scriptVars(Proceed)

-----------------------------------------------------------------------------
(* Properties                                                              *)

\* Every variable has its type, and only the innermost load is before its
\* script.
LoadingTypeOK ==
  /\ disk \in [Path -> File \cup {Nil}]
  /\ edited \subseteq Path
  /\ now \in 0..MaxDate
  /\ libraries \in Seq(Directory) /\ Len(libraries) <= MaxLibraries
  /\ fileModTimes \in [Path -> 0..MaxDate]
  /\ loaded \in [Path -> File \cup {Nil}]
  /\ phase \in {"start", "prompt", "script"}
  /\ frames \in Seq(Frame)
  /\ \A i \in 1..Len(frames) :
       /\ i < Len(frames) => frames[i].at = "run"
       /\ frames[i].at \in {"recheck", "run", "locate"} <=> frames[i].file # Nil

Pending(p) == Loading /\ Top.path = p /\ Top.at \in {"read", "recheck"}

\* import: would pass over the file, because its date is the recorded one
PassedOver(p) == disk[p] # Nil /\ fileModTimes[p] >= disk[p].date /\ ~Pending(p)

\* A file passed over is the one that was last run from there, with the text it
\* has now: no replacement slips in between the check of the date, the reading
\* and the running, and no load that was cut short hides one.  A file edited in
\* place is excepted, and passed over with its new text: it keeps its date of
\* creation, which the code asks for (Functions.m:14), although a file is to be
\* loaded again "if it has changed" (FSSystemUtility.h:44).
NothingNewSkipped ==
  \A p \in Path : PassedOver(p) =>
    /\ loaded[p] # Nil /\ loaded[p].date = disk[p].date
    /\ p \notin edited => loaded[p] = disk[p]

\* Files that import each other: one that is being loaded is not loaded once
\* more by import:, but for a newer one that took its place.  (The main script
\* is not recorded: it is loaded again if it is imported.)
NotLoadedWithinItself ==
  \A i, j \in 1..Len(frames) :
    /\ i < j /\ frames[i].path = frames[j].path
    /\ frames[i].how # "main" /\ frames[j].how = "import" /\ frames[j].at # "check"
    => frames[i].date < frames[j].date

\* Therefore every load comes to an end, or to an error it cannot locate, unless
\* it forces itself again and again or its files are replaced for ever.
LoadsEnd == Loading ~> (~Loading \/ Top.at = "locate")
=============================================================================
