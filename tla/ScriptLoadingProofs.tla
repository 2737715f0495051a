------------------------- MODULE ScriptLoadingProofs -------------------------
(***************************************************************************)
(* What import: promises of files and their dates, for any files, scripts,  *)
(* libraries and other processes.  The loads in progress are described as   *)
(* stacks: a stack that waits is one of running scripts, and every step     *)
(* leaves such a stack, or one with another load on top.                    *)
(***************************************************************************)
EXTENDS ScriptLoading, SequenceTheorems, TLAPS

\* A load has its file from the moment it has been read.
Read(load) == load.at \in {"recheck", "run", "locate"} <=> load.file # Nil

TypedStack(st) ==
  /\ st \in Seq(Frame)
  /\ \A i \in 1..Len(st) : (i < Len(st) => st[i].at = "run") /\ Read(st[i])

\* The date of a load is recorded, or one of a later load of the same file is.
RecordedIn(st, times) ==
  \A i \in 1..Len(st) :
    st[i].how # "main" /\ st[i].at # "check" => st[i].date <= times[st[i].path]

\* A file that import: loads while it is being loaded.
Overlap(st, i, j) ==
  /\ i < j /\ st[i].path = st[j].path
  /\ st[i].how # "main" /\ st[j].how = "import" /\ st[j].at # "check"

NestedIn(st) ==
  \A i, j \in 1..Len(st) : Overlap(st, i, j) => st[i].date < st[j].date

\* A stack of loads; one on which another load can be put.
StackInv(st, times) == TypedStack(st) /\ RecordedIn(st, times) /\ NestedIn(st)

Waits(st, times) ==
  StackInv(st, times) /\ \A i \in 1..Len(st) : st[i].at = "run"

\* The outermost k loads of a stack.
LEMMA Prefix ==
  ASSUME NEW st \in Seq(Frame), NEW k \in 0..Len(st)
  PROVE  /\ SubSeq(st, 1, k) \in Seq(Frame)
         /\ Len(SubSeq(st, 1, k)) = k
         /\ \A i \in 1..k : SubSeq(st, 1, k)[i] = st[i]
<1>1. Len(st) \in Nat /\ k \in Nat
  BY LenProperties
<1>2. \A i \in 1..k : st[i] \in Frame
  BY <1>1, ElementOfSeq
<1>3. /\ SubSeq(st, 1, k) \in Seq(Frame)
      /\ Len(SubSeq(st, 1, k)) = IF 1 <= k THEN k - 1 + 1 ELSE 0
      /\ \A i \in 1..(k - 1 + 1) : SubSeq(st, 1, k)[i] = st[1 + i - 1]
  BY <1>1, <1>2, SubSeqProperties
<1> QED
  <2> DEFINE t == SubSeq(st, 1, k)
  <2>1. t \in Seq(Frame) /\ Len(t) = (IF 1 <= k THEN k - 1 + 1 ELSE 0)
    BY <1>3
  <2>2. \A i \in 1..(k - 1 + 1) : t[i] = st[1 + i - 1]
    BY <1>3
  <2> HIDE DEF t
  <2>3. Len(t) = k
    BY <1>1, <2>1
  <2>4. \A i \in 1..k : t[i] = st[i]
    BY <1>1, <2>2
  <2> QED BY <2>1, <2>3, <2>4 DEF t

\* Below the innermost load all scripts wait.
LEMMA BelowWaits ==
  ASSUME NEW times, StackInv(frames, times), Loading
  PROVE  /\ Waits(Below, times)
         /\ Len(frames) \in Nat \ {0} /\ Len(Below) = Len(frames) - 1
         /\ \A i \in 1..Len(Below) : Below[i] = frames[i]
         /\ Top \in Frame /\ Read(Top)
<1>1. frames \in Seq(Frame) /\ Len(frames) \in Nat \ {0}
  BY EmptySeq DEF StackInv, TypedStack, Loading
<1>2. /\ Below \in Seq(Frame) /\ Len(Below) = Len(frames) - 1
      /\ \A i \in 1..Len(Below) : Below[i] = frames[i]
  <2>1. Len(frames) - 1 \in 0..Len(frames) BY <1>1
  <2> QED BY <1>1, <2>1, Prefix DEF Below
<1>3. Top \in Frame /\ Read(Top)
  BY <1>1, ElementOfSeq DEF StackInv, TypedStack, Top
<1> HIDE DEF Below
<1>4. TypedStack(Below) /\ \A i \in 1..Len(Below) : Below[i].at = "run"
  BY <1>1, <1>2 DEF StackInv, TypedStack
<1>5. RecordedIn(Below, times)
  BY <1>1, <1>2 DEF StackInv, RecordedIn
<1>6. NestedIn(Below)
  <2> SUFFICES ASSUME NEW i \in 1..Len(Below), NEW j \in 1..Len(Below), Overlap(Below, i, j)
               PROVE  Below[i].date < Below[j].date
    BY DEF NestedIn
  <2>1. i \in 1..Len(frames) /\ j \in 1..Len(frames)
    BY <1>1, <1>2
  <2>2. Below[i] = frames[i] /\ Below[j] = frames[j]
    BY <1>2
  <2>3. Overlap(frames, i, j)
    BY <2>2 DEF Overlap
  <2> QED BY <2>1, <2>2, <2>3 DEF StackInv, NestedIn
<1> QED
  <2>1. Waits(Below, times) BY <1>4, <1>5, <1>6 DEF Waits, StackInv
  <2> QED BY <1>1, <1>2, <1>3, <2>1

\* What is left of waiting scripts, when an exception unwinds some, waits.
LEMMA PrefixWaits ==
  ASSUME NEW times, NEW st, Waits(st, times), NEW k \in 0..Len(st)
  PROVE  Waits(SubSeq(st, 1, k), times)
<1> DEFINE t == SubSeq(st, 1, k)
<1>1. st \in Seq(Frame) /\ Len(st) \in Nat
  BY LenProperties DEF Waits, StackInv, TypedStack
<1>2. t \in Seq(Frame) /\ Len(t) = k /\ \A i \in 1..k : t[i] = st[i]
  BY <1>1, Prefix
<1> HIDE DEF t
<1>3. TypedStack(t) /\ \A i \in 1..Len(t) : t[i].at = "run"
  BY <1>1, <1>2 DEF Waits, StackInv, TypedStack
<1>4. RecordedIn(t, times)
  BY <1>1, <1>2 DEF Waits, StackInv, RecordedIn
<1>5. NestedIn(t)
  <2> SUFFICES ASSUME NEW i \in 1..Len(t), NEW j \in 1..Len(t), Overlap(t, i, j)
               PROVE  t[i].date < t[j].date
    BY DEF NestedIn
  <2>1. i \in 1..Len(st) /\ j \in 1..Len(st) /\ t[i] = st[i] /\ t[j] = st[j]
    BY <1>1, <1>2
  <2>2. Overlap(st, i, j)
    BY <2>1 DEF Overlap
  <2> QED BY <2>1, <2>2 DEF Waits, StackInv, NestedIn
<1>6. Waits(t, times)
  BY <1>3, <1>4, <1>5 DEF Waits, StackInv
<1> QED BY <1>6 DEF t

\* A load is put on waiting scripts.
LEMMA PushKeeps ==
  ASSUME NEW times, NEW st, Waits(st, times), NEW load \in Frame, Read(load),
         load.how # "main" /\ load.at # "check" => load.date <= times[load.path],
         load.how = "import" /\ load.at # "check" =>
           \A i \in 1..Len(st) :
             st[i].path = load.path /\ st[i].how # "main" => st[i].date < load.date
  PROVE  /\ StackInv(Append(st, load), times)
         /\ Len(Append(st, load)) = Len(st) + 1
         /\ Append(st, load)[Len(st) + 1] = load
<1> DEFINE t == Append(st, load)
<1>1. st \in Seq(Frame) /\ Len(st) \in Nat
  BY LenProperties DEF Waits, StackInv, TypedStack
<1>2. /\ t \in Seq(Frame) /\ Len(t) = Len(st) + 1
      /\ \A i \in 1..Len(st) : t[i] = st[i]
      /\ t[Len(st) + 1] = load
  BY <1>1
<1> HIDE DEF t
<1>3. TypedStack(t)
  <2> SUFFICES ASSUME NEW i \in 1..Len(t)
               PROVE  (i < Len(t) => t[i].at = "run") /\ Read(t[i])
    BY <1>2 DEF TypedStack
  <2>1. CASE i \in 1..Len(st)
    BY <1>1, <1>2, <2>1 DEF Waits, StackInv, TypedStack
  <2>2. CASE i = Len(st) + 1
    BY <1>1, <1>2, <2>2
  <2> QED BY <1>1, <1>2, <2>1, <2>2
<1>4. RecordedIn(t, times)
  <2> SUFFICES ASSUME NEW i \in 1..Len(t), t[i].how # "main", t[i].at # "check"
               PROVE  t[i].date <= times[t[i].path]
    BY DEF RecordedIn
  <2>1. CASE i \in 1..Len(st)
    BY <1>1, <1>2, <2>1 DEF Waits, StackInv, RecordedIn
  <2>2. CASE i = Len(st) + 1
    BY <1>1, <1>2, <2>2
  <2> QED BY <1>1, <1>2, <2>1, <2>2
<1>5. NestedIn(t)
  <2> SUFFICES ASSUME NEW i \in 1..Len(t), NEW j \in 1..Len(t), Overlap(t, i, j)
               PROVE  t[i].date < t[j].date
    BY DEF NestedIn
  <2>1. i < j
    BY DEF Overlap
  <2>2. i \in 1..Len(st) /\ t[i] = st[i]
    BY <1>1, <1>2, <2>1
  <2>3. CASE j \in 1..Len(st)
    <3>1. t[j] = st[j]
      BY <1>2, <2>3
    <3>2. Overlap(st, i, j)
      BY <2>2, <3>1 DEF Overlap
    <3> QED BY <2>2, <2>3, <3>1, <3>2 DEF Waits, StackInv, NestedIn
  <2>4. CASE j = Len(st) + 1
    <3>1. t[j] = load
      BY <1>2, <2>4
    <3> QED BY <2>2, <3>1 DEF Overlap
  <2> QED BY <1>1, <1>2, <2>3, <2>4
<1>6. StackInv(t, times)
  BY <1>3, <1>4, <1>5 DEF StackInv
<1> QED BY <1>2, <1>6 DEF t

\* Where the innermost load is after a step.
Innermost(at) == frames' # <<>> => Top'.at \in at

\* An exception leaves a script that goes on, or one whose error is looked up.
LEMMA RaiseKeeps ==
  ASSUME NEW times, NEW waiting, Waits(waiting, times), Raise(waiting)
  PROVE  StackInv(frames', times) /\ Innermost({"run", "locate"})
<1>1. PICK k \in 0..Len(waiting) :
        \/ frames' = SubSeq(waiting, 1, k)
        \/ /\ k > 0
           /\ frames' = [SubSeq(waiting, 1, k) EXCEPT ![k].at = "locate"]
  BY DEF Raise
<1> DEFINE t == SubSeq(waiting, 1, k)
<1>2. Waits(t, times)
  BY PrefixWaits
<1>3. t \in Seq(Frame) /\ Len(t) = k /\ k \in Nat
  <2>1. waiting \in Seq(Frame)
    BY DEF Waits, StackInv, TypedStack
  <2>2. Len(waiting) \in Nat
    BY <2>1, LenProperties
  <2> QED BY <2>1, <2>2, Prefix
<1> HIDE DEF t
<1>4. CASE frames' = t
  <2>1. StackInv(frames', times)
    BY <1>2, <1>4 DEF Waits
  <2>2. Innermost({"run", "locate"})
    BY <1>2, <1>3, <1>4, EmptySeq DEF Innermost, Waits, Top
  <2> QED BY <2>1, <2>2
<1>5. CASE k > 0 /\ frames' = [t EXCEPT ![k].at = "locate"]
  <2> DEFINE u == [t EXCEPT ![k].at = "locate"]
             load == [t[k] EXCEPT !.at = "locate"]
  <2>1. k \in 1..Len(t) /\ t[k] \in Frame /\ t[k].at = "run" /\ Read(t[k])
    BY <1>2, <1>3, <1>5, ElementOfSeq DEF Waits, StackInv, TypedStack
  <2>2. /\ load \in Frame /\ load.path = t[k].path /\ load.how = t[k].how
        /\ load.at = "locate" /\ load.date = t[k].date /\ load.file = t[k].file
    BY <2>1 DEF Frame
  <2>3. /\ u \in Seq(Frame) /\ Len(u) = k
        /\ \A i \in 1..k : u[i] = IF i = k THEN load ELSE t[i]
    BY <1>3, <2>1, <2>2, ExceptSeq
  <2> HIDE DEF u, load
  <2>4. TypedStack(u)
    <3> SUFFICES ASSUME NEW i \in 1..Len(u)
                 PROVE  (i < Len(u) => u[i].at = "run") /\ Read(u[i])
      BY <2>3 DEF TypedStack
    <3>1. CASE i = k
      BY <2>1, <2>2, <2>3, <3>1 DEF Read
    <3>2. CASE i # k
      BY <1>2, <1>3, <2>3, <3>2 DEF Waits, StackInv, TypedStack
    <3> QED BY <3>1, <3>2
  <2>5. RecordedIn(u, times)
    <3> SUFFICES ASSUME NEW i \in 1..Len(u), u[i].how # "main", u[i].at # "check"
                 PROVE  u[i].date <= times[u[i].path]
      BY DEF RecordedIn
    <3>1. i \in 1..Len(t) /\ t[i].at = "run"
      BY <1>2, <1>3, <2>3 DEF Waits
    <3>2. u[i].how = t[i].how /\ u[i].date = t[i].date /\ u[i].path = t[i].path
      BY <1>3, <2>2, <2>3
    <3> QED BY <1>2, <3>1, <3>2 DEF Waits, StackInv, RecordedIn
  <2>6. NestedIn(u)
    <3> SUFFICES ASSUME NEW i \in 1..Len(u), NEW j \in 1..Len(u), Overlap(u, i, j)
                 PROVE  u[i].date < u[j].date
      BY DEF NestedIn
    <3>1. /\ i \in 1..Len(t) /\ j \in 1..Len(t) /\ t[j].at = "run"
          /\ u[i].how = t[i].how /\ u[i].date = t[i].date /\ u[i].path = t[i].path
          /\ u[j].how = t[j].how /\ u[j].date = t[j].date /\ u[j].path = t[j].path
      BY <1>2, <1>3, <2>2, <2>3 DEF Waits
    <3>2. Overlap(t, i, j)
      BY <3>1 DEF Overlap
    <3> QED BY <1>2, <3>1, <3>2 DEF Waits, StackInv, NestedIn
  <2>7. Innermost({"run", "locate"})
    <3>1. u[k] = load
      BY <2>1, <2>3, <1>3
    <3> QED BY <1>5, <2>2, <2>3, <3>1 DEF Innermost, Top, u
  <2>8. StackInv(u, times)
    BY <2>4, <2>5, <2>6 DEF StackInv
  <2> QED BY <1>5, <2>7, <2>8 DEF u
<1> QED BY <1>1, <1>4, <1>5 DEF t

-----------------------------------------------------------------------------
\* No recorded date is later than that of the file there now, and no date is
\* later than the newest file.
Dates ==
  \A p \in Path :
    /\ fileModTimes[p] <= now
    /\ disk[p] # Nil => fileModTimes[p] <= disk[p].date /\ disk[p].date <= now

\* A file that was read is not older than the recorded date, and not newer than
\* the file there now.
Fresh ==
  Loading /\ Top.at = "recheck" =>
    /\ fileModTimes[Top.path] <= Top.file.date /\ Top.file.date <= now
    /\ disk[Top.path] # Nil => Top.file.date <= disk[Top.path].date

\* The types of all but the loads.
Plain ==
  /\ disk \in [Path -> File \cup {Nil}]
  /\ edited \subseteq Path
  /\ now \in 0..MaxDate
  /\ libraries \in Seq(Directory) /\ Len(libraries) <= MaxLibraries
  /\ fileModTimes \in [Path -> 0..MaxDate]
  /\ loaded \in [Path -> File \cup {Nil}]
  /\ phase \in {"start", "prompt", "script"}

\* fscript loads nothing before it has started.
Started == Loading => phase # "start"

\* What was run, or read, with the date of a file that is there and was not
\* edited is that file.
IsCopy(f, p) == disk[p] # Nil /\ f.date = disk[p].date /\ p \notin edited => f = disk[p]

Copies ==
  /\ \A p \in Path : loaded[p] # Nil =>
       loaded[p].date <= now /\ IsCopy(loaded[p], p)
  /\ Loading /\ Top.at = "recheck" => IsCopy(Top.file, Top.path)

\* A file passed over has the date of what was run.
DatesAgree ==
  \A p \in Path : PassedOver(p) => loaded[p] # Nil /\ loaded[p].date = disk[p].date

\* The inductive invariant.
LoadingInv ==
  /\ Plain /\ Dates /\ Fresh /\ Started
  /\ StackInv(frames, fileModTimes)
  /\ DatesAgree /\ Copies

\* It says all that the theorems do.
LEMMA InvMeans == LoadingInv => LoadingTypeOK /\ NothingNewSkipped /\ NotLoadedWithinItself
<1> SUFFICES ASSUME LoadingInv
             PROVE  LoadingTypeOK /\ NothingNewSkipped /\ NotLoadedWithinItself
  OBVIOUS
<1>1. LoadingTypeOK
  BY DEF LoadingInv, Plain, StackInv, TypedStack, Read, LoadingTypeOK
<1>2. NotLoadedWithinItself
  BY DEF LoadingInv, StackInv, NestedIn, Overlap, NotLoadedWithinItself
<1>3. NothingNewSkipped
  BY DEF LoadingInv, DatesAgree, Copies, IsCopy, PassedOver, NothingNewSkipped
<1> QED BY <1>1, <1>2, <1>3

\* It holds when fscript starts.
LEMMA InitHolds == LoadingInit => LoadingInv
<1> SUFFICES ASSUME LoadingInit PROVE LoadingInv
  OBVIOUS
<1>1. Plain
  BY LoadingAssumption DEF LoadingInit, Plain
<1>2. Dates /\ DatesAgree
  BY DEF LoadingInit, Dates, DatesAgree, PassedOver
<1>3. frames = <<>> /\ Len(frames) = 0 /\ frames \in Seq(Frame)
  BY DEF LoadingInit
<1>4. StackInv(frames, fileModTimes)
  BY <1>3 DEF StackInv, TypedStack, RecordedIn, NestedIn
<1>5. Fresh
  BY <1>3 DEF Fresh, Loading
<1>6. Started
  BY <1>3 DEF Started, Loading
<1>7. Copies
  BY <1>3 DEF Copies, Loading, LoadingInit
<1> QED BY <1>1, <1>2, <1>4, <1>5, <1>6, <1>7 DEF LoadingInv

\* The thread's steps that leave the file system and the dates alone and end
\* with no file pending.
LEMMA SettledKeeps ==
  ASSUME LoadingInv, UNCHANGED <<outsideVars, fileModTimes, loaded>>,
         phase' # "start", Plain', StackInv(frames', fileModTimes),
         Innermost({"check", "run", "locate"}),
         \A p \in Path : Pending(p) => disk[p] = Nil
  PROVE  LoadingInv'
<1> USE DEF LoadingInv, outsideVars
<1>1. Dates'
  BY DEF Dates
<1>2. Fresh'
  BY DEF Fresh, Innermost, Loading
<1>3. DatesAgree'
  BY DEF DatesAgree, PassedOver
<1>4. Started'
  BY DEF Started
<1>5. Copies'
  BY DEF Copies, IsCopy, Innermost, Loading
<1> QED BY <1>1, <1>2, <1>3, <1>4, <1>5

\* import: puts a load on the scripts that wait, or throws.
LEMMA SearchKeeps ==
  ASSUME NEW n \in Name, NEW how \in How, NEW waiting, Plain,
         Waits(waiting, fileModTimes), Search(n, how, waiting)
  PROVE  StackInv(frames', fileModTimes) /\ Innermost({"check", "run", "locate"})
<1>1. CASE Raise(waiting)
  BY <1>1, RaiseKeeps DEF Innermost
<1>2. ASSUME NEW i \in DOMAIN libraries,
             frames' = Append(waiting, New(<<libraries[i], n>>, how, "check"))
      PROVE  StackInv(frames', fileModTimes) /\ Innermost({"check", "run", "locate"})
  <2> DEFINE load == New(<<libraries[i], n>>, how, "check")
  <2>1. libraries[i] \in Directory
    BY LenProperties, ElementOfSeq DEF Plain
  <2>2. load \in Frame /\ Read(load) /\ load.at = "check"
    BY <2>1, LoadingAssumption DEF New, Frame, Path, Read, How
  <2> HIDE DEF load
  <2>3. /\ StackInv(Append(waiting, load), fileModTimes)
        /\ Len(Append(waiting, load)) = Len(waiting) + 1
        /\ Append(waiting, load)[Len(waiting) + 1] = load
    BY <2>2, PushKeeps
  <2>4. frames' = Append(waiting, load)
    BY <1>2 DEF load
  <2>5. Top' = load
    BY <2>3, <2>4 DEF Top
  <2> QED BY <2>2, <2>3, <2>4, <2>5 DEF Innermost
<1> QED BY <1>1, <1>2 DEF Search

\* What an innermost load at one of its steps means for the frames below.
LEMMA BecomesKeeps ==
  ASSUME NEW times, Loading, Waits(Below, times), Len(frames) \in Nat \ {0},
         frames \in Seq(Frame),
         NEW load \in Frame, Read(load), Becomes(load),
         load.how # "main" /\ load.at # "check" => load.date <= times[load.path],
         load.how = "import" /\ load.at # "check" =>
           \A i \in 1..Len(Below) :
             Below[i].path = load.path /\ Below[i].how # "main" => Below[i].date < load.date
  PROVE  StackInv(frames', times) /\ Top' = load
<1>1. frames' = Append(Below, load)
  <2> DEFINE u == [frames EXCEPT ![Len(frames)] = load]
             v == Append(Below, load)
  <2>1. /\ u \in Seq(Frame) /\ Len(u) = Len(frames)
        /\ \A i \in 1..Len(frames) : u[i] = IF i = Len(frames) THEN load ELSE frames[i]
    BY ExceptSeq
  <2>2. /\ Below \in Seq(Frame) /\ Len(Below) = Len(frames) - 1
        /\ \A i \in 1..(Len(frames) - 1) : Below[i] = frames[i]
    <3>1. Len(frames) - 1 \in 0..Len(frames) OBVIOUS
    <3> QED BY <3>1, Prefix DEF Below
  <2>3. /\ v \in Seq(Frame) /\ Len(v) = Len(frames)
        /\ \A i \in 1..Len(frames) : v[i] = IF i = Len(frames) THEN load ELSE frames[i]
    <3> HIDE DEF Below
    <3> QED BY <2>2
  <2> HIDE DEF u, v
  <2>4. u = v
    <3>1. \A i \in 1..Len(u) : u[i] = v[i] BY <2>1, <2>3
    <3> QED BY <2>1, <2>3, <3>1, SeqEqual
  <2> QED BY <2>4 DEF Becomes, u, v
<1>2. /\ StackInv(Append(Below, load), times)
      /\ Len(Append(Below, load)) = Len(Below) + 1
      /\ Append(Below, load)[Len(Below) + 1] = load
  BY PushKeeps
<1> QED BY <1>1, <1>2 DEF Top

\* Dates that are recorded only grow.
LEMMA TimesGrow ==
  ASSUME NEW old \in [Path -> 0..MaxDate], NEW times \in [Path -> 0..MaxDate],
         NEW st, Waits(st, old), \A p \in Path : old[p] <= times[p]
  PROVE  Waits(st, times)
<1>1. RecordedIn(st, times)
  <2> SUFFICES ASSUME NEW i \in 1..Len(st), st[i].how # "main", st[i].at # "check"
               PROVE  st[i].date <= times[st[i].path]
    BY DEF RecordedIn
  <2>1. st[i] \in Frame
    BY ElementOfSeq DEF Waits, StackInv, TypedStack
  <2>2. st[i].date <= old[st[i].path]
    BY DEF Waits, StackInv, RecordedIn
  <2> QED BY <2>1, <2>2, LoadingAssumption DEF Frame
<1> QED BY <1>1 DEF Waits, StackInv

\* The innermost load once it is past the check of its date.
LEMMA TopRecorded ==
  ASSUME NEW times, Loading, StackInv(frames, times), Top.at # "check"
  PROVE  /\ Top.how # "main" => Top.date <= times[Top.path]
         /\ Top.how = "import" =>
              \A i \in 1..Len(Below) :
                Below[i].path = Top.path /\ Below[i].how # "main" => Below[i].date < Top.date
<1>1. /\ Waits(Below, times) /\ Len(frames) \in Nat \ {0} /\ Len(Below) = Len(frames) - 1
      /\ \A i \in 1..Len(Below) : Below[i] = frames[i]
  BY BelowWaits
<1>2. Top.how # "main" => Top.date <= times[Top.path]
  BY <1>1 DEF StackInv, RecordedIn, Top
<1>3. ASSUME Top.how = "import", NEW i \in 1..Len(Below),
             Below[i].path = Top.path, Below[i].how # "main"
      PROVE  Below[i].date < Top.date
  <2>1. i \in 1..Len(frames) /\ Len(frames) \in 1..Len(frames) /\ Below[i] = frames[i]
    BY <1>1
  <2>2. Overlap(frames, i, Len(frames))
    BY <1>1, <1>3, <2>1 DEF Overlap, Top
  <2>3. frames[i].date < frames[Len(frames)].date
    BY <2>1, <2>2 DEF StackInv, NestedIn
  <2> QED BY <2>1, <2>3 DEF Top
<1> QED BY <1>2, <1>3

\* It calls, and waits with a field changed that does not matter here.
LEMMA TopAdvances ==
  ASSUME NEW times, Loading, StackInv(frames, times), Top.at = "run",
         NEW load \in Frame, Read(load), load.path = Top.path, load.how = Top.how,
         load.at = "run", load.date = Top.date
  PROVE  Waits(Append(Below, load), times)
<1>1. Waits(Below, times) /\ Len(Below) \in Nat
  BY BelowWaits
<1>2. /\ StackInv(Append(Below, load), times)
      /\ Len(Append(Below, load)) = Len(Below) + 1
      /\ Append(Below, load)[Len(Below) + 1] = load
  <2> HIDE DEF Below
  <2> QED BY <1>1, TopRecorded, PushKeeps
<1> HIDE DEF Below
<1>3. \A i \in 1..(Len(Below) + 1) : Append(Below, load)[i].at = "run"
  <2>1. Below \in Seq(Frame)
    BY <1>1 DEF Waits, StackInv, TypedStack
  <2>2. \A i \in 1..Len(Below) : Append(Below, load)[i] = Below[i]
    BY <2>1
  <2> QED BY <1>1, <1>2, <2>2 DEF Waits
<1> QED BY <1>2, <1>3 DEF Waits

\* It goes on to its next step.
LEMMA TopGoesOn ==
  ASSUME NEW times, Loading, StackInv(frames, times), Top.at # "check",
         NEW load \in Frame, Read(load), load.path = Top.path, load.how = Top.how,
         load.date = Top.date, Becomes(load)
  PROVE  StackInv(frames', times) /\ Top' = load
<1>1. /\ Waits(Below, times) /\ Len(frames) \in Nat \ {0}
      /\ frames \in Seq(Frame)
  BY BelowWaits DEF StackInv, TypedStack
<1> HIDE DEF Below
<1> QED BY <1>1, TopRecorded, BecomesKeeps

\* Stuttering.
LEMMA NothingHappens ==
  ASSUME LoadingInv, UNCHANGED scriptVars
  PROVE  LoadingInv'
<1>0. /\ Plain /\ Dates /\ Fresh /\ Started /\ DatesAgree /\ Copies
      /\ StackInv(frames, fileModTimes)
  BY DEF LoadingInv
<1>1. UNCHANGED <<disk, edited, now, libraries, fileModTimes, loaded, phase, frames>>
  BY DEF scriptVars, outsideVars, loadingVars
<1> QED BY <1>0, <1>1 DEF LoadingInv, Plain, Dates, Fresh, Started, Loading, Top,
           DatesAgree, PassedOver, Pending, Copies, IsCopy

\* The script that runs imports: it waits with its next import noted.
LEMMA ImportFromScriptHolds ==
  ASSUME LoadingInv, ImportFromScript
  PROVE  LoadingInv'
<1>0. /\ Plain /\ Dates /\ Fresh /\ Started /\ DatesAgree /\ Copies
      /\ StackInv(frames, fileModTimes)
  BY DEF LoadingInv
<1> DEFINE statements == Imports[Top.file.text]
           load == [Top EXCEPT !.next = @ + 1]
<1>1. Loading /\ Top.at = "run" /\ Top.next <= Len(statements)
  BY DEF ImportFromScript
<1>2. Waits(Below, fileModTimes) /\ Top \in Frame /\ Read(Top) /\ Top.file # Nil
  BY <1>0, <1>1, BelowWaits DEF Read
<1>3. Top.file.text \in Text /\ Top.next \in Nat \ {0}
  BY <1>2 DEF Frame, File
<1>4. statements \in Seq([name : Name, how : How])
  BY <1>3, LoadingAssumption
<1>5. statements[Top.next] \in [name : Name, how : How]
  <2> HIDE DEF statements
  <2>1. Len(statements) \in Nat
    BY <1>4, LenProperties
  <2>2. Top.next \in 1..Len(statements)
    BY <1>1, <1>3, <2>1
  <2> QED BY <1>4, <2>2, ElementOfSeq
<1>6. /\ load \in Frame /\ load.path = Top.path /\ load.how = Top.how /\ load.at = "run"
      /\ load.date = Top.date /\ load.file = Top.file
  BY <1>1, <1>2, <1>3 DEF Frame
<1>7. Waits(Append(Below, load), fileModTimes)
  BY <1>0, <1>1, <1>2, <1>6, TopAdvances DEF Read
<1>8. PICK n \in Name, how \in How : Search(n, how, Append(Below, load))
  BY <1>5 DEF ImportFromScript
<1>9. StackInv(frames', fileModTimes) /\ Innermost({"check", "run", "locate"})
  BY <1>0, <1>7, <1>8, SearchKeeps
<1>10. UNCHANGED <<outsideVars, libraries, fileModTimes, loaded, phase>>
  BY DEF ImportFromScript
<1>11. Plain' /\ phase' # "start" /\ \A p \in Path : ~Pending(p)
  BY <1>0, <1>1, <1>10 DEF Plain, Started, outsideVars, Pending
<1> QED BY <1>9, <1>10, <1>11, SettledKeeps

\* The check of the date is where import: decides, and where a date is recorded:
\* it is later than those of the loads of this file that wait.
LEMMA CheckModTimeHolds ==
  ASSUME LoadingInv, CheckModTime
  PROVE  LoadingInv'
<1>0. /\ Plain /\ Dates /\ Fresh /\ Started /\ DatesAgree /\ Copies
      /\ StackInv(frames, fileModTimes)
  BY DEF LoadingInv
<1>1. Loading /\ Top.at = "check" /\ UNCHANGED <<outsideVars, libraries, loaded, phase>>
  BY DEF CheckModTime
<1>2. /\ Waits(Below, fileModTimes) /\ Len(frames) \in Nat \ {0} /\ Top \in Frame
      /\ Read(Top)
  BY <1>0, <1>1, BelowWaits
<1>3. Top.path \in Path /\ \A p \in Path : ~Pending(p)
  BY <1>1, <1>2 DEF Frame, Pending
<1>4. CASE disk[Top.path] = Nil
  <2>1. Raise(Below) /\ UNCHANGED fileModTimes
    BY <1>4 DEF CheckModTime
  <2>2. StackInv(frames', fileModTimes) /\ Innermost({"check", "run", "locate"})
    BY <1>2, <2>1, RaiseKeeps DEF Innermost
  <2>3. Plain' /\ phase' # "start"
    BY <1>0, <1>1, <2>1 DEF Plain, Started, outsideVars
  <2> QED BY <1>1, <1>3, <2>1, <2>2, <2>3, SettledKeeps
<1>5. CASE disk[Top.path] # Nil /\ Top.how # "force"
           /\ fileModTimes[Top.path] >= disk[Top.path].date
  <2>1. frames' = Below /\ UNCHANGED fileModTimes
    BY <1>0, <1>3, <1>5 DEF CheckModTime, Plain, File
  <2>2. StackInv(frames', fileModTimes) /\ Innermost({"check", "run", "locate"})
    BY <1>2, <2>1, EmptySeq DEF Innermost, Top, Waits, StackInv, TypedStack
  <2>3. Plain' /\ phase' # "start"
    BY <1>0, <1>1, <2>1 DEF Plain, Started, outsideVars
  <2> QED BY <1>1, <1>3, <2>1, <2>2, <2>3, SettledKeeps
<1>6. CASE /\ disk[Top.path] # Nil
           /\ Top.how = "force" \/ fileModTimes[Top.path] < disk[Top.path].date
  <2> DEFINE date == disk[Top.path].date
             load == [Top EXCEPT !.at = "read", !.date = date]
             times == [fileModTimes EXCEPT ![Top.path] = date]
  <2>1. fileModTimes' = times /\ Becomes(load)
    BY <1>0, <1>3, <1>6 DEF CheckModTime, Plain, File
  <2>2. date \in 1..MaxDate /\ fileModTimes[Top.path] <= date /\ date <= now
    BY <1>0, <1>3, <1>6 DEF Plain, File, Dates
  <2>3. /\ load \in Frame /\ load.at = "read" /\ load.date = date
        /\ load.path = Top.path /\ load.how = Top.how /\ load.file = Top.file
    <3>1. date \in 0..MaxDate
      BY <2>2, LoadingAssumption
    <3> HIDE DEF date
    <3> QED BY <1>2, <3>1 DEF Frame
  <2>4. Read(load)
    BY <1>1, <1>2, <2>3 DEF Read
  <2> HIDE DEF load
  <2>5. \A p \in Path : fileModTimes[p] <= times[p]
    BY <1>0, <1>3, <2>2 DEF Plain
  <2>6. times \in [Path -> 0..MaxDate] /\ times[Top.path] = date
    BY <1>0, <1>3, <2>2 DEF Plain
  <2>7. Waits(Below, times)
    BY <1>0, <1>2, <2>5, <2>6, TimesGrow DEF Plain
  <2>8. ASSUME load.how = "import", NEW i \in 1..Len(Below),
               Below[i].path = load.path, Below[i].how # "main"
        PROVE  Below[i].date < load.date
    <3>1. Below[i].date <= fileModTimes[Top.path]
      BY <1>2, <2>3, <2>8 DEF Waits, StackInv, RecordedIn
    <3>2. fileModTimes[Top.path] < date
      BY <1>6, <2>3, <2>8
    <3>3. Below[i] \in Frame
      BY <1>2, ElementOfSeq DEF Waits, StackInv, TypedStack
    <3> QED BY <1>0, <1>3, <2>2, <2>3, <3>1, <3>2, <3>3 DEF Plain, Frame
  <2>9. StackInv(frames', times) /\ Top' = load
    <3>1. frames \in Seq(Frame)
      BY <1>0 DEF StackInv, TypedStack
    <3>2. load.date <= times[load.path]
      BY <2>2, <2>3, <2>6
    <3> QED BY <1>1, <1>2, <2>1, <2>3, <2>4, <2>7, <2>8, <3>1, <3>2, BecomesKeeps
  <2> HIDE DEF times, date
  <2>10. Plain' /\ Started'
    BY <1>0, <1>1, <2>1, <2>6 DEF Plain, Started, outsideVars
  <2>11. \A p \in Path \ {Top.path} : times[p] = fileModTimes[p]
    BY <1>0 DEF times, Plain
  <2>12. Dates'
    <3> SUFFICES ASSUME NEW p \in Path
                 PROVE  /\ times[p] <= now
                        /\ disk[p] # Nil => times[p] <= disk[p].date /\ disk[p].date <= now
      BY <1>1, <2>1 DEF Dates, outsideVars
    <3>1. CASE p = Top.path
      BY <2>2, <2>6, <3>1 DEF date
    <3>2. CASE p # Top.path
      BY <1>0, <2>11, <3>2 DEF Dates
    <3> QED BY <3>1, <3>2
  <2>13. Fresh'
    BY <2>3, <2>9 DEF Fresh
  <2>14. DatesAgree'
    <3> SUFFICES ASSUME NEW p \in Path, disk[p] # Nil, times[p] >= disk[p].date, ~Pending(p)'
                 PROVE  loaded[p] # Nil /\ loaded[p].date = disk[p].date
      BY <1>1, <2>1 DEF DatesAgree, PassedOver, outsideVars
    <3>1. p # Top.path
      <4>1. frames' # <<>>
        BY <1>2, <2>1, EmptySeq, <1>0 DEF Becomes, StackInv, TypedStack
      <4> QED BY <2>3, <2>9, <4>1 DEF Pending, Loading
    <3> QED BY <1>0, <1>3, <2>11, <3>1 DEF DatesAgree, PassedOver
  <2>15. Copies'
    BY <1>0, <1>1, <2>3, <2>9 DEF Copies, IsCopy, outsideVars
  <2> QED BY <2>1, <2>9, <2>10, <2>12, <2>13, <2>14, <2>15 DEF LoadingInv
<1>7. disk[Top.path] # Nil /\ Top.how # "force" =>
        \/ fileModTimes[Top.path] >= disk[Top.path].date
        \/ fileModTimes[Top.path] < disk[Top.path].date
  BY <1>0, <1>3 DEF Plain, File
<1> QED BY <1>4, <1>5, <1>6, <1>7

\* The file read is the one whose date was recorded, or a newer one; if there is
\* none, nothing is passed over.
LEMMA ReadFileHolds ==
  ASSUME LoadingInv, ReadFile
  PROVE  LoadingInv'
<1>0. /\ Plain /\ Dates /\ Fresh /\ Started /\ DatesAgree /\ Copies
      /\ StackInv(frames, fileModTimes)
  BY DEF LoadingInv
<1>1. /\ Loading /\ Top.at = "read"
      /\ UNCHANGED <<outsideVars, libraries, fileModTimes, loaded, phase>>
  BY DEF ReadFile
<1>2. Waits(Below, fileModTimes) /\ Top \in Frame /\ Top.path \in Path
  BY <1>0, <1>1, BelowWaits DEF Frame
<1>3. Plain' /\ phase' # "start" /\ \A p \in Path : Pending(p) => p = Top.path
  BY <1>0, <1>1 DEF Plain, Started, outsideVars, Pending
<1>4. CASE disk[Top.path] = Nil
  <2>1. StackInv(frames', fileModTimes) /\ Innermost({"check", "run", "locate"})
    BY <1>2, <1>4, RaiseKeeps DEF Innermost, ReadFile
  <2> QED BY <1>1, <1>3, <1>4, <2>1, SettledKeeps
<1>5. CASE disk[Top.path] # Nil
  <2> DEFINE load == [Top EXCEPT !.at = "recheck", !.file = disk[Top.path]]
  <2>1. disk[Top.path] \in File
    BY <1>0, <1>2, <1>5 DEF Plain
  <2>2. /\ load \in Frame /\ load.path = Top.path /\ load.how = Top.how
        /\ load.date = Top.date /\ load.at = "recheck" /\ load.file = disk[Top.path]
    BY <1>2, <2>1 DEF Frame
  <2>3. Becomes(load)
    BY <1>5 DEF ReadFile
  <2> HIDE DEF load
  <2>4. Read(load)
    BY <1>5, <2>2 DEF Read
  <2>5. StackInv(frames', fileModTimes) /\ Top' = load
    BY <1>0, <1>1, <2>2, <2>3, <2>4, TopGoesOn
  <2>6. Fresh'
    BY <1>0, <1>1, <1>2, <1>5, <2>1, <2>2, <2>5 DEF Fresh, Dates, Plain, File, outsideVars
  <2>7. Dates' /\ Started'
    BY <1>0, <1>1, <1>3 DEF Dates, Started, outsideVars
  <2>8. DatesAgree'
    <3>1. frames' # <<>>
      BY <1>0, <1>1, <2>3, EmptySeq DEF Becomes, StackInv, TypedStack, Loading
    <3>2. \A p \in Path : ~Pending(p)' => ~Pending(p)
      BY <1>1, <1>3, <2>2, <2>5, <3>1 DEF Pending, Loading
    <3> QED BY <1>0, <1>1, <3>2 DEF DatesAgree, PassedOver, outsideVars
  <2>9. Copies'
    BY <1>0, <1>1, <2>2, <2>5 DEF Copies, IsCopy, outsideVars
  <2> QED BY <1>1, <1>3, <2>5, <2>6, <2>7, <2>8, <2>9 DEF LoadingInv
<1> QED BY <1>4, <1>5

\* What runs is not older than the recorded date, nor newer than the file there.
LEMMA ExecuteHolds ==
  ASSUME LoadingInv, Execute
  PROVE  LoadingInv'
<1>0. /\ Plain /\ Dates /\ Fresh /\ Started /\ DatesAgree /\ Copies
      /\ StackInv(frames, fileModTimes)
  BY DEF LoadingInv
<1>1. /\ Loading /\ Top.at = "recheck"
      /\ UNCHANGED <<outsideVars, libraries, fileModTimes, phase>>
  BY DEF Execute
<1>2. /\ Waits(Below, fileModTimes) /\ Top \in Frame /\ Read(Top)
      /\ Top.path \in Path /\ Top.file \in File
  BY <1>0, <1>1, BelowWaits DEF Frame, Read
<1>3. phase' # "start" /\ \A p \in Path : Pending(p) => p = Top.path
  BY <1>0, <1>1 DEF Started, Pending
<1>4. CASE disk[Top.path] = Nil
  <2>1. UNCHANGED loaded /\ Raise(Below)
    BY <1>4 DEF Execute
  <2>2. StackInv(frames', fileModTimes) /\ Innermost({"check", "run", "locate"})
    BY <1>2, <2>1, RaiseKeeps DEF Innermost
  <2>3. Plain'
    BY <1>0, <1>1, <2>1 DEF Plain, outsideVars
  <2> QED BY <1>1, <1>3, <1>4, <2>1, <2>2, <2>3, SettledKeeps
<1>5. CASE disk[Top.path] # Nil
  <2> DEFINE load == [Top EXCEPT !.at = "run"]
  <2>1. loaded' = [loaded EXCEPT ![Top.path] = Top.file] /\ Becomes(load)
    BY <1>5 DEF Execute
  <2>2. /\ load \in Frame /\ load.path = Top.path /\ load.how = Top.how
        /\ load.date = Top.date /\ load.at = "run" /\ load.file = Top.file
    BY <1>2 DEF Frame
  <2> HIDE DEF load
  <2>3. Read(load)
    BY <1>1, <1>2, <2>2 DEF Read
  <2>4. StackInv(frames', fileModTimes) /\ Top' = load
    BY <1>0, <1>1, <2>1, <2>2, <2>3, TopGoesOn
  <2>5. Plain'
    BY <1>0, <1>1, <1>2, <2>1 DEF Plain, outsideVars
  <2>6. Dates' /\ Started' /\ Fresh'
    BY <1>0, <1>1, <1>3, <2>2, <2>4 DEF Dates, Started, Fresh, outsideVars
  <2>7. DatesAgree'
    <3> SUFFICES ASSUME NEW p \in Path, disk[p] # Nil, fileModTimes[p] >= disk[p].date
                 PROVE  loaded'[p] # Nil /\ loaded'[p].date = disk[p].date
      BY <1>1 DEF DatesAgree, PassedOver, outsideVars
    <3>1. CASE p = Top.path
      <4>1. loaded'[p] = Top.file /\ Top.file # Nil
        BY <1>0, <1>1, <1>2, <2>1, <3>1 DEF Plain, Read
      <4>2. fileModTimes[p] <= Top.file.date /\ Top.file.date <= disk[p].date
        BY <1>0, <1>1, <3>1 DEF Fresh
      <4>3. /\ fileModTimes[p] \in Int /\ Top.file.date \in Int /\ disk[p].date \in Int
        BY <1>0, <1>2 DEF Plain, File
      <4> QED BY <4>1, <4>2, <4>3
    <3>2. CASE p # Top.path
      <4>1. loaded'[p] = loaded[p]
        BY <1>0, <2>1, <3>2 DEF Plain
      <4> QED BY <1>0, <1>3, <3>2, <4>1 DEF DatesAgree, PassedOver
    <3> QED BY <3>1, <3>2
  <2>8. Copies'
    <3>1. loaded'[Top.path] = Top.file
          /\ \A p \in Path \ {Top.path} : loaded'[p] = loaded[p]
      BY <1>0, <1>2, <2>1 DEF Plain
    <3>2. Top.file.date <= now /\ IsCopy(Top.file, Top.path)
      BY <1>0, <1>1, <1>5 DEF Fresh, Copies
    <3>3. \A p \in Path : loaded'[p] # Nil =>
            loaded'[p].date <= now /\ IsCopy(loaded'[p], p)
      BY <1>0, <3>1, <3>2 DEF Copies
    <3> QED BY <1>1, <2>2, <2>4, <3>3 DEF Copies, IsCopy, outsideVars
  <2> QED BY <1>1, <2>4, <2>5, <2>6, <2>7, <2>8 DEF LoadingInv
<1> QED BY <1>4, <1>5

\* The end of a script.
LEMMA ScriptEndsHolds ==
  ASSUME LoadingInv, ScriptEnds
  PROVE  LoadingInv'
<1>0. /\ Plain /\ Dates /\ Fresh /\ Started /\ DatesAgree /\ Copies
      /\ StackInv(frames, fileModTimes)
  BY DEF LoadingInv
<1>1. Loading /\ Top.at = "run" /\ frames' = Below
  BY DEF ScriptEnds
<1>2. Waits(Below, fileModTimes) /\ Len(Below) \in Nat
  BY <1>0, <1>1, BelowWaits
<1>3. Innermost({"check", "run", "locate"})
  BY <1>1, <1>2, EmptySeq DEF Innermost, Top, Waits, StackInv, TypedStack
<1>4. Plain' /\ phase' # "start" /\ StackInv(frames', fileModTimes)
  BY <1>0, <1>1, <1>2 DEF Waits, ScriptEnds, Plain, Started, outsideVars
<1>5. UNCHANGED <<outsideVars, fileModTimes, loaded>>
  BY DEF ScriptEnds
<1>6. \A p \in Path : ~Pending(p)
  BY <1>1 DEF Pending
<1> QED BY <1>3, <1>4, <1>5, <1>6, SettledKeeps

\* An error in a script.
LEMMA ScriptFailsHolds ==
  ASSUME LoadingInv, ScriptFails
  PROVE  LoadingInv'
<1>0. /\ Plain /\ Dates /\ Fresh /\ Started /\ DatesAgree /\ Copies
      /\ StackInv(frames, fileModTimes)
  BY DEF LoadingInv
<1>1. Loading /\ Top.at = "run" /\ Raise(frames)
  BY DEF ScriptFails
<1>2. Waits(frames, fileModTimes)
  <2>1. /\ \A i \in 1..Len(frames) : i < Len(frames) => frames[i].at = "run"
        /\ Len(frames) \in Nat
    BY <1>0, LenProperties DEF StackInv, TypedStack
  <2>2. \A i \in 1..Len(frames) : frames[i].at = "run"
    BY <1>1, <2>1 DEF Top
  <2> QED BY <1>0, <2>2 DEF Waits
<1>3. StackInv(frames', fileModTimes) /\ Innermost({"check", "run", "locate"})
  BY <1>1, <1>2, RaiseKeeps DEF Innermost
<1>4. UNCHANGED <<outsideVars, libraries, fileModTimes, loaded, phase>>
  BY DEF ScriptFails
<1>5. Plain' /\ phase' # "start" /\ \A p \in Path : ~Pending(p)
  BY <1>0, <1>1, <1>4 DEF Plain, Started, outsideVars, Pending
<1> QED BY <1>3, <1>4, <1>5, SettledKeeps

\* Others change the files: a new one has a date no import has seen.
LEMMA OutsideHolds ==
  ASSUME LoadingInv, Outside
  PROVE  LoadingInv'
<1>0. /\ Plain /\ Dates /\ Fresh /\ Started /\ DatesAgree /\ Copies
      /\ StackInv(frames, fileModTimes)
  BY DEF LoadingInv
<1>1. PICK p \in Path : Remove(p) \/ \E t \in Holds[p] : Put(p, t) \/ EditInPlace(p, t)
  BY DEF Outside
<1>2. UNCHANGED <<libraries, fileModTimes, loaded, phase, frames>>
  BY <1>1 DEF Remove, Put, EditInPlace, loadingVars
<1>3. /\ Plain' /\ now <= now'
      /\ \A q \in Path : disk'[q] # Nil =>
           \/ now < disk'[q].date /\ disk'[q].date <= now'
           \/ /\ disk[q] # Nil /\ disk'[q].date = disk[q].date
              /\ q \notin edited' => disk'[q] = disk[q] /\ q \notin edited
  <2>1. CASE Remove(p)
    BY <1>0, <1>2, <2>1 DEF Remove, Plain
  <2>2. ASSUME NEW t \in Holds[p], Put(p, t) PROVE <1>3!:
    <3>1. [date |-> now + 1, text |-> t] \in File /\ now + 1 \in 0..MaxDate
      <4>1. t \in Text
        BY LoadingAssumption
      <4>2. now + 1 \in 1..MaxDate /\ now + 1 \in 0..MaxDate
        BY <1>0, <2>2, LoadingAssumption DEF Put, Plain
      <4> QED BY <4>1, <4>2 DEF File
    <3> QED BY <1>0, <1>2, <2>2, <3>1 DEF Put, Plain
  <2>3. ASSUME NEW t \in Holds[p], EditInPlace(p, t) PROVE <1>3!:
    <3>1. disk[p] \in File /\ t \in Text
      BY <1>0, <2>3, LoadingAssumption DEF EditInPlace, Plain
    <3> DEFINE new == [disk[p] EXCEPT !.text = t]
    <3>2. new \in File /\ new.date = disk[p].date
      BY <3>1 DEF File
    <3>3. disk' = [disk EXCEPT ![p] = new]
      BY <2>3 DEF EditInPlace
    <3> HIDE DEF new
    <3>4. now' = now /\ disk[p] # Nil /\ edited' = edited \cup {p}
      BY <2>3 DEF EditInPlace
    <3> QED BY <1>0, <1>2, <3>2, <3>3, <3>4 DEF Plain
  <2> QED BY <1>1, <2>1, <2>2, <2>3
<1>4. Dates'
  BY <1>0, <1>2, <1>3 DEF Dates, Plain, File
<1>5. Fresh'
  <2> SUFFICES ASSUME Loading, Top.at = "recheck"
               PROVE  /\ fileModTimes[Top.path] <= Top.file.date /\ Top.file.date <= now'
                      /\ disk'[Top.path] # Nil => Top.file.date <= disk'[Top.path].date
    BY <1>2 DEF Fresh, Loading, Top
  <2>1. Top.path \in Path /\ Top.file \in File
    BY <1>0, BelowWaits DEF Frame, Read
  <2>2. /\ fileModTimes[Top.path] <= Top.file.date /\ Top.file.date <= now
        /\ disk[Top.path] # Nil => Top.file.date <= disk[Top.path].date
    BY <1>0 DEF Fresh
  <2>3. Top.file.date \in Int /\ now \in Int /\ now' \in Int
    BY <1>0, <1>3, <2>1 DEF Plain, File
  <2>4. disk'[Top.path] # Nil => disk'[Top.path].date \in Int
    BY <1>3, <2>1 DEF Plain, File
  <2> QED BY <1>3, <2>1, <2>2, <2>3, <2>4
<1>6. DatesAgree'
  BY <1>0, <1>2, <1>3 DEF DatesAgree, PassedOver, Dates, Plain, File, Pending, Loading, Top
<1>7. Started'
  BY <1>0, <1>2 DEF Started, Loading
<1>8. Copies'
  <2>1. ASSUME NEW x \in Path, NEW f \in File, f.date <= now, IsCopy(f, x),
               disk'[x] # Nil, f.date = disk'[x].date, x \notin edited'
        PROVE  f = disk'[x]
    <3>1. disk'[x].date \in Int /\ f.date \in Int /\ now \in Int
      BY <1>0, <1>3, <2>1 DEF Plain, File
    <3> QED BY <1>3, <2>1, <3>1 DEF IsCopy
  <2>2. ASSUME NEW x \in Path, loaded[x] # Nil
        PROVE  /\ loaded[x].date <= now'
               /\ disk'[x] # Nil /\ loaded[x].date = disk'[x].date /\ x \notin edited'
                    => loaded[x] = disk'[x]
    <3>1. loaded[x] \in File /\ loaded[x].date <= now
      BY <1>0, <2>2 DEF Plain, Copies
    <3>2. loaded[x].date \in Int /\ now \in Int /\ now' \in Int
      BY <1>0, <1>3, <3>1 DEF Plain, File
    <3> QED BY <1>0, <1>3, <2>1, <2>2, <3>1, <3>2 DEF Copies
  <2>3. ASSUME Loading, Top.at = "recheck", disk'[Top.path] # Nil,
               Top.file.date = disk'[Top.path].date, Top.path \notin edited'
        PROVE  Top.file = disk'[Top.path]
    <3>1. Top.path \in Path /\ Top.file \in File
      BY <1>0, <2>3, BelowWaits DEF Frame, Read
    <3> QED BY <1>0, <2>1, <2>3, <3>1 DEF Fresh, Copies
  <2>4. Loading' <=> Loading
    BY <1>2 DEF Loading
  <2>5. Top' = Top
    BY <1>2 DEF Top
  <2> QED BY <1>2, <2>2, <2>3, <2>4, <2>5 DEF Copies, IsCopy
<1> QED BY <1>0, <1>2, <1>3, <1>4, <1>5, <1>6, <1>7, <1>8 DEF LoadingInv

\* An import from the prompt.
LEMMA ImportFromPromptHolds ==
  ASSUME LoadingInv, NEW n \in Name, NEW how \in How, ImportFromPrompt(n, how)
  PROVE  LoadingInv'
<1>0. /\ Plain /\ Dates /\ Fresh /\ Started /\ DatesAgree /\ Copies
      /\ StackInv(frames, fileModTimes)
  BY DEF LoadingInv
<1>1. /\ phase = "prompt" /\ ~Loading /\ Search(n, how, <<>>)
      /\ UNCHANGED <<outsideVars, libraries, fileModTimes, loaded, phase>>
  BY DEF ImportFromPrompt
<1>2. Waits(<<>>, fileModTimes)
  BY <1>0, <1>1 DEF Waits, Loading
<1>3. StackInv(frames', fileModTimes) /\ Innermost({"check", "run", "locate"})
  BY <1>0, <1>1, <1>2, SearchKeeps
<1>4. Plain' /\ phase' # "start" /\ \A p \in Path : ~Pending(p)
  BY <1>0, <1>1 DEF Plain, outsideVars, Pending
<1> QED BY <1>1, <1>3, <1>4, SettledKeeps

\* A library is added.
LEMMA AddLibraryHolds ==
  ASSUME LoadingInv, NEW d \in Directory, AddLibrary(d)
  PROVE  LoadingInv'
<1>0. /\ Plain /\ Dates /\ Fresh /\ Started /\ DatesAgree /\ Copies
      /\ StackInv(frames, fileModTimes)
  BY DEF LoadingInv
<1>1. UNCHANGED <<disk, edited, now, fileModTimes, loaded, phase, frames>>
  BY DEF AddLibrary, outsideVars
<1>2. libraries' \in Seq(Directory) /\ Len(libraries') <= MaxLibraries
  BY <1>0, LoadingAssumption DEF AddLibrary, Plain
<1> QED BY <1>0, <1>1, <1>2 DEF LoadingInv, Plain, Dates, Fresh, Started, Loading, Top,
           DatesAgree, PassedOver, Pending, Copies, IsCopy

\* fscript without a script.
LEMMA StartPromptHolds ==
  ASSUME LoadingInv, StartPrompt
  PROVE  LoadingInv'
<1>0. /\ Plain /\ Dates /\ Fresh /\ Started /\ DatesAgree /\ Copies
      /\ StackInv(frames, fileModTimes)
  BY DEF LoadingInv
<1>1. UNCHANGED <<disk, edited, now, libraries, fileModTimes, loaded, frames>> /\ phase' = "prompt"
  BY DEF StartPrompt, outsideVars
<1> QED BY <1>0, <1>1 DEF LoadingInv, Plain, Dates, Fresh, Started, Loading, Top,
           DatesAgree, PassedOver, Pending, Copies, IsCopy

\* fscript with a script, which is not recorded.
LEMMA StartScriptHolds ==
  ASSUME LoadingInv, NEW p \in Path, StartScript(p)
  PROVE  LoadingInv'
<1>0. /\ Plain /\ Dates /\ Fresh /\ Started /\ DatesAgree /\ Copies
      /\ StackInv(frames, fileModTimes)
  BY DEF LoadingInv
<1> DEFINE load == New(p, "main", "read")
<1>1. /\ phase = "start" /\ phase' = "script" /\ frames' = <<load>>
      /\ UNCHANGED <<disk, edited, now, libraries, fileModTimes, loaded>>
  BY DEF StartScript, outsideVars
<1>2. load \in Frame /\ load.at = "read" /\ load.how = "main" /\ load.path = p /\ Read(load)
  BY LoadingAssumption DEF New, Frame, Read
<1> HIDE DEF load
<1>3. ~Loading
  BY <1>0, <1>1 DEF Started
<1>4. Waits(<<>>, fileModTimes) /\ Append(<<>>, load) = <<load>>
  BY <1>0, <1>2, <1>3 DEF Waits, Loading
<1>5. StackInv(frames', fileModTimes) /\ Top' = load
  <2>1. load.how # "main" /\ load.at # "check" => load.date <= fileModTimes[load.path]
    BY <1>2
  <2>2. load.how # "import"
    BY <1>2
  <2>3. /\ StackInv(Append(<<>>, load), fileModTimes)
        /\ Len(Append(<<>>, load)) = Len(<<>>) + 1
        /\ Append(<<>>, load)[Len(<<>>) + 1] = load
    BY <1>2, <1>4, <2>1, <2>2, PushKeeps
  <2> QED BY <1>1, <1>4, <2>3 DEF Top
<1> QED BY <1>0, <1>1, <1>2, <1>3, <1>5 DEF LoadingInv, Plain, Dates, Fresh, Started,
           DatesAgree, PassedOver, Pending, Copies, IsCopy

\* Every step keeps the invariant.
LEMMA NextHolds == LoadingInv /\ [LoadingNext]_scriptVars => LoadingInv'
BY NothingHappens, ImportFromScriptHolds, CheckModTimeHolds, ReadFileHolds, ExecuteHolds,
   ScriptEndsHolds, ScriptFailsHolds, OutsideHolds, ImportFromPromptHolds, AddLibraryHolds,
   StartPromptHolds, StartScriptHolds DEF LoadingNext, Proceed

-----------------------------------------------------------------------------
\* The invariant holds in every reachable state.
LEMMA LoadingInductive == LoadingSpec => []LoadingInv
<1> QED BY InitHolds, NextHolds, PTL DEF LoadingSpec

\* Type correctness of script loading.
THEOREM LoadingTypeCorrect == LoadingSpec => []LoadingTypeOK
<1>1. LoadingInv => LoadingTypeOK BY InvMeans
<1> QED BY <1>1, LoadingInductive, PTL

\* import: passes over no file that is newer than the one it last ran, whatever
\* other processes do between its steps and however loads fail.
THEOREM NothingNewIsSkipped == LoadingSpec => []NothingNewSkipped
<1>1. LoadingInv => NothingNewSkipped BY InvMeans
<1> QED BY <1>1, LoadingInductive, PTL

\* import: does not load a file within itself, but for a newer one, however the
\* files import each other.
THEOREM NeverLoadedWithinItself == LoadingSpec => []NotLoadedWithinItself
<1>1. LoadingInv => NotLoadedWithinItself BY InvMeans
<1> QED BY <1>1, LoadingInductive, PTL
=============================================================================
