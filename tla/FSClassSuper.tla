----------------------------- MODULE FSClassSuper -----------------------------
(***************************************************************************)
(* A message to an object or a class and the calls to super that its       *)
(* blocks make (Callbacks.m, doSuperMethod:currentClass:...).  A block     *)
(* names the class it was given to, so that a frame of the call stack is   *)
(* that class.  Messages are those of objects and classes that FSClass     *)
(* made; only these understand doSuperMethod.                              *)
(***************************************************************************)
EXTENDS FSClassMethods

CONSTANTS
  NoWith,       \* selectors with more than 5 arguments
  MaxDepth      \* bound on the frames

ASSUME SuperAssumption == NoWith \subseteq Sel /\ MaxDepth \in Nat \ {0}

VARIABLES
  receiver,     \* class of the object, or class, that got the message, or Nil
  level,        \* "instance" or "class": which of the two it is
  message,      \* the selector
  frames,       \* classes whose blocks are running, the caller first
  result        \* how the last message, or call to super, ended

stackVars == <<receiver, level, message, frames, result>>
superVars == <<methodsVars, stackVars>>

\* Mutant: the dictionaries of all classes are searched
LookedEverywhere(side, c, s) ==
  LET S == {a \in Class : methods[side][a][s] # Nil} IN
    IF S = {} THEN {} ELSE {CHOOSE a \in S : TRUE}

\* The class whose block runInstanceMethodArgs or runClassMethodArgs finds for
\* the receiver, as a set of at most one
Looked(side, c, s) ==
  LET S == {a \in fsChain[c] : methods[side][a][s] # Nil} IN
    IF side = "class" THEN S \cap {c} ELSE IF S = {} THEN {} ELSE {Nearest(c, S)}

\* What a message dispatched from class `from` of c's chain, or from nowhere,
\* does: run a block, or do all its work outside FSClass, or throw
Dispatch(side, c, s, from) ==
  LET S == UNION {Implementors(side, a, s) : a \in from}
      k == CHOOSE a \in S : S \subseteq chain[a]
  IN IF S = {} THEN result' = "notUnderstood" /\ UNCHANGED frames
     ELSE IF imp[side][k][s] \in Block
     THEN frames' = Append(frames, k) /\ result' = "running"
     ELSE IF imp[side][k][s] = "lookup" /\ Looked(side, c, s) # {}
     THEN \E a \in Looked(side, c, s) : frames' = Append(frames, a) /\ result' = "running"
     ELSE result' = "returned" /\ UNCHANGED frames

Superclass(c) == {a \in chain[c] \ {c} : chain[c] \ {c} \subseteq chain[a]}

Message(side, c, s) ==
  /\ frames = <<>>
  /\ c \in Created
  /\ receiver' = c /\ level' = side /\ message' = s
  /\ Dispatch(side, c, s, {c})
  /\ UNCHANGED methodsVars

\* Mutant: the search starts at the receiver's superclass
SuperOfReceiver ==
  /\ frames # <<>> /\ Len(frames) < MaxDepth
  /\ message \notin NoWith
  /\ IF chain[receiver] \cap allocator = {}
     THEN result' = "notUnderstood" /\ UNCHANGED frames
     ELSE Dispatch(level, receiver, message, Superclass(receiver))
  /\ UNCHANGED <<methodsVars, receiver, level, message>>

\* doSuperMethod:currentClass: and ...with:, for up to 5 arguments: the message
\* goes to the superclass of the class that the block names
SuperWith ==
  /\ frames # <<>> /\ Len(frames) < MaxDepth
  /\ message \notin NoWith
  /\ IF chain[receiver] \cap allocator = {}
     THEN result' = "notUnderstood" /\ UNCHANGED frames
     ELSE Dispatch(level, receiver, message, Superclass(frames[Len(frames)]))
  /\ UNCHANGED <<methodsVars, receiver, level, message>>

\* Mutant: the block is looked up from the receiver's own class
SuperMultiAgain ==
  /\ frames # <<>> /\ Len(frames) < MaxDepth
  /\ IF message \notin Long \/ fsChain[receiver] = {receiver}
     THEN Dispatch(level, receiver, message, Superclass(frames[Len(frames)]))
     ELSE \E a \in Looked(level, receiver, message) :
            frames' = Append(frames, a) /\ result' = "running"
  /\ UNCHANGED <<methodsVars, receiver, level, message>>

\* doSuperMethod:currentClass:withArguments: does the same for the selectors of
\* trampolines and for classes without an FSClass parent; otherwise it looks the
\* block up, from the receiver's parent
SuperMulti ==
  /\ frames # <<>> /\ Len(frames) < MaxDepth
  /\ IF chain[receiver] \cap allocator = {}
     THEN result' = "notUnderstood" /\ UNCHANGED frames
     ELSE IF message \notin Long \/ fsChain[receiver] = {receiver}
     THEN Dispatch(level, receiver, message, Superclass(frames[Len(frames)]))
     ELSE LET parent == Nearest(receiver, fsChain[receiver] \ {receiver})
              found == Looked(level, parent, message)
          IN IF found = {} THEN result' = "returned" /\ UNCHANGED frames
             ELSE \E a \in found : frames' = Append(frames, a) /\ result' = "running"
  /\ UNCHANGED <<methodsVars, receiver, level, message>>

\* The block at the top ends, or an exception unwinds all of them
Return ==
  /\ frames # <<>>
  /\ frames' = SubSeq(frames, 1, Len(frames) - 1) /\ result' = "returned"
  /\ UNCHANGED <<methodsVars, receiver, level, message>>

Unwind ==
  /\ frames # <<>>
  /\ frames' = <<>> /\ result' = "threw"
  /\ UNCHANGED <<methodsVars, receiver, level, message>>

SuperInit ==
  /\ MethodsInit
  /\ receiver = Nil /\ level = "instance" /\ message = Nil
  /\ frames = <<>> /\ result = "none"

\* The blocks may themselves create classes and give methods
SuperNext ==
  \/ MethodsNext /\ UNCHANGED stackVars
  \/ \E side \in Side, c \in Class, s \in Sel : Message(side, c, s)
  \/ SuperWith \/ SuperMulti
  \/ Return \/ Unwind

SuperSpec == SuperInit /\ [][SuperNext]_superVars

-----------------------------------------------------------------------------
(* Properties                                                              *)

\* Every variable has its type, and the blocks that run are those of the
\* receiver's superclasses.
SuperTypeOK ==
  /\ receiver \in Created \cup {Nil} /\ level \in Side /\ message \in Sel \cup {Nil}
  /\ Len(frames) <= MaxDepth
  /\ \A i \in 1..Len(frames) : frames[i] \in chain[receiver]
  /\ result \in {"none", "running", "returned", "notUnderstood", "threw"}

Above(a, b) == b \in chain[a] \ {a}     \* b is a proper superclass of a

\* A call to super from a block of few arguments reaches a block of a proper
\* superclass of the class that the block belongs to, on every level of the
\* chain and whatever was redefined since the outermost message was sent.
SuperGoesUp ==
  message \notin Long =>
    \A i \in 1..(Len(frames) - 1) : Above(frames[i], frames[i + 1])

\* From the block of the receiver's own class also a call to super with many
\* arguments goes up, to the block that the class would have inherited.
OnlyLookedUp(c, s) ==
  /\ \A a \in chain[c] : imp["instance"][a][s] \in {"none", "lookup"}
  /\ chain[c] \cap ObjCClass \cap Implementors("instance", c, s) = {}

FirstSuperGoesUp ==
  [][SuperMulti /\ level = "instance" /\ frames = <<receiver>> /\ Len(frames') = 2
     /\ OnlyLookedUp(receiver, message)
     => LET S == Implementors("instance", receiver, message) \ {receiver}
        IN S # {} /\ frames'[2] = Nearest(receiver, S)]_superVars

-----------------------------------------------------------------------------
(* What the documentation says, and the code does not do                   *)

\* doSuperMethod:currentClass: is "used for accessing superclass methods"
\* (index.html:875), also those of many arguments.
SuperReachesSuperclass ==
  \A i \in 1..(Len(frames) - 1) : Above(frames[i], frames[i + 1])
=============================================================================
