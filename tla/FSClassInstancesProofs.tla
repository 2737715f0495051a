----------------------- MODULE FSClassInstancesProofs -----------------------
(***************************************************************************)
(* Proofs about FSClassCreation and FSClassInstances, for any classes,      *)
(* objects and properties.  The invariants a script can observe are not     *)
(* inductive alone: creating a class below an Objective-C class needs to    *)
(* know that the runtime's hierarchy of compiled classes is untouched, that *)
(* a class is in the runtime before it is registered, and that every class  *)
(* FSClass made is registered.  Shape says so.                              *)
(***************************************************************************)
EXTENDS FSClassInstances, TLAPS

Shape ==
  /\ \A c \in Class : chain[c] # {} => c \in chain[c]
  /\ \A c \in Class : fsChain[c] # {} => c \in fsChain[c]
  /\ Registered \subseteq Runtime
  /\ Created \subseteq Registered
  /\ \A c \in ObjCClass : chain[c] = ObjCChain[c]
  /\ \A c \in ObjCClass : fsChain[c] \subseteq {c}
  /\ useFastIvars \cup dictIvar \cup hasIvarDictionary
       \cup allocator \cup parentAllocImp \subseteq Created

CreationInv ==
  /\ CreationTypeOK
  /\ Shape
  /\ ChainIsLine
  /\ WalkIsComplete
  /\ AllocatorHasImp
  /\ OneIvarDictionary

-----------------------------------------------------------------------------
(* Type correctness                                                        *)

\* Initially there are compiled classes only, and every variable is typed.
LEMMA InitTypeOK == CreationInit => CreationTypeOK
BY CreationAssumption
   DEF CreationInit, CreationTypeOK, NoEntries, Stored, Calls

\* Making up the FSClass of a class keeps the parentClass chains typed.
LEMMA ShadowType ==
  ASSUME CreationTypeOK, NEW c \in Class, ShadowForClass(c)
  PROVE  fsChain' \in [Class -> SUBSET Class]
BY DEF CreationTypeOK, ShadowForClass

\* A class that is not in the runtime is not a compiled one.
LEMMA FreeNameIsNotObjC ==
  ASSUME CreationTypeOK, Shape, NEW n, NameIsFree(n)
  PROVE  n \in Class \ ObjCClass
BY CreationAssumption DEF NameIsFree, Shape, Runtime

\* createNewClass and initNewClass give typed hierarchies.
LEMMA InitNewClassType ==
  ASSUME CreationTypeOK, Shape,
         NEW n, NameIsFree(n), NEW parent \in Runtime, InitNewClass(n, parent)
  PROVE  /\ chain' \in [Class -> SUBSET Class]
         /\ fsChain' \in [Class -> SUBSET Class]
         /\ allocator' \subseteq Class \ ObjCClass
         /\ parentAllocImp' \subseteq Class \ ObjCClass
BY FreeNameIsNotObjC DEF CreationTypeOK, InitNewClass, Runtime

\* A call that creates no class leaves the hierarchy's variables typed.
LEMMA QuietType ==
  ASSUME CreationTypeOK, UNCHANGED hierarchyVars,
         fsChain' \in [Class -> SUBSET Class],
         properties' \in [Class -> [Prop -> Stored \cup {Nil}]],
         classCounter' \in 0..MaxAnonymous,
         outcome' \in [call : Calls, threw : BOOLEAN]
  PROVE  CreationTypeOK'
BY DEF CreationTypeOK, hierarchyVars

\* A call returns or throws, and says which call it was.
LEMMA OutcomeType ==
  ASSUME NEW call \in Calls, Returns(call) \/ Throws(call)
  PROVE  outcome' \in [call : Calls, threw : BOOLEAN]
<1>1. CASE Returns(call)  BY <1>1 DEF Returns
<1>2. CASE Throws(call)   BY <1>2 DEF Throws
<1>. QED BY <1>1, <1>2

\* A step keeps every variable typed (FSClassCreation.m, FSClass.m init*).
LEMMA StepTypeOK ==
  ASSUME CreationTypeOK, Shape, [CreationNext]_creationVars
  PROVE  CreationTypeOK'
<1>1. CASE UNCHANGED creationVars
  BY <1>1 DEF creationVars, hierarchyVars, CreationTypeOK
<1>2. ASSUME NEW c \in Class, Reflect(c) \/ Subclass(c) \/ RefuseProperties(c)
      PROVE  CreationTypeOK'
  <2>1. /\ ShadowForClass(c)
        /\ UNCHANGED <<hierarchyVars, properties, classCounter>>
    BY <1>2 DEF Reflect, Subclass, RefuseProperties
  <2>2. outcome' \in [call : Calls, threw : BOOLEAN]
    <3>1. \E call \in Calls : Returns(call) \/ Throws(call)
      BY <1>2 DEF Reflect, Subclass, RefuseProperties, Calls
    <3>. QED BY <3>1, OutcomeType
  <2>. QED BY <2>1, <2>2, ShadowType, QuietType DEF CreationTypeOK
<1>3. ASSUME NEW n, NEW parent \in Runtime, NameIsFree(n),
             InitRegularIvarsClass(n, parent),
             NEW k \in 0..MaxAnonymous, classCounter' = k,
             NEW call \in Calls, Returns(call)
      PROVE  CreationTypeOK'
  BY <1>3, InitNewClassType, FreeNameIsNotObjC
     DEF InitRegularIvarsClass, CreationTypeOK, Returns
<1>4. ASSUME NEW n, NEW parent \in Class, NewClass(n, parent)
      PROVE  CreationTypeOK'
  <2>1. CASE NameIsFree(n)
    BY <1>4, <2>1, <1>3 DEF NewClass, CreationTypeOK, Calls, Runtime
  <2>2. CASE ~NameIsFree(n)
    <3>1. UNCHANGED <<hierarchyVars, fsChain, properties>> /\ Throws("newClass")
          /\ UNCHANGED classCounter
      BY <1>4, <2>2 DEF NewClass
    <3>. QED BY <3>1, QuietType, OutcomeType DEF CreationTypeOK, Calls
  <2>. QED BY <2>1, <2>2
<1>5. ASSUME NEW parent \in Class, NewAnonymousClass(parent)
      PROVE  CreationTypeOK'
  <2>. DEFINE n == AnonymousName[classCounter + 1]
  <2>1. classCounter' \in 0..MaxAnonymous
    BY <1>5, CreationAssumption DEF NewAnonymousClass, CreationTypeOK
  <2>2. CASE NameIsFree(n)
    <3>1. InitRegularIvarsClass(n, parent) /\ Returns("newAnonymousClass")
          /\ parent \in Runtime
      BY <1>5, <2>2 DEF NewAnonymousClass
    <3>. QED BY <2>1, <2>2, <3>1, <1>3 DEF Calls
  <2>3. CASE ~NameIsFree(n)
    <3>1. UNCHANGED <<hierarchyVars, fsChain, properties>>
          /\ Throws("newAnonymousClass")
      BY <1>5, <2>3 DEF NewAnonymousClass
    <3>. QED BY <2>1, <3>1, QuietType, OutcomeType DEF CreationTypeOK, Calls
  <2>. QED BY <2>2, <2>3
<1>6. ASSUME NEW n, NEW parent \in Class,
             NEW defaults \in [Prop -> Stored \cup {Nil}],
             NewFastClass(n, parent, defaults)
      PROVE  CreationTypeOK'
  <2>1. CASE outcome' = [call |-> "newFastClass", threw |-> FALSE]
    <3>1. NameIsFree(n) /\ InitFastIvarsClass(n, parent, defaults)
          /\ parent \in Runtime /\ classCounter' = classCounter
      BY <1>6, <2>1 DEF NewFastClass, Throws
    <3>. QED
      BY <3>1, <2>1, InitNewClassType, FreeNameIsNotObjC
         DEF InitFastIvarsClass, CreationTypeOK, Calls
  <2>2. CASE outcome' # [call |-> "newFastClass", threw |-> FALSE]
    <3>1. UNCHANGED <<hierarchyVars, fsChain, properties>>
          /\ Throws("newFastClass") /\ UNCHANGED classCounter
      BY <1>6, <2>2 DEF NewFastClass, Returns
    <3>. QED BY <3>1, QuietType, OutcomeType DEF CreationTypeOK, Calls
  <2>. QED BY <2>1, <2>2
<1>7. ASSUME NEW c \in Class, NEW decl \in DeclarationLists, NEW odd \in BOOLEAN,
             AddProperties(c, decl, odd)
      PROVE  CreationTypeOK'
  <2>1. PICK k \in 0..Len(decl) :
           properties' =
            [properties EXCEPT ![c] = [p \in Prop |->
               IF \E i \in 1..k : decl[i].name = p
               THEN ToStored(decl[CHOOSE i \in 1..k : decl[i].name = p].default)
               ELSE properties[c][p]]]
    BY <1>7 DEF AddProperties
  <2>2. ASSUME NEW i \in 1..k PROVE ToStored(decl[i].default) \in Stored
    <3>1. PICK m \in 1..MaxList : decl \in [1..m -> Declaration]
      BY DEF DeclarationLists
    <3>2. Len(decl) = m
      BY <3>1, CreationAssumption
    <3>3. decl[i] \in Declaration
      BY <3>1, <3>2, CreationAssumption
    <3>. QED BY <3>3 DEF Declaration, ToStored, Stored
  <2>3. properties' \in [Class -> [Prop -> Stored \cup {Nil}]]
    BY <2>1, <2>2 DEF CreationTypeOK
  <2>4. outcome' \in [call : Calls, threw : BOOLEAN]
    <3>1. \E call \in Calls : Returns(call) \/ Throws(call)
      BY <1>7 DEF AddProperties, Calls
    <3>. QED BY <3>1, OutcomeType
  <2>5. UNCHANGED <<hierarchyVars, fsChain, classCounter>>
    BY <1>7 DEF AddProperties
  <2>. QED BY <2>3, <2>4, <2>5, QuietType DEF CreationTypeOK
<1>8. ASSUME NEW c \in Class, NEW p \in Prop, NEW v \in Value \cup {Nil},
             SetDefaultValue(c, p, v)
      PROVE  CreationTypeOK'
  <2>1. ToStored(v) \in Stored
    BY DEF ToStored, Stored
  <2>2. properties' \in [Class -> [Prop -> Stored \cup {Nil}]]
    BY <1>8, <2>1 DEF SetDefaultValue, CreationTypeOK
  <2>3. outcome' \in [call : Calls, threw : BOOLEAN]
    <3>1. \E call \in Calls : Returns(call) \/ Throws(call)
      BY <1>8 DEF SetDefaultValue, Calls
    <3>. QED BY <3>1, OutcomeType
  <2>4. ShadowForClass(c) /\ UNCHANGED <<hierarchyVars, classCounter>>
    BY <1>8 DEF SetDefaultValue
  <2>. QED BY <2>2, <2>3, <2>4, ShadowType, QuietType DEF CreationTypeOK
<1>. QED
  BY <1>1, <1>2, <1>4, <1>5, <1>6, <1>7, <1>8 DEF CreationNext

-----------------------------------------------------------------------------
(* The hierarchy                                                           *)

\* What class creation does to the instance-variable variables, whichever of
\* the two kinds of class is made.
Creates(n, parent) ==
  /\ parent \in Runtime
  /\ NameIsFree(n)
  /\ InitNewClass(n, parent)
  /\ \/ /\ useFastIvars' = useFastIvars
        /\ dictIvar' = IF parent \in hasIvarDictionary
                       THEN dictIvar ELSE dictIvar \cup {n}
        /\ hasIvarDictionary' = hasIvarDictionary \cup {n}
     \/ /\ useFastIvars' = useFastIvars \cup {n}
        /\ dictIvar' = dictIvar
        /\ hasIvarDictionary' = IF parent \in hasIvarDictionary
                                THEN hasIvarDictionary \cup {n}
                                ELSE hasIvarDictionary

\* As far as the hierarchy goes a step creates a class, makes a proxy, or
\* does nothing.
LEMMA StepKinds ==
  ASSUME [CreationNext]_creationVars
  PROVE  \/ UNCHANGED <<hierarchyVars, fsChain>>
         \/ UNCHANGED hierarchyVars /\ \E c \in Runtime : ShadowForClass(c)
         \/ \E n \in Class, parent \in Runtime : Creates(n, parent)
<1>1. CASE UNCHANGED creationVars
  BY <1>1 DEF creationVars
<1>2. ASSUME NEW c \in Class, Reflect(c) \/ Subclass(c) \/ RefuseProperties(c)
      PROVE  UNCHANGED hierarchyVars /\ \E d \in Runtime : ShadowForClass(d)
  BY <1>2 DEF Reflect, Subclass, RefuseProperties
<1>3. ASSUME NEW n, NEW parent \in Runtime, NameIsFree(n),
             InitRegularIvarsClass(n, parent)
      PROVE  n \in Class /\ Creates(n, parent)
  BY <1>3 DEF InitRegularIvarsClass, Creates, NameIsFree
<1>4. ASSUME NEW n, NEW parent \in Class, NewClass(n, parent)
      PROVE  \/ UNCHANGED <<hierarchyVars, fsChain>>
             \/ \E m \in Class, q \in Runtime : Creates(m, q)
  BY <1>4, <1>3 DEF NewClass
<1>5. ASSUME NEW parent \in Class, NewAnonymousClass(parent)
      PROVE  \/ UNCHANGED <<hierarchyVars, fsChain>>
             \/ \E m \in Class, q \in Runtime : Creates(m, q)
  BY <1>5, <1>3 DEF NewAnonymousClass
<1>6. ASSUME NEW n, NEW parent \in Class,
             NEW defaults \in [Prop -> Stored \cup {Nil}],
             NewFastClass(n, parent, defaults)
      PROVE  \/ UNCHANGED <<hierarchyVars, fsChain>>
             \/ \E m \in Class, q \in Runtime : Creates(m, q)
  <2>1. CASE outcome' = [call |-> "newFastClass", threw |-> FALSE]
    <3>1. NameIsFree(n) /\ InitFastIvarsClass(n, parent, defaults)
          /\ parent \in Runtime
      BY <1>6, <2>1 DEF NewFastClass, Throws
    <3>2. n \in Class /\ Creates(n, parent)
      BY <3>1 DEF InitFastIvarsClass, Creates, NameIsFree
    <3>. QED BY <3>1, <3>2
  <2>2. CASE outcome' # [call |-> "newFastClass", threw |-> FALSE]
    <3>1. UNCHANGED <<hierarchyVars, fsChain, properties>>
      BY <1>6, <2>2 DEF NewFastClass, Returns
    <3>. QED BY <3>1
  <2>. QED BY <2>1, <2>2
<1>7. ASSUME NEW c \in Class, NEW decl \in DeclarationLists, NEW odd \in BOOLEAN,
             AddProperties(c, decl, odd)
      PROVE  UNCHANGED <<hierarchyVars, fsChain>>
  BY <1>7 DEF AddProperties
<1>8. ASSUME NEW c \in Class, NEW p \in Prop, NEW v \in Value \cup {Nil},
             SetDefaultValue(c, p, v)
      PROVE  UNCHANGED hierarchyVars /\ \E d \in Runtime : ShadowForClass(d)
  BY <1>8 DEF SetDefaultValue
<1>. QED
  BY <1>1, <1>2, <1>4, <1>5, <1>6, <1>7, <1>8 DEF CreationNext

\* Initially the hierarchy is the compiled one and nothing is registered.
LEMMA InitHierarchy == CreationInit => CreationInv
<1>. SUFFICES ASSUME CreationInit PROVE CreationInv
  OBVIOUS
<1>. USE CreationAssumption DEF CreationInit
<1>1. CreationTypeOK
  BY InitTypeOK
<1>2. Runtime = ObjCClass /\ Registered = {} /\ Created = {}
  BY DEF Runtime, Registered, Created
<1>3. Shape
  BY <1>2 DEF Shape
<1>4. \A c \in ObjCClass : chain[c] = ObjCChain[c] /\ ObjCChain[c] \subseteq ObjCClass
  OBVIOUS
<1>5. ChainIsLine
  <2>. SUFFICES ASSUME NEW c \in Runtime, NEW d \in chain[c], NEW e \in chain[c]
                PROVE  /\ d \in Runtime
                       /\ chain[d] \subseteq chain[c]
                       /\ d \in chain[e] \/ e \in chain[d]
    BY DEF ChainIsLine
  <2>1. /\ c \in ObjCClass /\ d \in ObjCClass /\ e \in ObjCClass
        /\ d \in ObjCChain[c] /\ e \in ObjCChain[c]
    BY ONLY <1>2, <1>4
  <2>2. chain[c] = ObjCChain[c] /\ chain[d] = ObjCChain[d] /\ chain[e] = ObjCChain[e]
    BY ONLY <1>4, <2>1
  <2>3. ObjCChain[d] \subseteq ObjCChain[c] /\ (d \in ObjCChain[e] \/ e \in ObjCChain[d])
    BY ONLY <2>1, CreationAssumption
  <2>. QED BY ONLY <1>2, <2>1, <2>2, <2>3
<1>. QED
  BY <1>1, <1>2, <1>3, <1>5
     DEF CreationInv, WalkIsComplete, AllocatorHasImp, OneIvarDictionary

\* Making a proxy, for the first time or again, disturbs none of the
\* invariants: it only gives the class a parentClass chain of one.
LEMMA ShadowHierarchy ==
  ASSUME CreationInv, UNCHANGED hierarchyVars,
         NEW c \in Runtime, ShadowForClass(c)
  PROVE  Shape' /\ ChainIsLine' /\ WalkIsComplete' /\ AllocatorHasImp'
         /\ OneIvarDictionary'
<1>. USE DEF CreationInv
<1>1. /\ chain' = chain /\ useFastIvars' = useFastIvars /\ dictIvar' = dictIvar
      /\ hasIvarDictionary' = hasIvarDictionary
      /\ allocator' = allocator /\ parentAllocImp' = parentAllocImp
  BY DEF hierarchyVars
<1>2. Runtime' = Runtime /\ Created' = Created
  BY <1>1 DEF Runtime, Created
<1>3. CASE c \in Registered
  <2>1. fsChain' = fsChain /\ Registered' = Registered
    BY <1>3 DEF ShadowForClass, Registered
  <2>. QED
    BY <1>1, <1>2, <2>1
       DEF Shape, ChainIsLine, WalkIsComplete, AllocatorHasImp, OneIvarDictionary
<1>4. CASE c \notin Registered
  <2>1. fsChain' = [fsChain EXCEPT ![c] = {c}]
    BY <1>4 DEF ShadowForClass
  <2>2. c \in ObjCClass /\ c \in Class /\ c \in chain[c]
    BY <1>4 DEF Shape, Created, Runtime
  <2>3. Registered' = Registered \cup {c}
    BY <2>1, <2>2 DEF Registered, CreationTypeOK
  <2>4. Shape'
    BY <1>1, <1>2, <2>1, <2>2, <2>3 DEF Shape, CreationTypeOK
  <2>5. chain[c] \cap Created = {}
    BY <2>2, CreationAssumption DEF Shape, Created
  <2>6. WalkIsComplete'
    BY <1>1, <1>2, <2>1, <2>2, <2>3, <2>5 DEF WalkIsComplete, CreationTypeOK
  <2>. QED
    BY <1>1, <1>2, <2>4, <2>6 DEF ChainIsLine, AllocatorHasImp, OneIvarDictionary
<1>. QED BY <1>3, <1>4

\* Creating a class below a compiled class, a proxied one or one of FSClass's
\* own keeps every invariant, in either of the two kinds.
LEMMA CreateHierarchy ==
  ASSUME CreationInv, NEW n \in Class, NEW parent \in Runtime, Creates(n, parent)
  PROVE  Shape' /\ ChainIsLine' /\ WalkIsComplete' /\ AllocatorHasImp'
         /\ OneIvarDictionary'
<1>. USE DEF CreationInv
<1>1. /\ chain' = [chain EXCEPT ![n] = {n} \cup chain[parent]]
      /\ fsChain' = [fsChain EXCEPT ![n] = {n} \cup fsChain[parent]]
      /\ n \notin Runtime /\ n \notin Registered /\ n \notin ObjCClass
      /\ parent \in Class /\ parent # n
  BY FreeNameIsNotObjC DEF Creates, InitNewClass, NameIsFree, Shape, Runtime
<1>2. /\ chain'[n] = {n} \cup chain[parent]
      /\ fsChain'[n] = {n} \cup fsChain[parent]
      /\ \A c \in Class \ {n} : chain'[c] = chain[c] /\ fsChain'[c] = fsChain[c]
  BY <1>1 DEF CreationTypeOK
<1>3. Runtime' = Runtime \cup {n} /\ Registered' = Registered \cup {n}
      /\ Created' = Created \cup {n}
  BY <1>1, <1>2 DEF Runtime, Registered, Created
<1>4. \A c \in Runtime : n \notin chain[c] /\ chain[c] \subseteq Runtime
  BY <1>1 DEF ChainIsLine
<1>5. parent \in chain[parent] /\ (parent \notin Registered => fsChain[parent] = {})
  BY <1>1 DEF Shape, Runtime, Registered
<1>6. /\ n \notin allocator /\ n \notin dictIvar /\ n \notin hasIvarDictionary
      /\ n \notin parentAllocImp
  BY <1>1 DEF Shape, Created
<1>7. Shape'
  <2>1. /\ \A c \in Class : chain'[c] # {} => c \in chain'[c]
        /\ \A c \in Class : fsChain'[c] # {} => c \in fsChain'[c]
    BY <1>2 DEF Shape
  <2>2. Registered' \subseteq Runtime' /\ Created' \subseteq Registered'
    BY <1>3 DEF Shape
  <2>3. /\ \A c \in ObjCClass : chain'[c] = ObjCChain[c]
        /\ \A c \in ObjCClass : fsChain'[c] \subseteq {c}
    BY <1>1, <1>2, CreationAssumption DEF Shape
  <2>4. useFastIvars' \cup dictIvar' \cup hasIvarDictionary'
          \cup allocator' \cup parentAllocImp' \subseteq Created'
    BY <1>3 DEF Shape, Creates, InitNewClass
  <2>. QED BY <2>1, <2>2, <2>3, <2>4 DEF Shape
<1>8. ChainIsLine'
  <2>. SUFFICES ASSUME NEW c \in Runtime', NEW d \in chain'[c], NEW e \in chain'[c]
                PROVE  /\ d \in Runtime'
                       /\ chain'[d] \subseteq chain'[c]
                       /\ d \in chain'[e] \/ e \in chain'[d]
    BY DEF ChainIsLine
  <2>1. CASE c # n
    <3>1. c \in Runtime /\ d \in chain[c] /\ e \in chain[c] /\ chain'[c] = chain[c]
      BY <2>1, <1>2, <1>3 DEF Runtime
    <3>2. d \in Runtime /\ e \in Runtime /\ d # n /\ e # n
      BY <3>1, <1>1, <1>4
    <3>. QED BY <3>1, <3>2, <1>2, <1>3 DEF ChainIsLine, Runtime
  <2>2. CASE c = n
    <3>1. d \in chain'[n] /\ e \in chain'[n]
      BY <2>2
    <3>2. ASSUME NEW a \in chain[parent]
          PROVE  a \in Runtime /\ a # n /\ chain'[a] = chain[a]
                 /\ chain[a] \subseteq chain[parent]
      BY <1>1, <1>2, <1>4 DEF ChainIsLine, Runtime
    <3>3. d = n \/ d \in chain[parent]
      BY <3>1, <1>2
    <3>4. e = n \/ e \in chain[parent]
      BY <3>1, <1>2
    <3>5. d \in Runtime' /\ chain'[d] \subseteq chain'[n]
      BY <3>2, <3>3, <1>2, <1>3
    <3>6. d = n \/ e = n => d \in chain'[e] \/ e \in chain'[d]
      BY <3>1
    <3>7. ASSUME d \in chain[parent], e \in chain[parent]
          PROVE  d \in chain'[e] \/ e \in chain'[d]
      <4>1. d \in chain[e] \/ e \in chain[d]
        BY <3>7 DEF ChainIsLine
      <4>. QED BY <3>2, <3>7, <4>1
    <3>. QED BY <2>2, <3>3, <3>4, <3>5, <3>6, <3>7
  <2>. QED BY <2>1, <2>2
<1>9. WalkIsComplete'
  <2>. SUFFICES ASSUME NEW c \in Registered'
                PROVE  /\ fsChain'[c] \subseteq chain'[c] \cap Registered'
                       /\ chain'[c] \cap Created' \subseteq fsChain'[c]
    BY DEF WalkIsComplete
  <2>1. CASE c # n
    <3>1. c \in Registered /\ c \in Runtime /\ c \in Class
      BY <2>1, <1>3 DEF Shape, Registered
    <3>. QED BY <2>1, <3>1, <1>2, <1>3, <1>4 DEF WalkIsComplete
  <2>2. CASE c = n /\ parent \in Registered
    <3>1. /\ fsChain[parent] \subseteq chain[parent] \cap Registered
          /\ chain[parent] \cap Created \subseteq fsChain[parent]
      BY <2>2 DEF WalkIsComplete
    <3>. QED BY <2>2, <3>1, <1>2, <1>3, <1>4
  <2>3. CASE c = n /\ parent \notin Registered
    <3>1. parent \in ObjCClass
      BY <2>3 DEF Shape, Created
    <3>2. chain[parent] \cap Created = {}
      BY <3>1, CreationAssumption DEF Shape, Created
    <3>. QED BY <2>3, <3>2, <1>2, <1>3, <1>5
  <2>. QED BY <2>1, <2>2, <2>3
<1>10. ASSUME NEW X, NEW c \in Created
       PROVE  /\ chain'[c] = chain[c] /\ c # n /\ c \in Runtime
              /\ chain'[c] \cap (X \cup {n}) = chain[c] \cap X
  BY <1>1, <1>2, <1>4 DEF Created, Runtime
<1>11. \A c \in ObjCClass : chain[c] \cap Created = {}
  BY CreationAssumption DEF Shape, Created
<1>12. AllocatorHasImp'
  <2>. SUFFICES ASSUME NEW c \in Created'
                PROVE  (chain'[c] \cap allocator' # {}) <=> c \in parentAllocImp'
    BY DEF AllocatorHasImp
  <2>1. CASE c # n
    <3>1. c \in Created
      BY <2>1, <1>3
    <3>2. chain'[c] \cap allocator' = chain[c] \cap allocator
      BY <3>1, <1>10 DEF Creates, InitNewClass
    <3>3. c \in parentAllocImp' <=> c \in parentAllocImp
      BY <2>1 DEF Creates, InitNewClass
    <3>. QED BY <3>1, <3>2, <3>3 DEF AllocatorHasImp
  <2>2. CASE c = n /\ parent \notin Registered
    BY <2>2, <1>2 DEF Creates, InitNewClass
  <2>3. CASE c = n /\ parent \in Registered
    <3>1. chain'[n] \cap allocator' = chain[parent] \cap allocator
      BY <2>3, <1>2, <1>6 DEF Creates, InitNewClass
    <3>2. n \in parentAllocImp' <=> parent \in parentAllocImp
      BY <2>3, <1>6 DEF Creates, InitNewClass
    <3>3. CASE parent \in Created
      BY <2>3, <3>1, <3>2, <3>3 DEF AllocatorHasImp
    <3>4. CASE parent \in ObjCClass
      BY <2>3, <3>1, <3>2, <3>4, <1>11 DEF Shape, Created
    <3>. QED BY <3>3, <3>4 DEF Created
  <2>. QED BY <2>1, <2>2, <2>3
<1>13. OneIvarDictionary'
  <2>. SUFFICES ASSUME NEW c \in Created'
                PROVE  /\ c \in hasIvarDictionary' <=> chain'[c] \cap dictIvar' # {}
                       /\ \A d, e \in chain'[c] \cap dictIvar' : d = e
    BY DEF OneIvarDictionary
  <2>1. CASE c # n
    <3>1. c \in Created
      BY <2>1, <1>3
    <3>2. chain'[c] \cap dictIvar' = chain[c] \cap dictIvar
      BY <3>1, <1>10 DEF Creates
    <3>3. c \in hasIvarDictionary' <=> c \in hasIvarDictionary
      BY <2>1 DEF Creates
    <3>. QED BY <3>1, <3>2, <3>3 DEF OneIvarDictionary
  <2>2. CASE c = n
    <3>1. /\ parent \in hasIvarDictionary <=> chain[parent] \cap dictIvar # {}
          /\ \A d, e \in chain[parent] \cap dictIvar : d = e
      <4>1. CASE parent \in Created
        BY <4>1 DEF OneIvarDictionary
      <4>2. CASE parent \in ObjCClass
        BY <4>2, <1>11 DEF Shape, Created
      <4>. QED BY <4>1, <4>2 DEF Created
    <3>. QED BY <2>2, <3>1, <1>2, <1>6 DEF Creates
  <2>. QED BY <2>1, <2>2
<1>. QED BY <1>7, <1>8, <1>9, <1>12, <1>13

\* The invariant is inductive.
LEMMA StepHierarchy ==
  ASSUME CreationInv, [CreationNext]_creationVars
  PROVE  CreationInv'
<1>1. CreationTypeOK'
  BY StepTypeOK DEF CreationInv
<1>2. CASE UNCHANGED <<hierarchyVars, fsChain>>
  <2>1. /\ chain' = chain /\ useFastIvars' = useFastIvars /\ dictIvar' = dictIvar
        /\ hasIvarDictionary' = hasIvarDictionary /\ allocator' = allocator
        /\ parentAllocImp' = parentAllocImp /\ fsChain' = fsChain
    BY <1>2 DEF hierarchyVars
  <2>2. Runtime' = Runtime /\ Registered' = Registered /\ Created' = Created
    BY <2>1 DEF Runtime, Registered, Created
  <2>. QED
    BY <1>1, <2>1, <2>2
       DEF CreationInv, Shape, ChainIsLine, WalkIsComplete, AllocatorHasImp,
           OneIvarDictionary
<1>. QED
  BY <1>1, <1>2, StepKinds, ShadowHierarchy, CreateHierarchy DEF CreationInv

\* The invariant holds of every behaviour.
LEMMA CreationInvariant == CreationSpec => []CreationInv
BY InitHierarchy, StepHierarchy, PTL DEF CreationSpec

-----------------------------------------------------------------------------
(* The chains                                                              *)

\* Chains have no cycles, and among any superclasses one is the nearest.
Acyclic == \A c \in Runtime : \A d \in chain[c] \ {c} : c \notin chain[d]
HasNearest ==
  \A c \in Runtime : \A S \in SUBSET chain[c] :
    S # {} => \E d \in S : S \subseteq chain[d]

\* What becomes of the chains when classes are made.
AddsChains ==
  /\ Runtime \subseteq Runtime'
  /\ \A c \in Runtime : chain'[c] = chain[c]
  /\ \A n \in Runtime' \ Runtime :
       /\ \A c \in Runtime' : n \in chain'[c] => c = n
       /\ \E parent \in Runtime : chain'[n] = {n} \cup chain[parent]

\* Compiled classes have such chains.
LEMMA ChainsBegin == CreationInit => Acyclic /\ HasNearest
<1>. SUFFICES ASSUME CreationInit PROVE Acyclic /\ HasNearest
  OBVIOUS
<1>1. Runtime = ObjCClass /\ \A c \in ObjCClass : chain[c] = ObjCChain[c]
  BY CreationAssumption DEF CreationInit, Runtime
<1>2. Acyclic
  <2>. SUFFICES ASSUME NEW c \in ObjCClass, NEW d \in ObjCChain[c] \ {c}
                PROVE  c \notin chain[d]
    BY <1>1 DEF Acyclic
  <2>1. d \in ObjCClass
    BY CreationAssumption
  <2>. QED BY <1>1, <2>1, CreationAssumption
<1>3. HasNearest
  <2>. SUFFICES ASSUME NEW c \in ObjCClass, NEW S \in SUBSET ObjCChain[c], S # {}
                PROVE  \E d \in S : S \subseteq chain[d]
    BY <1>1 DEF HasNearest
  <2>1. PICK d \in S : S \subseteq ObjCChain[d]
    BY CreationAssumption
  <2>2. d \in ObjCClass
    BY CreationAssumption
  <2>. QED BY <1>1, <2>1, <2>2
<1>. QED BY <1>2, <1>3

\* A step leaves the chains of the classes there are alone; a class it makes
\* is in no other chain.
LEMMA CreationAddsChains ==
  ASSUME CreationInv, [CreationNext]_creationVars
  PROVE  AddsChains
<1>. USE DEF AddsChains
<1>1. CASE UNCHANGED hierarchyVars
  BY <1>1 DEF hierarchyVars, Runtime
<1>2. ASSUME NEW m \in Class, NEW parent \in Runtime, Creates(m, parent)
      PROVE  AddsChains
  <2>1. m \notin Runtime /\ chain' = [chain EXCEPT ![m] = {m} \cup chain[parent]]
    BY <1>2 DEF Creates, InitNewClass, NameIsFree
  <2>2. /\ chain'[m] = {m} \cup chain[parent]
        /\ \A c \in Class \ {m} : chain'[c] = chain[c]
    BY <2>1 DEF CreationInv, CreationTypeOK
  <2>3. Runtime' = Runtime \cup {m} /\ Runtime \subseteq Class
    BY <2>2 DEF Runtime
  <2>4. \A c \in Runtime : m \notin chain[c]
    BY <2>1 DEF CreationInv, ChainIsLine
  <2>. QED BY <2>1, <2>2, <2>3, <2>4
<1>3. UNCHANGED <<hierarchyVars, fsChain>> => UNCHANGED hierarchyVars
  OBVIOUS
<1>. QED BY <1>1, <1>2, <1>3, StepKinds

\* New chains on top of old ones are as they should be.
LEMMA AddedChains ==
  ASSUME ChainIsLine, Acyclic, HasNearest, AddsChains
  PROVE  Acyclic' /\ HasNearest'
<1>1. /\ Runtime \subseteq Runtime'
      /\ \A c \in Runtime : chain'[c] = chain[c]
      /\ \A n \in Runtime' \ Runtime :
           /\ \A c \in Runtime' : n \in chain'[c] => c = n
           /\ \E parent \in Runtime : chain'[n] = {n} \cup chain[parent]
  BY DEF AddsChains
<1>2. \A c \in Runtime : chain[c] \subseteq Runtime
  BY DEF ChainIsLine
<1>3. Acyclic'
  <2>. SUFFICES ASSUME NEW c \in Runtime', NEW d \in chain'[c] \ {c}
                PROVE  c \notin chain'[d]
    BY DEF Acyclic
  <2>1. CASE c \in Runtime
    <3>1. d \in Runtime /\ d \in chain[c] \ {c}
      BY <2>1, <1>1, <1>2
    <3>. QED BY <2>1, <3>1, <1>1 DEF Acyclic
  <2>2. CASE c \notin Runtime
    <3>1. PICK parent \in Runtime : chain'[c] = {c} \cup chain[parent]
      BY <2>2, <1>1
    <3>2. d \in Runtime'
      BY <3>1, <1>1, <1>2
    <3>. QED BY <2>2, <3>2, <1>1
  <2>. QED BY <2>1, <2>2
<1>4. HasNearest'
  <2>. SUFFICES ASSUME NEW c \in Runtime', NEW S \in SUBSET chain'[c], S # {}
                PROVE  \E d \in S : S \subseteq chain'[d]
    BY DEF HasNearest
  <2>1. ASSUME NEW a \in Runtime, S \subseteq chain[a]
        PROVE  \E d \in S : S \subseteq chain'[d]
    <3>1. PICK d \in S : S \subseteq chain[d]
      BY <2>1 DEF HasNearest
    <3>. QED BY <2>1, <3>1, <1>1, <1>2
  <2>2. CASE c \in Runtime
    BY <2>1, <2>2, <1>1
  <2>3. CASE c \notin Runtime
    <3>1. PICK parent \in Runtime : chain'[c] = {c} \cup chain[parent]
      BY <2>3, <1>1
    <3>2. CASE c \in S
      BY <3>2
    <3>3. CASE c \notin S
      BY <2>1, <3>1, <3>3
    <3>. QED BY <3>2, <3>3
  <2>. QED BY <2>2, <2>3
<1>. QED BY <1>3, <1>4

\* The nearest of some superclasses is one of them, and the others are above it.
LEMMA NearestIsOne ==
  ASSUME HasNearest, NEW c \in Runtime, NEW S \in SUBSET chain[c], S # {}
  PROVE  Nearest(c, S) \in S /\ S \subseteq chain[Nearest(c, S)]
<1>1. S \cap chain[c] = S
  OBVIOUS
<1>2. \E a \in S \cap chain[c] : S \cap chain[c] \subseteq chain[a]
  BY <1>1 DEF HasNearest
<1>. QED BY <1>2 DEF Nearest

-----------------------------------------------------------------------------
(* The theorems                                                            *)

\* Whatever classes are compiled, however many are created: every variable
\* of the registry keeps its type.
THEOREM CreationTypeCorrect == CreationSpec => []CreationTypeOK
BY CreationInvariant, PTL DEF CreationInv

\* The superclasses of every class form a line.
THEOREM ChainsAreLines == CreationSpec => []ChainIsLine
BY CreationInvariant, PTL DEF CreationInv

\* A walk along parentClass stays within the superclasses and misses no class
\* made by FSClass, in whatever order proxies and subclasses are made.
THEOREM WalksAreComplete == CreationSpec => []WalkIsComplete
BY CreationInvariant, PTL DEF CreationInv

\* The allocator is never inherited without an implementation to call.
THEOREM AllocatorNeverNull == CreationSpec => []AllocatorHasImp
BY CreationInvariant, PTL DEF CreationInv

\* Every instance has one dictionary variable or none, as its class claims.
THEOREM DictionaryIvarUnique == CreationSpec => []OneIvarDictionary
BY CreationInvariant, PTL DEF CreationInv
-----------------------------------------------------------------------------
(* Properties and definitions                                              *)

\* What a step does to the table of properties: nothing, or a new class comes
\* with some, or a list of new ones is added, or a default is replaced.
LEMMA PropertyKinds ==
  ASSUME CreationTypeOK, [CreationNext]_creationVars
  PROVE  \/ UNCHANGED properties
         \/ \E n \in Class, parent \in Class :
              /\ NameIsFree(n) /\ InitNewClass(n, parent)
              /\ \A c \in Class \ {n} : properties'[c] = properties[c]
              /\ \A p \in Declared(n)' : ~HasProperty(parent, p)
         \/ \E c \in Created \ useFastIvars :
              /\ UNCHANGED fsChain
              /\ \A a \in Class \ {c} : properties'[a] = properties[a]
              /\ Declared(c) \subseteq Declared(c)'
              /\ \A p \in Declared(c)' \ Declared(c) : ~HasProperty(c, p)
         \/ \A c \in Class : Declared(c)' = Declared(c)
<1>1. CASE UNCHANGED creationVars
  BY <1>1 DEF creationVars
<1>2. ASSUME NEW c \in Class, Reflect(c) \/ Subclass(c) \/ RefuseProperties(c)
      PROVE  UNCHANGED properties
  BY <1>2 DEF Reflect, Subclass, RefuseProperties
<1>3. ASSUME NEW n, NEW parent \in Class, NewClass(n, parent)
      PROVE  UNCHANGED properties
  BY <1>3 DEF NewClass, InitRegularIvarsClass
<1>4. ASSUME NEW parent \in Class, NewAnonymousClass(parent)
      PROVE  UNCHANGED properties
  BY <1>4 DEF NewAnonymousClass, InitRegularIvarsClass
<1>5. ASSUME NEW n, NEW parent \in Class,
             NEW defaults \in [Prop -> Stored \cup {Nil}],
             NewFastClass(n, parent, defaults)
      PROVE  \/ UNCHANGED properties
             \/ /\ n \in Class /\ NameIsFree(n) /\ InitNewClass(n, parent)
                /\ \A c \in Class \ {n} : properties'[c] = properties[c]
                /\ \A p \in Declared(n)' : ~HasProperty(parent, p)
  <2>1. CASE outcome' = [call |-> "newFastClass", threw |-> FALSE]
    <3>1. /\ NameIsFree(n) /\ InitFastIvarsClass(n, parent, defaults)
          /\ LegitFastNames(parent, {p \in Prop : defaults[p] # Nil})
      BY <1>5, <2>1 DEF NewFastClass, Throws
    <3>2. n \in Class /\ properties' = [properties EXCEPT ![n] = defaults]
      BY <3>1 DEF NameIsFree, InitFastIvarsClass
    <3>3. properties'[n] = defaults
          /\ \A c \in Class \ {n} : properties'[c] = properties[c]
      BY <3>2 DEF CreationTypeOK
    <3>4. \A p \in Declared(n)' : ~HasProperty(parent, p)
      BY <3>1, <3>3 DEF LegitFastNames, Declared
    <3>. QED BY <3>1, <3>2, <3>3, <3>4 DEF InitFastIvarsClass
  <2>2. CASE outcome' # [call |-> "newFastClass", threw |-> FALSE]
    BY <1>5, <2>2 DEF NewFastClass, Returns
  <2>. QED BY <2>1, <2>2
<1>6. ASSUME NEW c \in Class, NEW decl \in DeclarationLists, NEW odd \in BOOLEAN,
             AddProperties(c, decl, odd)
      PROVE  /\ c \in Created \ useFastIvars /\ UNCHANGED fsChain
             /\ \A a \in Class \ {c} : properties'[a] = properties[a]
             /\ Declared(c) \subseteq Declared(c)'
             /\ \A p \in Declared(c)' \ Declared(c) : ~HasProperty(c, p)
  <2>1. PICK k \in 0..Len(decl) :
           /\ \A i \in 1..k : Accepts(c, decl, i)
           /\ properties' =
                [properties EXCEPT ![c] = [p \in Prop |->
                   IF \E i \in 1..k : decl[i].name = p
                   THEN ToStored(decl[CHOOSE i \in 1..k : decl[i].name = p].default)
                   ELSE properties[c][p]]]
    BY <1>6 DEF AddProperties
  <2>2. /\ \A a \in Class \ {c} : properties'[a] = properties[a]
        /\ properties'[c] = [p \in Prop |->
             IF \E i \in 1..k : decl[i].name = p
             THEN ToStored(decl[CHOOSE i \in 1..k : decl[i].name = p].default)
             ELSE properties[c][p]]
    BY <2>1 DEF CreationTypeOK
  <2>3. \A v : ToStored(v) # Nil
    BY CreationAssumption DEF ToStored
  <2>4. Declared(c) \subseteq Declared(c)'
    BY <2>2, <2>3 DEF Declared
  <2>5. \A p \in Declared(c)' \ Declared(c) : ~HasProperty(c, p)
    <3>. SUFFICES ASSUME NEW p \in Declared(c)' \ Declared(c)
                  PROVE  ~HasProperty(c, p)
      OBVIOUS
    <3>1. p \in Prop /\ properties'[c][p] # Nil /\ properties[c][p] = Nil
      BY DEF Declared
    <3>2. PICK i \in 1..k : decl[i].name = p
      BY ONLY <2>2, <3>1
    <3>3. Accepts(c, decl, i)
      BY <2>1
    <3>. QED BY <3>2, <3>3 DEF Accepts
  <2>. QED BY <1>6, <2>2, <2>4, <2>5 DEF AddProperties
<1>7. ASSUME NEW c \in Class, NEW p \in Prop, NEW v \in Value \cup {Nil},
             SetDefaultValue(c, p, v)
      PROVE  \/ UNCHANGED properties
             \/ \A a \in Class : Declared(a)' = Declared(a)
  <2>1. CASE p \in Declared(c)
    <3>1. properties' = [properties EXCEPT ![c][p] = ToStored(v)]
      BY <1>7, <2>1 DEF SetDefaultValue
    <3>2. ToStored(v) # Nil /\ properties[c][p] # Nil
      BY <2>1, CreationAssumption DEF ToStored, Declared
    <3>. QED BY <3>1, <3>2 DEF Declared, CreationTypeOK
  <2>2. CASE p \notin Declared(c)
    BY <1>7, <2>2 DEF SetDefaultValue
  <2>. QED BY <2>1, <2>2
<1>8. ASSUME NEW c \in Class, NEW decl \in DeclarationLists, NEW odd \in BOOLEAN,
             AddProperties(c, decl, odd)
      PROVE  \E b \in Created \ useFastIvars :
               /\ UNCHANGED fsChain
               /\ \A a \in Class \ {b} : properties'[a] = properties[a]
               /\ Declared(b) \subseteq Declared(b)'
               /\ \A p \in Declared(b)' \ Declared(b) : ~HasProperty(b, p)
  BY <1>6, <1>8
<1>9. CASE \E c \in Class, decl \in DeclarationLists, odd \in BOOLEAN :
             AddProperties(c, decl, odd)
  BY <1>8, <1>9
<1>10. CASE ~\E c \in Class, decl \in DeclarationLists, odd \in BOOLEAN :
              AddProperties(c, decl, odd)
  BY <1>1, <1>2, <1>3, <1>4, <1>5, <1>7, <1>10 DEF CreationNext
<1>. QED BY <1>9, <1>10

\* A step declares no name that a parent has: the parents are asked first.
LEMMA StepRedeclaresNothing ==
  ASSUME CreationInv, [CreationNext]_creationVars
  PROVE  \A c \in Class : \A p \in Declared(c)' \ Declared(c) :
           \A a \in fsChain'[c] : p \notin Declared(a)
<1>. SUFFICES ASSUME NEW c \in Class, NEW p \in Declared(c)' \ Declared(c),
                     NEW a \in fsChain'[c]
              PROVE  p \notin Declared(a)
  OBVIOUS
<1>1. CASE UNCHANGED properties \/ \A b \in Class : Declared(b)' = Declared(b)
  BY <1>1 DEF Declared
<1>2. ASSUME NEW n \in Class, NEW parent \in Class, InitNewClass(n, parent),
             \A b \in Class \ {n} : properties'[b] = properties[b],
             \A q \in Declared(n)' : ~HasProperty(parent, q)
      PROVE  p \notin Declared(a)
  <2>1. c = n
    BY <1>2 DEF Declared
  <2>2. a = n \/ a \in fsChain[parent]
    BY <1>2, <2>1 DEF InitNewClass, CreationInv, CreationTypeOK
  <2>. QED BY <1>2, <2>1, <2>2 DEF HasProperty
<1>3. ASSUME NEW b \in Class, UNCHANGED fsChain,
             \A d \in Class \ {b} : properties'[d] = properties[d],
             \A q \in Declared(b)' \ Declared(b) : ~HasProperty(b, q)
      PROVE  p \notin Declared(a)
  <2>1. c = b
    BY <1>3 DEF Declared
  <2>. QED BY <1>3, <2>1 DEF HasProperty
<1>. QED BY <1>1, <1>2, <1>3, PropertyKinds DEF CreationInv, Created, Runtime

\* A step leaves a registered class what it is.
LEMMA StepIsStable ==
  ASSUME CreationInv, [CreationNext]_creationVars, NEW c \in Registered
  PROVE  /\ c \in Registered' /\ fsChain'[c] = fsChain[c]
         /\ chain'[c] = chain[c]
         /\ c \in useFastIvars' <=> c \in useFastIvars
         /\ c \in hasIvarDictionary' <=> c \in hasIvarDictionary
         /\ Declared(c) \subseteq Declared(c)'
<1>. USE DEF CreationInv
<1>1. c \in Class /\ c \in Runtime /\ c \in fsChain[c]
  BY DEF Shape, Registered
<1>2. ASSUME NEW n \in Class, NameIsFree(n)
      PROVE  c # n
  BY <1>1, <1>2 DEF NameIsFree
<1>3. Declared(c) \subseteq Declared(c)'
  BY <1>1, <1>2, PropertyKinds DEF Declared
<1>4. c \in Registered' /\ fsChain'[c] = fsChain[c] /\ chain'[c] = chain[c]
  <2>1. CASE UNCHANGED <<hierarchyVars, fsChain>>
    BY <1>1, <2>1 DEF hierarchyVars, Registered
  <2>2. ASSUME UNCHANGED hierarchyVars, NEW d \in Runtime, ShadowForClass(d)
        PROVE  c \in Registered' /\ fsChain'[c] = fsChain[c] /\ chain'[c] = chain[c]
    BY <1>1, <2>2 DEF hierarchyVars, ShadowForClass, Registered, CreationTypeOK
  <2>3. ASSUME NEW n \in Class, NEW parent \in Runtime, Creates(n, parent)
        PROVE  c \in Registered' /\ fsChain'[c] = fsChain[c] /\ chain'[c] = chain[c]
    BY <1>1, <1>2, <2>3 DEF Creates, InitNewClass, Registered, CreationTypeOK
  <2>. QED BY <2>1, <2>2, <2>3, StepKinds
<1>5. /\ c \in useFastIvars' <=> c \in useFastIvars
      /\ c \in hasIvarDictionary' <=> c \in hasIvarDictionary
  <2>1. CASE UNCHANGED <<hierarchyVars, fsChain>>
    BY <2>1 DEF hierarchyVars
  <2>2. CASE UNCHANGED hierarchyVars
    BY <2>2 DEF hierarchyVars
  <2>3. ASSUME NEW n \in Class, NEW parent \in Runtime, Creates(n, parent)
        PROVE  /\ c \in useFastIvars' <=> c \in useFastIvars
               /\ c \in hasIvarDictionary' <=> c \in hasIvarDictionary
    BY <1>2, <2>3 DEF Creates
  <2>. QED BY <2>1, <2>2, <2>3, StepKinds
<1>. QED BY <1>3, <1>4, <1>5

\* No name is declared by a class and, at that moment, above it.
THEOREM NothingRedeclared == CreationSpec => NoRedeclaration
<1>1. CreationInv /\ [CreationNext]_creationVars =>
        [\A c \in Class : \A p \in Declared(c)' \ Declared(c) :
           \A a \in fsChain'[c] : p \notin Declared(a)]_creationVars
  BY StepRedeclaresNothing
<1>. QED BY <1>1, CreationInvariant, PTL DEF CreationSpec, NoRedeclaration

\* A registered class is never redefined, moved or stripped of a property.
THEOREM DefinitionsAreStable == CreationSpec => DefinitionsStable
<1>1. CreationInv /\ [CreationNext]_creationVars =>
        [\A c \in Registered :
           /\ c \in Registered' /\ fsChain'[c] = fsChain[c]
           /\ chain'[c] = chain[c]
           /\ c \in useFastIvars' <=> c \in useFastIvars
           /\ c \in hasIvarDictionary' <=> c \in hasIvarDictionary
           /\ Declared(c) \subseteq Declared(c)']_creationVars
  BY StepIsStable
<1>. QED BY <1>1, CreationInvariant, PTL DEF CreationSpec, DefinitionsStable

-----------------------------------------------------------------------------
(* The classes and what they declare                                       *)

\* Only FSClass's classes declare names, and its regular ones have a dictionary.
Declaring ==
  /\ \A c \in Class : Declared(c) # {} => c \in Created
  /\ Created \ useFastIvars \subseteq hasIvarDictionary

ClassesInv == CreationInv /\ Acyclic /\ HasNearest /\ Declaring

\* Before any class is made nothing is declared.
LEMMA ClassesBegin == CreationInit => ClassesInv
<1>. SUFFICES ASSUME CreationInit PROVE ClassesInv
  OBVIOUS
<1>1. CreationInv /\ Acyclic /\ HasNearest
  BY InitHierarchy, ChainsBegin
<1>2. Created = {}
  BY DEF CreationInit, Created, Runtime
<1>3. \A c \in Class : Declared(c) = {}
  BY DEF CreationInit, Declared, NoEntries
<1>. QED BY <1>1, <1>2, <1>3 DEF ClassesInv, Declaring

\* What FSClass made stays, and a class has a dictionary for ever or never.
LEMMA CreatedStays ==
  ASSUME CreationInv, [CreationNext]_creationVars
  PROVE  Created \subseteq Created'
BY CreationAddsChains DEF AddsChains, Created

\* A class declares what it declares to the end.
LEMMA DeclaringStays ==
  ASSUME CreationInv, Declaring, [CreationNext]_creationVars
  PROVE  Declaring'
<1>1. Created \subseteq Created' /\ CreationTypeOK /\ CreationTypeOK' /\ Shape
  BY CreatedStays, StepHierarchy DEF CreationInv
<1>2. ASSUME NEW c \in Class, Declared(c)' # {} PROVE c \in Created'
  <2>1. CASE Declared(c)' = Declared(c)
    BY <1>1, <1>2, <2>1 DEF Declaring
  <2>2. CASE c \in Created
    BY <1>1, <2>2
  <2>3. ASSUME NEW parent \in Class, NameIsFree(c), InitNewClass(c, parent)
        PROVE  c \in Created'
    <3>1. c \notin ObjCClass
      BY <1>1, <2>3, FreeNameIsNotObjC
    <3>2. c \in chain'[c]
      BY <1>1, <2>3 DEF InitNewClass, CreationTypeOK
    <3>. QED BY <3>1, <3>2 DEF Created, Runtime
  <2>4. ASSUME NEW n \in Class, c # n,
               \A a \in Class \ {n} : properties'[a] = properties[a]
        PROVE  Declared(c)' = Declared(c)
    BY <2>4 DEF Declared
  <2>. QED
    <3>1. CASE UNCHANGED properties
      BY <2>1, <3>1 DEF Declared
    <3>2. ASSUME NEW n \in Class, NEW parent \in Class,
                 NameIsFree(n) /\ InitNewClass(n, parent),
                 \A a \in Class \ {n} : properties'[a] = properties[a]
          PROVE  c \in Created'
      BY <2>1, <2>3, <2>4, <3>2
    <3>3. ASSUME NEW b \in Created, \A a \in Class \ {b} : properties'[a] = properties[a]
          PROVE  c \in Created'
      BY <2>1, <2>2, <2>4, <3>3 DEF Created, Runtime
    <3>4. CASE \A a \in Class : Declared(a)' = Declared(a)
      BY <2>1, <3>4
    <3>. QED BY <1>1, <3>1, <3>2, <3>3, <3>4, PropertyKinds
<1>3. Created' \ useFastIvars' \subseteq hasIvarDictionary'
  <2>1. CASE UNCHANGED hierarchyVars
    BY <2>1 DEF hierarchyVars, Declaring, Created, Runtime
  <2>2. ASSUME NEW n \in Class, NEW parent \in Runtime, Creates(n, parent)
        PROVE  Created' \ useFastIvars' \subseteq hasIvarDictionary'
    <3>1. Created' \subseteq Created \cup {n}
      BY <1>1, <2>2 DEF Creates, InitNewClass, CreationTypeOK, Created, Runtime
    <3>. QED BY <2>2, <3>1 DEF Creates, Declaring
  <2>3. UNCHANGED <<hierarchyVars, fsChain>> => UNCHANGED hierarchyVars
    OBVIOUS
  <2>. QED BY <2>1, <2>2, <2>3, StepKinds
<1>. QED BY <1>2, <1>3 DEF Declaring

\* A step on the classes keeps all that is needed of them.
LEMMA ClassesKeep ==
  ASSUME ClassesInv, [CreationNext]_creationVars
  PROVE  ClassesInv'
<1>1. CreationInv' /\ Declaring'
  BY StepHierarchy, DeclaringStays DEF ClassesInv
<1>2. AddsChains
  BY CreationAddsChains DEF ClassesInv
<1>3. Acyclic' /\ HasNearest'
  BY <1>2, AddedChains DEF ClassesInv, CreationInv
<1>. QED BY <1>1, <1>3 DEF ClassesInv

\* A class that FSClass made is what it was, for its objects.
LEMMA CreatedIsStable ==
  ASSUME CreationInv, [CreationNext]_creationVars, NEW c \in Created
  PROVE  /\ c \in Created' /\ c \in Class
         /\ chain'[c] = chain[c]
         /\ c \in useFastIvars' <=> c \in useFastIvars
         /\ c \in hasIvarDictionary' <=> c \in hasIvarDictionary
         /\ Declared(c) \subseteq Declared(c)'
         /\ chain'[c] \cap allocator' = chain[c] \cap allocator
<1>1. c \in Registered /\ c \in Runtime /\ c \in Class
  BY DEF CreationInv, Shape, Created, Runtime
<1>2. c \in Created' /\ chain'[c] = chain[c]
  BY <1>1, CreatedStays, StepIsStable
<1>3. chain[c] \subseteq Runtime
  BY <1>1 DEF CreationInv, ChainIsLine
<1>4. chain[c] \cap allocator' = chain[c] \cap allocator
  <2>1. UNCHANGED hierarchyVars => UNCHANGED allocator
    BY DEF hierarchyVars
  <2>2. ASSUME NEW n \in Class, NEW parent \in Runtime, Creates(n, parent)
        PROVE  chain[c] \cap allocator' = chain[c] \cap allocator
    BY <1>3, <2>2 DEF Creates, InitNewClass, NameIsFree
  <2>3. UNCHANGED <<hierarchyVars, fsChain>> => UNCHANGED hierarchyVars
    OBVIOUS
  <2>. QED BY <2>1, <2>2, <2>3, StepKinds
<1>. QED BY <1>1, <1>2, <1>4, StepIsStable

-----------------------------------------------------------------------------
(* Instances.  The accessor the runtime finds is that of the nearest class  *)
(* that declared the name; the walk along parentClass finds the same one,   *)
(* since only FSClass's classes declare names and the walk misses none of   *)
(* them.                                                                    *)

\* The objects that have a dictionary are those that the allocator made, of a
\* class that has one: what was true of the class then is true of it now.
DictionariesMade ==
  \A o \in Live :
    o \in hasDict <=> /\ chain[classOf[o]] \cap allocator # {}
                      /\ classOf[o] \in hasIvarDictionary

InstanceInv == ClassesInv /\ InstanceTypeOK /\ DictionariesMade

-----------------------------------------------------------------------------
(* Dispatch                                                                *)

\* The runtime finds an accessor, and the walk for the default the same class.
LEMMA GetterServed ==
  ASSUME ClassesInv, NEW c \in Created, NEW p \in Prop, Understands(c, p)
  PROVE  /\ Owner(c, p) \in Declarers(c, p)
         /\ Owner(c, p) \in Created /\ Owner(c, p) \in Class
         /\ HasProperty(c, p) /\ DefaultOwner(c, p) = Owner(c, p)
<1>1. c \in Runtime /\ c \in Registered /\ c \in Class
  BY DEF ClassesInv, CreationInv, Shape, Created, Runtime
<1>2. Declarers(c, p) \in SUBSET chain[c] /\ Declarers(c, p) # {}
  BY DEF Declarers, Understands
<1>3. Owner(c, p) \in Declarers(c, p)
  BY <1>1, <1>2, NearestIsOne DEF Owner, ClassesInv
<1>4. \A a \in Declarers(c, p) : a \in Created /\ a \in Class
  BY <1>1 DEF Declarers, ClassesInv, CreationInv, CreationTypeOK, Declaring
<1>5. Declarers(c, p) = {a \in fsChain[c] : p \in Declared(a)}
  <2>1. Declarers(c, p) \subseteq fsChain[c]
    BY <1>1, <1>4 DEF Declarers, ClassesInv, CreationInv, WalkIsComplete
  <2>2. fsChain[c] \subseteq chain[c]
    BY <1>1 DEF ClassesInv, CreationInv, WalkIsComplete
  <2>. QED BY <2>1, <2>2 DEF Declarers
<1>6. HasProperty(c, p) /\ DefaultOwner(c, p) = Owner(c, p)
  BY <1>2, <1>5 DEF HasProperty, DefaultOwner, Owner
<1>. QED BY <1>3, <1>4, <1>6

\* The default that a read finds is a value, or nil.
LEMMA DefaultIsValue ==
  ASSUME ClassesInv, NEW c \in Created, NEW p \in Prop, Understands(c, p)
  PROVE  DefaultValue(c, p) \in Value \cup {Nil}
<1>1. DefaultOwner(c, p) \in Class /\ p \in Declared(DefaultOwner(c, p))
  BY GetterServed DEF Declarers
<1>2. properties[DefaultOwner(c, p)][p] \in Stored
  BY <1>1 DEF ClassesInv, CreationInv, CreationTypeOK, Declared
<1>. QED BY <1>2 DEF DefaultValue, FromStored, Stored

\* The invariant says that an accessor finds what it needs.
LEMMA InvServesGetters == InstanceInv => GetterFindsStorage /\ DictionaryWhenNeeded
<1>. SUFFICES ASSUME InstanceInv, NEW o \in Live, NEW p \in Prop,
                     Understands(classOf[o], p)
              PROVE  LET c == classOf[o] IN
                     /\ IF Owner(c, p) \in useFastIvars THEN p \in Ivars(c)
                        ELSE HasProperty(c, p) /\ DefaultOwner(c, p) = Owner(c, p)
                     /\ chain[c] \cap allocator # {} /\ Owner(c, p) \notin useFastIvars
                          => o \in hasDict
  BY DEF GetterFindsStorage, DictionaryWhenNeeded
<1>. DEFINE c == classOf[o]
<1>1. c \in Created /\ c \in Runtime
  BY DEF InstanceInv, InstanceTypeOK, Created
<1>2. /\ Owner(c, p) \in Declarers(c, p) /\ Owner(c, p) \in Created
      /\ HasProperty(c, p) /\ DefaultOwner(c, p) = Owner(c, p)
  BY <1>1, GetterServed DEF InstanceInv
<1>3. Owner(c, p) \in useFastIvars => p \in Ivars(c)
  BY <1>2 DEF Declarers, Ivars
<1>4. ASSUME Owner(c, p) \notin useFastIvars PROVE c \in hasIvarDictionary
  <2>1. Owner(c, p) \in hasIvarDictionary
    BY <1>2, <1>4 DEF InstanceInv, ClassesInv, Declaring
  <2>2. chain[Owner(c, p)] \cap dictIvar # {}
    BY <1>2, <2>1 DEF InstanceInv, ClassesInv, CreationInv, OneIvarDictionary
  <2>3. chain[Owner(c, p)] \subseteq chain[c]
    BY <1>1, <1>2 DEF InstanceInv, ClassesInv, CreationInv, ChainIsLine, Declarers
  <2>. QED BY <1>1, <2>2, <2>3 DEF InstanceInv, ClassesInv, CreationInv, OneIvarDictionary
<1>. QED BY <1>2, <1>3, <1>4 DEF InstanceInv, DictionariesMade

-----------------------------------------------------------------------------
(* The invariant                                                           *)

\* No object has been allocated.
LEMMA InstancesBegin == InstanceInit => InstanceInv
<1>. SUFFICES ASSUME InstanceInit PROVE InstanceInv
  OBVIOUS
<1>1. ClassesInv
  BY ClassesBegin DEF InstanceInit
<1>2. Live = {}
  BY DEF InstanceInit, Live
<1>3. InstanceTypeOK
  BY <1>2 DEF InstanceInit, InstanceTypeOK
<1>. QED BY <1>1, <1>2, <1>3 DEF InstanceInv, DictionariesMade

\* Whatever is done to classes, the objects there are know nothing of it.
LEMMA ClassStepKeeps ==
  ASSUME InstanceInv, [CreationNext]_creationVars, UNCHANGED objectVars
  PROVE  InstanceInv'
<1>1. ClassesInv' /\ CreationInv
  BY ClassesKeep DEF InstanceInv, ClassesInv
<1>2. UNCHANGED <<classOf, hasDict, dict, ivar, answer>> /\ Live' = Live
  BY DEF objectVars, Live
<1>3. \A o \in Live : classOf[o] \in Created
  BY DEF InstanceInv, InstanceTypeOK
<1>4. InstanceTypeOK'
  BY <1>1, <1>2, <1>3, CreatedIsStable DEF InstanceInv, InstanceTypeOK
<1>5. DictionariesMade'
  <2>. SUFFICES ASSUME NEW o \in Live
                PROVE  o \in hasDict <=> /\ chain'[classOf[o]] \cap allocator' # {}
                                         /\ classOf[o] \in hasIvarDictionary'
    BY <1>2 DEF DictionariesMade
  <2>1. o \in hasDict <=> /\ chain[classOf[o]] \cap allocator # {}
                          /\ classOf[o] \in hasIvarDictionary
    BY DEF InstanceInv, DictionariesMade
  <2>. QED BY <1>1, <1>3, <2>1, CreatedIsStable
<1>. QED BY <1>1, <1>4, <1>5 DEF InstanceInv

\* A message to an object leaves the classes, and who has a dictionary, alone.
LEMMA MessageKeeps ==
  ASSUME InstanceInv, UNCHANGED <<creationVars, classOf, hasDict>>,
         dict' \in [Obj -> [Prop -> Stored \cup {Nil}]],
         ivar' \in [Obj -> [Prop -> Value \cup {Nil}]],
         \A o \in Obj \ hasDict, p \in Prop : dict'[o][p] = dict[o][p],
         answer' \in [to : Obj \cup {Nil}, name : Prop \cup {Nil}, value : Value \cup {Nil}]
  PROVE  InstanceInv'
<1>1. /\ UNCHANGED <<hierarchyVars, fsChain, properties, classCounter, outcome>>
      /\ UNCHANGED <<chain, useFastIvars, dictIvar, hasIvarDictionary, allocator,
                     parentAllocImp>>
  BY DEF creationVars, hierarchyVars
<1>2. ClassesInv'
  <2>1. [CreationNext]_creationVars
    OBVIOUS
  <2>. QED BY <2>1, ClassesKeep DEF InstanceInv
<1>3. Live' = Live /\ Created' = Created
  BY <1>1 DEF Live, Created, Runtime
<1>4. InstanceTypeOK'
  BY <1>3 DEF InstanceInv, InstanceTypeOK
<1>5. DictionariesMade'
  BY <1>1, <1>3 DEF InstanceInv, DictionariesMade
<1>. QED BY <1>2, <1>4, <1>5 DEF InstanceInv

\* A new object has a dictionary if its class, by the allocator, gives it one.
LEMMA AllocKeeps ==
  ASSUME InstanceInv, NEW o \in Obj, NEW c \in Class, Alloc(o, c)
  PROVE  InstanceInv'
<1>. DEFINE viaAllocator == chain[c] \cap allocator # {}
            names == IF viaAllocator THEN FilledIn(c) ELSE {}
            offered(k) == {properties[c][p] : p \in {q \in names : SetterKey(q) = k}}
<1>1. /\ o \notin Live /\ c \in Created /\ UNCHANGED creationVars
      /\ classOf' = [classOf EXCEPT ![o] = c]
      /\ Answers(o, Nil, Nil)
      /\ hasDict' = IF viaAllocator /\ c \in hasIvarDictionary
                    THEN hasDict \cup {o} ELSE hasDict
  BY DEF Alloc
<1>2. PICK given \in [Prop -> Value \cup {Nil}] :
        /\ \A k \in Prop : given[k] \in IF offered(k) = {} THEN {Nil} ELSE offered(k)
        /\ IF c \in useFastIvars
           THEN /\ ivar' = [ivar EXCEPT ![o] = [k \in Prop |->
                             IF k \in Ivars(c) THEN given[k] ELSE Nil]]
                /\ UNCHANGED dict
           ELSE dict' = [dict EXCEPT ![o] = given] /\ UNCHANGED ivar
  BY DEF Alloc
<1>3. ~viaAllocator => \A k \in Prop : given[k] = Nil
  BY <1>2
<1>. HIDE DEF viaAllocator, names, offered
<1>4. /\ UNCHANGED <<hierarchyVars, fsChain, properties, classCounter, outcome>>
      /\ UNCHANGED <<chain, useFastIvars, dictIvar, hasIvarDictionary, allocator,
                     parentAllocImp>>
  BY <1>1 DEF creationVars, hierarchyVars
<1>5. ClassesInv'
  <2>1. [CreationNext]_creationVars
    BY <1>1
  <2>. QED BY <2>1, ClassesKeep DEF InstanceInv
<1>6. c # Nil /\ Live' = Live \cup {o} /\ Created' = Created
  BY <1>1, <1>4, CreationAssumption DEF Live, Created, Runtime, InstanceInv, InstanceTypeOK
<1>7. \A q \in Obj \ {o} : classOf'[q] = classOf[q]
  BY <1>1 DEF InstanceInv, InstanceTypeOK
<1>8. classOf'[o] = c /\ o \notin hasDict
  BY <1>1 DEF InstanceInv, InstanceTypeOK
<1>9. dict' \in [Obj -> [Prop -> Stored \cup {Nil}]]
      /\ ivar' \in [Obj -> [Prop -> Value \cup {Nil}]]
  <2>1. /\ dict \in [Obj -> [Prop -> Stored \cup {Nil}]]
        /\ ivar \in [Obj -> [Prop -> Value \cup {Nil}]]
        /\ given \in [Prop -> Stored \cup {Nil}]
    BY DEF InstanceInv, InstanceTypeOK, Stored
  <2>2. CASE c \in useFastIvars
    <3>. DEFINE row == [k \in Prop |-> IF k \in Ivars(c) THEN given[k] ELSE Nil]
    <3>1. row \in [Prop -> Value \cup {Nil}]
      OBVIOUS
    <3>. HIDE DEF row
    <3>2. ivar' = [ivar EXCEPT ![o] = row] /\ dict' = dict
      BY <1>2, <2>2 DEF row
    <3>. QED BY <2>1, <3>1, <3>2
  <2>3. CASE c \notin useFastIvars
    BY <1>2, <2>1, <2>3
  <2>. QED BY <2>2, <2>3
<1>10. \A q \in Obj \ hasDict', p \in Prop : dict'[q][p] = Nil
  <2>. SUFFICES ASSUME NEW q \in Obj \ hasDict', NEW p \in Prop PROVE dict'[q][p] = Nil
    OBVIOUS
  <2>1. q \notin hasDict /\ dict[q][p] = Nil
    BY <1>1 DEF InstanceInv, InstanceTypeOK
  <2>2. CASE q # o \/ c \in useFastIvars
    BY <1>2, <2>1, <2>2 DEF InstanceInv, InstanceTypeOK
  <2>3. CASE q = o /\ c \notin useFastIvars
    <3>1. c \in hasIvarDictionary
      BY <1>1, <2>3 DEF InstanceInv, ClassesInv, Declaring
    <3>2. ~viaAllocator
      BY <1>1, <2>3, <3>1
    <3>. QED BY <1>2, <1>3, <2>3, <3>2 DEF InstanceInv, InstanceTypeOK
  <2>. QED BY <2>2, <2>3
<1>11. InstanceTypeOK'
  <2>1. classOf' \in [Obj -> Class \cup {Nil}] /\ hasDict' \subseteq Live'
    BY <1>1, <1>6 DEF InstanceInv, InstanceTypeOK
  <2>2. answer' \in [to : Obj \cup {Nil}, name : Prop \cup {Nil}, value : Value \cup {Nil}]
    BY <1>1 DEF Answers
  <2>3. \A q \in Live' : classOf'[q] \in Created'
    BY <1>1, <1>6, <1>7, <1>8 DEF InstanceInv, InstanceTypeOK, Live
  <2>. QED BY <1>9, <1>10, <2>1, <2>2, <2>3 DEF InstanceTypeOK
<1>12. DictionariesMade'
  <2>. SUFFICES ASSUME NEW q \in Live'
                PROVE  q \in hasDict' <=> /\ chain[classOf'[q]] \cap allocator # {}
                                          /\ classOf'[q] \in hasIvarDictionary
    BY <1>4 DEF DictionariesMade
  <2>1. CASE q = o
    BY <1>1, <1>8, <2>1 DEF viaAllocator
  <2>2. CASE q # o
    <3>1. q \in Live /\ classOf'[q] = classOf[q] /\ (q \in hasDict' <=> q \in hasDict)
      BY <1>1, <1>6, <1>7, <2>2 DEF Live
    <3>. QED BY <3>1 DEF InstanceInv, DictionariesMade
  <2>. QED BY <2>1, <2>2
<1>. QED BY <1>5, <1>11, <1>12 DEF InstanceInv

\* The keys that setters are given are property names.
LEMMA SetterKeys == \A p \in Prop : SetterKey(p) \in Prop
BY CreationAssumption DEF SetterKey

\* Reading and writing.
LEMMA AccessKeeps ==
  ASSUME InstanceInv, NEW o \in Live, NEW p \in Prop, NEW v \in Value \cup {Nil},
         GetFast(o, p) \/ GetFromDict(o, p) \/ SetFast(o, p, v) \/ SetInDict(o, p, v)
  PROVE  InstanceInv'
<1>1. /\ dict \in [Obj -> [Prop -> Stored \cup {Nil}]]
      /\ ivar \in [Obj -> [Prop -> Value \cup {Nil}]]
      /\ o \in Obj /\ SetterKey(p) \in Prop
  BY SetterKeys DEF InstanceInv, InstanceTypeOK, Live
<1>2. \A w \in Value \cup {Nil} : ToStored(w) \in Stored
  BY DEF ToStored, Stored
<1>3. \A w \in Stored : FromStored(w) \in Value \cup {Nil}
  BY DEF FromStored, Stored
<1>4. ASSUME NEW q \in Prop, NEW w \in Value \cup {Nil}, Answers(o, q, w)
      PROVE  answer' \in [to : Obj \cup {Nil}, name : Prop \cup {Nil},
                          value : Value \cup {Nil}]
  BY <1>1, <1>4 DEF Answers
<1>5. CASE GetFast(o, p)
  BY <1>1, <1>4, <1>5, MessageKeeps DEF GetFast
<1>6. CASE GetFromDict(o, p)
  <2>. DEFINE w == DefaultValue(classOf[o], p)
  <2>1. w \in Value \cup {Nil}
    BY <1>6, DefaultIsValue DEF GetFromDict, InstanceInv, InstanceTypeOK
  <2>. HIDE DEF w
  <2>2. CASE /\ dict[o][p] = Nil /\ Answers(o, p, w)
             /\ dict' = IF o \in hasDict THEN [dict EXCEPT ![o][p] = ToStored(w)] ELSE dict
    <3>1. dict' \in [Obj -> [Prop -> Stored \cup {Nil}]]
      BY <1>1, <1>2, <2>1, <2>2
    <3>2. \A q \in Obj \ hasDict, k \in Prop : dict'[q][k] = dict[q][k]
      BY <1>1, <2>2
    <3>. QED BY <1>1, <1>4, <1>6, <2>1, <2>2, <3>1, <3>2, MessageKeeps DEF GetFromDict
  <2>3. CASE dict[o][p] # Nil /\ Answers(o, p, FromStored(dict[o][p])) /\ UNCHANGED dict
    <3>1. FromStored(dict[o][p]) \in Value \cup {Nil}
      BY <1>1, <1>3, <2>3
    <3>. QED BY <1>1, <1>4, <1>6, <2>3, <3>1, MessageKeeps DEF GetFromDict
  <2>. QED BY <1>6, <2>2, <2>3 DEF GetFromDict, w
<1>7. CASE SetFast(o, p, v)
  <2>1. ivar' \in [Obj -> [Prop -> Value \cup {Nil}]]
    BY <1>1, <1>7 DEF SetFast
  <2>. QED BY <1>1, <1>4, <1>7, <2>1, MessageKeeps DEF SetFast
<1>8. CASE SetInDict(o, p, v)
  <2>1. dict' \in [Obj -> [Prop -> Stored \cup {Nil}]]
        /\ \A q \in Obj \ hasDict, k \in Prop : dict'[q][k] = dict[q][k]
    BY <1>1, <1>2, <1>8 DEF SetInDict
  <2>. QED BY <1>1, <1>4, <1>8, <2>1, MessageKeeps DEF SetInDict
<1>. QED BY <1>5, <1>6, <1>7, <1>8

\* The invariant is inductive.
LEMMA InstancesKeep == InstanceInv /\ [InstanceNext]_instanceVars => InstanceInv'
<1>. SUFFICES ASSUME InstanceInv, [InstanceNext]_instanceVars PROVE InstanceInv'
  OBVIOUS
<1>1. CASE UNCHANGED instanceVars
  BY <1>1, ClassStepKeeps DEF instanceVars
<1>2. CASE CreationNext /\ UNCHANGED objectVars
  BY <1>2, ClassStepKeeps
<1>3. CASE ObjectNext
  <2>1. Nil \in Value \cup {Nil}
    OBVIOUS
  <2>. QED BY <1>3, <2>1, AllocKeeps, AccessKeeps DEF ObjectNext
<1>. QED BY <1>1, <1>2, <1>3 DEF InstanceNext

LEMMA InstancesInvariant == InstanceSpec => []InstanceInv
BY InstancesBegin, InstancesKeep, PTL DEF InstanceSpec

-----------------------------------------------------------------------------
(* What objects keep                                                       *)

\* Where there are no cycles, a class below all the others is the nearest.
LEMMA LowestIsChosen ==
  ASSUME NEW up, NEW S, NEW w \in S, S \subseteq up[w],
         \A a, b \in S : a \in up[b] /\ b \in up[a] => a = b
  PROVE  (CHOOSE a \in S : S \subseteq up[a]) = w
OBVIOUS

\* A name that is declared later is declared above the class that serves it:
\* below, the parents would have been found to have it.
LEMMA OwnerStays ==
  ASSUME InstanceInv, [CreationNext]_creationVars,
         NEW o \in Live, classOf'[o] = classOf[o],
         NEW p \in Prop, Understands(classOf[o], p)
  PROVE  /\ Understands(classOf[o], p)'
         /\ Owner(classOf[o], p)' = Owner(classOf[o], p)
         /\ Owner(classOf[o], p) \in useFastIvars'
              <=> Owner(classOf[o], p) \in useFastIvars
<1>. DEFINE T == Declarers(classOf[o], p)'
<1>1. PICK c : c = classOf[o]
  OBVIOUS
<1>2. PICK w : w = Owner(c, p)
  OBVIOUS
<1>3. /\ CreationInv /\ CreationInv' /\ ClassesInv /\ ClassesInv'
      /\ c \in Created /\ c \in Runtime /\ Understands(c, p)
  BY <1>1, ClassesKeep DEF InstanceInv, InstanceTypeOK, ClassesInv, Created
<1>4. w \in Declarers(c, p) /\ w \in Created /\ Declarers(c, p) \subseteq chain[w]
  <2>1. w \in Declarers(c, p) /\ w \in Created
    BY <1>2, <1>3, GetterServed
  <2>2. Declarers(c, p) \in SUBSET chain[c] /\ Declarers(c, p) # {}
    BY <1>3 DEF Declarers, Understands
  <2>. QED BY <1>2, <1>3, <2>1, <2>2, NearestIsOne DEF Owner, ClassesInv
<1>5. chain'[c] = chain[c] /\ chain'[w] = chain[w] /\ Declared(w) \subseteq Declared(w)'
      /\ (w \in useFastIvars' <=> w \in useFastIvars)
  BY <1>3, <1>4, CreatedIsStable
<1>6. T = {a \in chain'[c] : p \in Declared(a)'}
  BY <1>1 DEF Declarers
<1>7. w \in T
  BY <1>4, <1>5, <1>6 DEF Declarers
<1>8. T \subseteq chain'[w]
  <2>. SUFFICES ASSUME NEW a \in T PROVE a \in chain[w]
    BY <1>5
  <2>1. a \in chain[c] /\ p \in Declared(a)' /\ w \in chain[c]
    BY <1>4, <1>5, <1>6 DEF Declarers
  <2>2. CASE p \in Declared(a)
    BY <1>4, <2>1, <2>2 DEF Declarers
  <2>3. CASE p \notin Declared(a) /\ w \in chain[a]
    <3>1. a \in Runtime /\ a \in Class
      BY <1>3, <2>1 DEF CreationInv, ChainIsLine, Runtime
    <3>2. a \in Created'
      BY <1>3, <2>1, <3>1 DEF ClassesInv, Declaring
    <3>3. a \in Registered
      BY <1>3, <3>1, <3>2 DEF CreationInv, Shape, Created
    <3>4. w \in fsChain[a] /\ fsChain'[a] = fsChain[a]
      BY <1>3, <1>4, <2>3, <3>3, StepIsStable DEF CreationInv, WalkIsComplete
    <3>5. p \notin Declared(w)
      BY <1>3, <2>1, <2>3, <3>1, <3>4, StepRedeclaresNothing
    <3>. QED BY <1>4, <3>5 DEF Declarers
  <2>. QED BY <1>3, <2>1, <2>2, <2>3 DEF CreationInv, ChainIsLine
<1>9. \A a, b \in T : a \in chain'[b] /\ b \in chain'[a] => a = b
  <2>1. c \in Runtime'
    BY <1>3, <1>5 DEF Runtime
  <2>2. T \subseteq Runtime'
    BY <1>3, <1>6, <2>1 DEF CreationInv, ChainIsLine
  <2>. QED BY <1>3, <2>2 DEF ClassesInv, Acyclic
<1>10. Understands(classOf[o], p)'
  BY <1>7 DEF Understands
<1>11. Owner(classOf[o], p)' = w
  <2>1. T \cap chain'[classOf'[o]] = T
    BY <1>1, <1>6
  <2>. HIDE DEF T
  <2>2. (CHOOSE a \in T : T \subseteq chain'[a]) = w
    BY <1>7, <1>8, <1>9, LowestIsChosen
  <2>3. Owner(classOf[o], p)' =
          CHOOSE a \in T \cap chain'[classOf'[o]] :
            T \cap chain'[classOf'[o]] \subseteq chain'[a]
    BY DEF Owner, Nearest, T
  <2>. QED BY <2>1, <2>2, <2>3
<1>. QED BY <1>1, <1>2, <1>5, <1>10, <1>11

\* What is stored is seen again, if neither the entry nor the variable changes.
LEMMA ViewStays ==
  ASSUME InstanceInv, [CreationNext]_creationVars,
         NEW o \in Live, classOf'[o] = classOf[o], NEW p \in Prop, View(o, p) # Unset,
         Owner(classOf[o], p) \in useFastIvars => ivar'[o][p] = ivar[o][p],
         Owner(classOf[o], p) \notin useFastIvars => dict'[o][p] = dict[o][p]
  PROVE  View(o, p)' = View(o, p)
<1>1. Understands(classOf[o], p)
  BY DEF View
<1>2. /\ Understands(classOf[o], p)'
      /\ Owner(classOf[o], p)' = Owner(classOf[o], p)
      /\ Owner(classOf[o], p) \in useFastIvars' <=> Owner(classOf[o], p) \in useFastIvars
  BY <1>1, OwnerStays
<1>. QED BY <1>1, <1>2 DEF View, FromStored

\* No step of a script moves a property to another class.
LEMMA StepKeepsOwners ==
  ASSUME InstanceInv, [InstanceNext]_instanceVars,
         NEW o \in Live, NEW p \in Prop, Understands(classOf[o], p)
  PROVE  /\ Understands(classOf[o], p)'
         /\ Owner(classOf[o], p)' = Owner(classOf[o], p)
<1>1. [CreationNext]_creationVars /\ classOf'[o] = classOf[o]
  <2>1. CASE UNCHANGED instanceVars
    BY <2>1 DEF instanceVars, objectVars
  <2>2. CASE CreationNext /\ UNCHANGED objectVars
    BY <2>2 DEF objectVars
  <2>3. ASSUME NEW q \in Obj, NEW c \in Class, Alloc(q, c)
        PROVE  UNCHANGED creationVars /\ classOf'[o] = classOf[o]
    BY <2>3 DEF Alloc, InstanceInv, InstanceTypeOK, Live
  <2>4. ASSUME NEW q \in Live, NEW k \in Prop, GetFast(q, k) \/ GetFromDict(q, k)
        PROVE  UNCHANGED <<creationVars, classOf>>
    BY <2>4 DEF GetFast, GetFromDict
  <2>5. ASSUME NEW q \in Live, NEW k \in Prop, NEW v \in Value \cup {Nil},
               SetFast(q, k, v) \/ SetInDict(q, k, v)
        PROVE  UNCHANGED <<creationVars, classOf>>
    BY <2>5 DEF SetFast, SetInDict
  <2>. QED BY <2>1, <2>2, <2>3, <2>4, <2>5 DEF InstanceNext, ObjectNext
<1>. QED BY <1>1, OwnerStays

\* What is stored for an object is changed by its own setters only.
LEMMA StepKeepsStored ==
  ASSUME InstanceInv, [InstanceNext]_instanceVars,
         NEW o \in Live, NEW p \in Prop,
         View(o, p) # Unset, View(o, p)' # View(o, p)
  PROVE  \E k \in Prop, v \in Value \cup {Nil} :
           SetterKey(k) = p /\ (SetFast(o, k, v) \/ SetInDict(o, k, v))
<1>1. /\ o \in Obj
      /\ dict \in [Obj -> [Prop -> Stored \cup {Nil}]]
      /\ ivar \in [Obj -> [Prop -> Value \cup {Nil}]]
      /\ classOf \in [Obj -> Class \cup {Nil}]
  BY DEF InstanceInv, InstanceTypeOK, Live
<1>2. ASSUME UNCHANGED creationVars \/ CreationNext, classOf'[o] = classOf[o],
             Owner(classOf[o], p) \in useFastIvars => ivar'[o][p] = ivar[o][p],
             Owner(classOf[o], p) \notin useFastIvars => dict'[o][p] = dict[o][p]
      PROVE  FALSE
  <2>1. [CreationNext]_creationVars
    BY <1>2
  <2>. QED BY <1>2, <2>1, ViewStays
<1>3. CASE UNCHANGED instanceVars
  BY <1>2, <1>3 DEF instanceVars, objectVars
<1>4. CASE CreationNext /\ UNCHANGED objectVars
  BY <1>2, <1>4 DEF objectVars
<1>5. ASSUME NEW q \in Obj, NEW c \in Class, Alloc(q, c) PROVE FALSE
  <2>1. UNCHANGED creationVars /\ q # o /\ classOf'[o] = classOf[o]
    BY <1>1, <1>5 DEF Alloc
  <2>2. \/ \E row : ivar' = [ivar EXCEPT ![q] = row] /\ dict' = dict
        \/ \E row : dict' = [dict EXCEPT ![q] = row] /\ ivar' = ivar
    BY <1>5 DEF Alloc
  <2>3. ivar'[o][p] = ivar[o][p] /\ dict'[o][p] = dict[o][p]
    BY <1>1, <2>1, <2>2
  <2>. QED BY <1>2, <2>1, <2>3
<1>6. ASSUME NEW q \in Live, NEW k \in Prop, GetFast(q, k) PROVE FALSE
  BY <1>2, <1>6 DEF GetFast
<1>7. ASSUME NEW q \in Live, NEW k \in Prop, GetFromDict(q, k) PROVE FALSE
  <2>1. UNCHANGED creationVars /\ classOf'[o] = classOf[o] /\ ivar'[o][p] = ivar[o][p]
    BY <1>7 DEF GetFromDict
  <2>2. \/ dict' = dict
        \/ dict[q][k] = Nil /\ \E w : dict' = [dict EXCEPT ![q][k] = w]
    BY <1>7 DEF GetFromDict
  <2>3. CASE q = o /\ k = p /\ dict' # dict
    BY <1>7, <2>2, <2>3 DEF GetFromDict, View
  <2>4. CASE q # o \/ k # p \/ dict' = dict
    <3>1. dict'[o][p] = dict[o][p]
      BY <1>1, <2>2, <2>4
    <3>. QED BY <1>2, <2>1, <3>1
  <2>. QED BY <2>3, <2>4
<1>8. ASSUME NEW q \in Live, NEW k \in Prop, NEW v \in Value \cup {Nil},
             SetFast(q, k, v) \/ SetInDict(q, k, v)
      PROVE  q = o /\ SetterKey(k) = p
  <2>1. SUFFICES ASSUME q # o \/ SetterKey(k) # p PROVE FALSE
    OBVIOUS
  <2>2. UNCHANGED creationVars /\ classOf'[o] = classOf[o]
    BY <1>8 DEF SetFast, SetInDict
  <2>3. \/ ivar' = ivar /\ \/ dict' = dict
                           \/ \E w : dict' = [dict EXCEPT ![q][SetterKey(k)] = w]
        \/ dict' = dict /\ \/ ivar' = ivar
                           \/ \E w : ivar' = [ivar EXCEPT ![q][SetterKey(k)] = w]
    BY <1>8 DEF SetFast, SetInDict
  <2>4. ivar'[o][p] = ivar[o][p] /\ dict'[o][p] = dict[o][p]
    BY <1>1, <2>1, <2>3
  <2>. QED BY <1>2, <2>2, <2>4
<1>. QED
  BY <1>3, <1>4, <1>5, <1>6, <1>7, <1>8 DEF InstanceNext, ObjectNext

-----------------------------------------------------------------------------
(* The theorems                                                            *)

\* Objects, dictionaries and instance variables keep their types, and an object
\* without a dictionary has no entries in one.
THEOREM InstancesTypeCorrect == InstanceSpec => []InstanceTypeOK
BY InstancesInvariant, PTL DEF InstanceInv

\* A getter that the runtime finds has its instance variable, or its default.
THEOREM GettersFindStorage == InstanceSpec => []GetterFindsStorage
BY InstancesInvariant, InvServesGetters, PTL

\* An object made by the allocator has the dictionary its properties need, in
\* whatever order the classes above it got them.
THEOREM DictionariesAreThere == InstanceSpec => []DictionaryWhenNeeded
BY InstancesInvariant, InvServesGetters, PTL

\* A name that an object understands is served by one class for ever: nothing
\* declared later, above or below, moves the property to another storage.
THEOREM OwnersAreStable == InstanceSpec => OwnerStable
<1>1. InstanceInv /\ [InstanceNext]_instanceVars =>
        [\A o \in Live, p \in Prop :
           Understands(classOf[o], p) =>
             /\ Understands(classOf[o], p)'
             /\ Owner(classOf[o], p)' = Owner(classOf[o], p)]_instanceVars
  BY StepKeepsOwners
<1>. QED BY <1>1, InstancesInvariant, PTL DEF InstanceSpec, OwnerStable

\* What is stored for an object stays until a setter message to that object.
THEOREM StoredStays == InstanceSpec => StoredIsStable
<1>1. InstanceInv /\ [InstanceNext]_instanceVars =>
        [\A o \in Live, p \in Prop :
           View(o, p) # Unset /\ View(o, p)' # View(o, p) =>
             \E q \in Prop, v \in Value \cup {Nil} :
                /\ SetterKey(q) = p
                /\ SetFast(o, q, v) \/ SetInDict(o, q, v)]_instanceVars
  BY StepKeepsStored
<1>. QED BY <1>1, InstancesInvariant, PTL DEF InstanceSpec, StoredIsStable

-----------------------------------------------------------------------------
(* The documented store                                                    *)

\* No two names share a setter: without this, objects do not implement the
\* store, as set<P>: stores for one of them what the other was given.
NoVariants ==
  \A p, q \in Prop : SetterKey(p) = p /\ (UpperFirst[p] = UpperFirst[q] => p = q)

\* What the store's variables are here.
has == [c \in Class |-> {p \in Prop : Understands(c, p)}]
default == [c \in Class |-> [p \in Prop |->
             IF Understands(c, p) THEN DefaultOf(c, p) ELSE Nil]]
slot == [o \in Obj |-> [p \in Prop |->
          IF o \in Live /\ Understands(classOf[o], p) THEN Reading(o, p) ELSE Nil]]
Known(o) == IF classOf[o] = Nil THEN {} ELSE has[classOf[o]]

\* Entries are those of names the object understands; what is not allocated
\* has nothing in its variables.
Kept ==
  /\ \A o \in Live, p \in Prop : dict[o][p] # Nil => Understands(classOf[o], p)
  /\ \A o \in Obj \ Live, p \in Prop : ivar[o][p] = Nil

\* Objects have been made by the allocator.
Allocated == \A o \in Live : chain[classOf[o]] \cap allocator # {}

StoreInv == InstanceInv /\ Kept /\ Allocated

\* Only what FSClass made understands a name.
LEMMA UnderstandsIsCreated ==
  ASSUME ClassesInv, NEW c \in Class, NEW p \in Prop, Understands(c, p)
  PROVE  c \in Created
<1>1. PICK a \in chain[c] : p \in Declared(a)
  BY DEF Understands, Declarers
<1>2. c \in Runtime /\ a \in Class
  BY DEF ClassesInv, CreationInv, CreationTypeOK, Shape, Runtime
<1>3. a \in Created
  BY <1>1, <1>2 DEF ClassesInv, Declaring
<1>4. c \notin ObjCClass
  BY <1>1, <1>3, CreationAssumption DEF ClassesInv, CreationInv, Shape, Created
<1>. QED BY <1>2, <1>4 DEF Created

\* What a class declares for a name is a value, or nil.
LEMMA DefaultType ==
  ASSUME ClassesInv, NEW c \in Class, NEW p \in Prop, Understands(c, p)
  PROVE  DefaultOf(c, p) \in Value \cup {Nil} /\ DefaultValue(c, p) = DefaultOf(c, p)
<1>1. c \in Created
  BY UnderstandsIsCreated
<1>. QED
  BY <1>1, GetterServed, DefaultIsValue DEF DefaultValue, DefaultOf

\* What the getter of a name returns, in terms of the object's variables.
Held(o, p) ==
  IF ~(o \in Live /\ Understands(classOf[o], p)) THEN Nil
  ELSE IF Owner(classOf[o], p) \in useFastIvars THEN ivar[o][p]
  ELSE IF dict[o][p] = Nil THEN DefaultOf(classOf[o], p)
  ELSE FromStored(dict[o][p])

\* A slot is that, and a name without instance variable has a dictionary.
SlotsAreHeld ==
  \A o \in Obj, p \in Prop :
    /\ slot[o][p] = Held(o, p) /\ Held(o, p) \in Value \cup {Nil}
    /\ o \in Live /\ Understands(classOf[o], p) /\ Owner(classOf[o], p) \notin useFastIvars
         => o \in hasDict

\* So it is in every state.
LEMMA SlotIsHeld == StoreInv => SlotsAreHeld
<1>. SUFFICES ASSUME StoreInv, NEW o \in Obj, NEW p \in Prop
              PROVE  /\ slot[o][p] = Held(o, p) /\ Held(o, p) \in Value \cup {Nil}
                     /\ o \in Live /\ Understands(classOf[o], p)
                          /\ Owner(classOf[o], p) \notin useFastIvars => o \in hasDict
  BY DEF SlotsAreHeld
<1>1. /\ dict[o][p] \in Stored \cup {Nil} /\ ivar[o][p] \in Value \cup {Nil}
      /\ o \in Live => classOf[o] \in Created /\ classOf[o] \in Class
  BY DEF StoreInv, InstanceInv, InstanceTypeOK, Live
<1>2. \A w \in Stored : FromStored(w) \in Value \cup {Nil}
  BY DEF FromStored, Stored
<1>3. CASE ~(o \in Live /\ Understands(classOf[o], p))
  BY <1>3 DEF slot, Held
<1>4. CASE o \in Live /\ Understands(classOf[o], p)
  <2>1. /\ DefaultValue(classOf[o], p) = DefaultOf(classOf[o], p)
        /\ DefaultOf(classOf[o], p) \in Value \cup {Nil}
    BY <1>1, <1>4, DefaultType DEF StoreInv, InstanceInv
  <2>2. Owner(classOf[o], p) \notin useFastIvars => o \in hasDict
    BY <1>4, InvServesGetters DEF StoreInv, Allocated, DictionaryWhenNeeded
  <2>3. slot[o][p] = Reading(o, p)
    BY <1>4 DEF slot
  <2>4. CASE Owner(classOf[o], p) \in useFastIvars
    <3>1. View(o, p) = ivar[o][p] /\ ivar[o][p] # Unset
      BY <1>1, <1>4, <2>4, InstanceAssumption DEF View
    <3>. QED BY <1>1, <1>4, <2>3, <2>4, <3>1 DEF Reading, Held
  <2>5. CASE Owner(classOf[o], p) \notin useFastIvars /\ dict[o][p] = Nil
    <3>1. View(o, p) = Unset
      BY <1>4, <2>5 DEF View
    <3>. QED BY <1>4, <2>1, <2>2, <2>3, <2>5, <3>1 DEF Reading, Held
  <2>6. CASE Owner(classOf[o], p) \notin useFastIvars /\ dict[o][p] # Nil
    <3>1. FromStored(dict[o][p]) \in Value \cup {Nil}
      BY <1>1, <1>2, <2>6
    <3>2. View(o, p) = FromStored(dict[o][p]) /\ View(o, p) # Unset
      BY <1>4, <2>6, <3>1, InstanceAssumption DEF View
    <3>. QED BY <1>4, <2>2, <2>3, <2>6, <3>1, <3>2 DEF Reading, Held
  <2>. QED BY <2>4, <2>5, <2>6
<1>. QED BY <1>3, <1>4

\* The variables have the store's types.
LEMMA StoreTypes ==
  StoreInv => /\ has \in [Class -> SUBSET Prop]
              /\ default \in [Class -> [Prop -> Value \cup {Nil}]]
              /\ slot \in [Obj -> [Prop -> Value \cup {Nil}]]
<1>. SUFFICES ASSUME StoreInv
              PROVE  /\ default \in [Class -> [Prop -> Value \cup {Nil}]]
                     /\ slot \in [Obj -> [Prop -> Value \cup {Nil}]]
  BY DEF has
<1>1. \A c \in Class, p \in Prop : Understands(c, p) => DefaultOf(c, p) \in Value \cup {Nil}
  BY DefaultType DEF StoreInv, InstanceInv
<1>2. default \in [Class -> [Prop -> Value \cup {Nil}]]
  BY <1>1 DEF default
<1>3. \A o \in Obj, p \in Prop : slot[o][p] \in Value \cup {Nil}
  BY SlotIsHeld DEF SlotsAreHeld
<1>. QED BY <1>2, <1>3 DEF slot

\* A name declared later for an object that exists is kept in its dictionary.
LEMMA NewNamesAreRegular ==
  ASSUME InstanceInv, [CreationNext]_creationVars,
         NEW o \in Live, classOf'[o] = classOf[o],
         NEW p \in Prop, ~Understands(classOf[o], p), Understands(classOf[o], p)'
  PROVE  Owner(classOf[o], p)' \notin useFastIvars'
<1>. DEFINE T == Declarers(classOf[o], p)'
<1>1. PICK c : c = classOf[o]
  OBVIOUS
<1>2. /\ CreationInv /\ ClassesInv' /\ c \in Created /\ c \in Runtime
  BY <1>1, ClassesKeep DEF InstanceInv, InstanceTypeOK, ClassesInv, Created
<1>3. chain'[c] = chain[c] /\ c \in Created'
  BY <1>2, CreatedIsStable
<1>4. T = {a \in chain[c] : p \in Declared(a)'} /\ T # {}
  BY <1>1, <1>3 DEF Declarers, Understands
<1>5. \A a \in T : a \notin useFastIvars'
  <2>. SUFFICES ASSUME NEW a \in T PROVE a \notin useFastIvars'
    OBVIOUS
  <2>1. a \in chain[c] /\ p \in Declared(a)' /\ p \notin Declared(a)
    BY <1>1, <1>4 DEF Understands, Declarers
  <2>2. a \in Runtime /\ a \in Class
    BY <1>2, <2>1 DEF CreationInv, ChainIsLine, Runtime
  <2>3. Declared(a)' # Declared(a) /\ properties'[a] # properties[a]
    BY <2>1 DEF Declared
  <2>4. a \in Created \ useFastIvars
    BY <1>2, <2>2, <2>3, PropertyKinds DEF NameIsFree, CreationInv
  <2>. QED BY <1>2, <2>4, CreatedIsStable
<1>6. Owner(classOf[o], p)' \in T
  <2>1. \E d \in T : T \subseteq chain'[d]
    <3>1. c \in Runtime' /\ T \in SUBSET chain'[c]
      BY <1>3, <1>4 DEF Created
    <3>. QED BY <1>2, <1>4, <3>1 DEF ClassesInv, HasNearest
  <2>2. T \cap chain'[classOf'[o]] = T
    BY <1>1, <1>3, <1>4
  <2>. HIDE DEF T
  <2>3. (CHOOSE a \in T : T \subseteq chain'[a]) \in T
    BY <2>1
  <2>4. Owner(classOf[o], p)' =
          CHOOSE a \in T \cap chain'[classOf'[o]] :
            T \cap chain'[classOf'[o]] \subseteq chain'[a]
    BY DEF Owner, Nearest, T
  <2>. QED BY <2>2, <2>3, <2>4
<1>. QED BY <1>5, <1>6

\* The store's actions, said of its variables here.
LEMMA StoreActions ==
  /\ Store!Redefine <=>
       /\ UNCHANGED <<classOf, answer>>
       /\ has' \in [Class -> SUBSET Prop]
       /\ \A c \in Class : has[c] \subseteq has'[c]
       /\ default' \in [Class -> [Prop -> Value \cup {Nil}]]
       /\ slot' = [o \in Obj |-> [p \in Prop |->
                     IF p \in Known(o)' \ Known(o) THEN default'[classOf[o]][p]
                                                   ELSE slot[o][p]]]
  /\ \A o, c :
       Store!New(o, c) <=>
         /\ classOf[o] = Nil
         /\ classOf' = [classOf EXCEPT ![o] = c]
         /\ slot' = [slot EXCEPT ![o] = [p \in Prop |->
                       IF p \in has[c] THEN default[c][p] ELSE Nil]]
         /\ Answers(o, Nil, Nil)
         /\ has' = has /\ default' = default
  /\ \A o, p :
       Store!Read(o, p) <=>
         /\ p \in Known(o)
         /\ Answers(o, p, slot[o][p])
         /\ classOf' = classOf /\ has' = has /\ default' = default /\ slot' = slot
  /\ \A o, p, v :
       Store!Write(o, p, v) <=>
         /\ p \in Known(o)
         /\ slot' = [slot EXCEPT ![o][p] = v]
         /\ Answers(o, p, Nil)
         /\ classOf' = classOf /\ has' = has /\ default' = default
BY DEF Store!Redefine, Store!New, Store!Read, Store!Write, Store!Known, Store!Result,
       Store!Answers, Answers, Known, has, default, slot

\* Where classes stay, so does all that is known of their names.
LEMMA NamesStay ==
  ASSUME UNCHANGED creationVars
  PROVE  /\ \A c, p : /\ Understands(c, p)' <=> Understands(c, p)
                      /\ Owner(c, p)' = Owner(c, p)
                      /\ DefaultOf(c, p)' = DefaultOf(c, p)
         /\ useFastIvars' = useFastIvars
         /\ has' = has /\ default' = default
<1>1. UNCHANGED <<chain, useFastIvars, properties>>
  BY DEF creationVars, hierarchyVars
<1>2. \A c, p : Declarers(c, p)' = Declarers(c, p)
  BY <1>1 DEF Declarers, Declared
<1>3. \A c, p : Understands(c, p)' <=> Understands(c, p)
  BY <1>2 DEF Understands
<1>4. ASSUME NEW c, NEW p PROVE Owner(c, p)' = Owner(c, p)
  <2>1. Owner(c, p)' = CHOOSE a \in Declarers(c, p)' \cap chain'[c] :
                         Declarers(c, p)' \cap chain'[c] \subseteq chain'[a]
    BY DEF Owner, Nearest
  <2>. QED BY <1>1, <1>2, <2>1 DEF Owner, Nearest
<1>5. \A c, p : DefaultOf(c, p)' = DefaultOf(c, p)
  BY <1>1, <1>4 DEF DefaultOf, FromStored
<1>6. has' = has
  BY <1>3 DEF has
<1>7. default' = default
  BY <1>3, <1>5 DEF default
<1>. QED BY <1>1, <1>3, <1>4, <1>5, <1>6, <1>7

\* Functions of objects and names that agree but for one pair.
LEMMA Updated ==
  ASSUME NEW V, NEW f \in [Obj -> [Prop -> V]], NEW g \in [Obj -> [Prop -> V]],
         NEW o \in Obj, NEW p \in Prop,
         \A q \in Obj, k \in Prop : q # o \/ k # p => g[q][k] = f[q][k]
  PROVE  g = [f EXCEPT ![o][p] = g[o][p]]
<1>1. g = [f EXCEPT ![o] = g[o]]
  <2>1. \A q \in Obj : q # o => g[q] = f[q]
    OBVIOUS
  <2>. QED BY <2>1
<1>2. g[o] = [f[o] EXCEPT ![p] = g[o][p]]
  OBVIOUS
<1>. QED BY <1>1, <1>2

\* With a setter of its own, a name is what its setter stores.
LEMMA OwnSetter ==
  ASSUME NoVariants, NEW c, NEW p \in Prop
  PROVE  /\ SetterKey(p) = p
         /\ SetterOwners(c, p) = Declarers(c, p)
         /\ SetterOwner(c, p) = Owner(c, p)
<1>1. SameSetter(p) = {p}
  BY DEF SameSetter, NoVariants
<1>2. SetterOwners(c, p) = Declarers(c, p)
  BY <1>1 DEF SetterOwners
<1>. QED BY <1>2 DEF NoVariants, SetterOwner, Owner

\* Class operations redefine: a name that has an entry or a variable keeps its
\* value, one without keeps its default, and a new one gets its default.
LEMMA ClassStepMaps ==
  ASSUME StoreInv, InstanceInv', [CreationNext]_creationVars, UNCHANGED objectVars,
         Careful
  PROVE  Store!Redefine /\ StoreInv'
<1>1. /\ UNCHANGED <<classOf, hasDict, dict, ivar, answer>> /\ Live' = Live
      /\ InstanceInv /\ ClassesInv /\ CreationInv
      /\ \A o \in Live : classOf[o] \in Created /\ classOf[o] \in Class /\ o \in Obj
  BY DEF objectVars, Live, StoreInv, InstanceInv, InstanceTypeOK, ClassesInv
<1>2. StoreInv'
  <2>1. \A o \in Live, p \in Prop : Understands(classOf[o], p) => Understands(classOf[o], p)'
    BY <1>1, OwnerStays
  <2>2. Kept'
    BY <1>1, <2>1 DEF Kept, StoreInv
  <2>3. Allocated'
    BY <1>1, CreatedIsStable DEF Allocated, StoreInv
  <2>. QED BY <2>2, <2>3 DEF StoreInv
<1>3. /\ has' \in [Class -> SUBSET Prop]
      /\ default' \in [Class -> [Prop -> Value \cup {Nil}]]
      /\ slot' \in [Obj -> [Prop -> Value \cup {Nil}]]
  <2>1. (StoreInv => /\ has \in [Class -> SUBSET Prop]
                     /\ default \in [Class -> [Prop -> Value \cup {Nil}]]
                     /\ slot \in [Obj -> [Prop -> Value \cup {Nil}]])'
    BY StoreTypes, PTL
  <2>. QED BY <1>2, <2>1
<1>4. ASSUME NEW c \in Class PROVE has[c] \subseteq has'[c]
  <2>. SUFFICES ASSUME NEW p \in Prop, Understands(c, p) PROVE Understands(c, p)'
    BY DEF has
  <2>1. c \in Created /\ chain'[c] = chain[c]
    BY <1>1, UnderstandsIsCreated, CreatedIsStable
  <2>2. PICK a \in chain[c] : p \in Declared(a)
    BY DEF Understands, Declarers
  <2>3. a \in Created
    BY <1>1, <2>1, <2>2
       DEF ClassesInv, CreationInv, CreationTypeOK, Declaring, Created, Runtime
  <2>4. p \in Declared(a)'
    BY <1>1, <2>2, <2>3, CreatedIsStable
  <2>. QED BY <2>1, <2>2, <2>4 DEF Understands, Declarers
<1>5. /\ \A o \in Obj, p \in Prop : slot[o][p] = Held(o, p)
      /\ \A o \in Obj, p \in Prop : slot'[o][p] = Held(o, p)'
  <2>1. (StoreInv => SlotsAreHeld)'
    BY SlotIsHeld, PTL
  <2>. QED BY <1>2, <2>1, SlotIsHeld DEF SlotsAreHeld
<1>6. ASSUME NEW o \in Obj, NEW p \in Prop
      PROVE  slot'[o][p] = IF p \in Known(o)' \ Known(o) THEN default'[classOf[o]][p]
                                                        ELSE slot[o][p]
  <2>1. CASE o \notin Live
    <3>1. Held(o, p) = Nil /\ Held(o, p)' = Nil /\ Known(o) = {} /\ Known(o)' = {}
      BY <1>1, <2>1 DEF Held, Known, Live
    <3>. QED BY <1>5, <3>1
  <2>2. CASE o \in Live
    <3>. DEFINE c == classOf[o]
    <3>1. c \in Class /\ c # Nil /\ (p \in Known(o) <=> Understands(c, p))
          /\ (p \in Known(o)' <=> Understands(c, p)')
      BY <1>1, <2>2, CreationAssumption DEF Known, has
    <3>2. CASE Understands(c, p)
      <4>1. /\ Understands(c, p)' /\ Owner(c, p)' = Owner(c, p)
            /\ Owner(c, p) \in useFastIvars' <=> Owner(c, p) \in useFastIvars
        BY <1>1, <2>2, <3>2, OwnerStays
      <4>2. ASSUME Owner(c, p) \notin useFastIvars, dict[o][p] = Nil
            PROVE  DefaultOf(c, p)' = DefaultOf(c, p)
        <5>1. Owner(c, p) \in Class /\ p \in Declared(Owner(c, p))
          BY <1>1, <2>2, <3>2, GetterServed DEF Declarers
        <5>2. View(o, p) = Unset
          BY <3>2, <4>2 DEF View
        <5>3. ~AllStored(Owner(c, p), p)
          BY <2>2, <3>2, <5>2 DEF AllStored
        <5>4. properties'[Owner(c, p)][p] = properties[Owner(c, p)][p]
          BY <5>1, <5>3 DEF Careful
        <5>. QED BY <1>1, <4>1, <5>4 DEF DefaultOf, FromStored
      <4>3. Held(o, p)' = Held(o, p)
        BY <1>1, <2>2, <3>2, <4>1, <4>2 DEF Held, FromStored
      <4>. QED BY <1>5, <3>1, <3>2, <4>3
    <3>3. CASE ~Understands(c, p) /\ Understands(c, p)'
      <4>1. Owner(c, p)' \notin useFastIvars' /\ dict[o][p] = Nil
        BY <1>1, <2>2, <3>3, NewNamesAreRegular DEF Kept, StoreInv
      <4>2. Held(o, p)' = DefaultOf(c, p)'
        BY <1>1, <2>2, <3>3, <4>1 DEF Held
      <4>3. default'[c][p] = DefaultOf(c, p)'
        BY <1>1, <3>1, <3>3 DEF default
      <4>. QED BY <1>5, <3>1, <3>3, <4>2, <4>3
    <3>4. CASE ~Understands(c, p) /\ ~Understands(c, p)'
      <4>1. Held(o, p) = Nil /\ Held(o, p)' = Nil
        BY <1>1, <3>4 DEF Held
      <4>. QED BY <1>5, <3>1, <3>4, <4>1
    <3>. QED BY <3>2, <3>3, <3>4
  <2>. QED BY <2>1, <2>2
<1>7. slot' = [o \in Obj |-> [p \in Prop |->
                 IF p \in Known(o)' \ Known(o) THEN default'[classOf[o]][p]
                                               ELSE slot[o][p]]]
  <2>. DEFINE g == slot'
              new(o, p) == IF p \in Known(o)' \ Known(o) THEN default'[classOf[o]][p]
                                                        ELSE slot[o][p]
  <2>1. \A o \in Obj, p \in Prop : g[o][p] = new(o, p)
    BY <1>6
  <2>2. g \in [Obj -> [Prop -> Value \cup {Nil}]]
    BY <1>3
  <2>. HIDE DEF g, new
  <2>3. g = [o \in Obj |-> [p \in Prop |-> new(o, p)]]
    <3>1. \A o \in Obj : g[o] = [p \in Prop |-> new(o, p)]
      BY <2>1, <2>2
    <3>. QED BY <2>2, <3>1
  <2>. QED BY <2>3 DEF g, new
<1>8. Store!Redefine
  BY <1>1, <1>3, <1>4, <1>7, StoreActions
<1>. QED BY <1>2, <1>8

\* A message to an object changes no class, and no slot but the one it is about.
LEMMA MessageMaps ==
  ASSUME StoreInv, InstanceInv', UNCHANGED <<creationVars, classOf, hasDict>>,
         NEW o \in Live, NEW p \in Prop, Understands(classOf[o], p),
         \A q \in Obj, k \in Prop : q # o \/ k # p =>
           ivar'[q][k] = ivar[q][k] /\ dict'[q][k] = dict[q][k]
  PROVE  /\ StoreInv'
         /\ has' = has /\ default' = default /\ p \in Known(o)
         /\ slot[o][p] = Held(o, p)
         /\ slot' = [slot EXCEPT ![o][p] = Held(o, p)']
         /\ Held(o, p)' = slot[o][p] => slot' = slot
<1>1. /\ Live' = Live /\ o \in Obj /\ classOf[o] \in Class /\ classOf[o] # Nil
      /\ \A q \in Live : q \in Obj
      /\ chain' = chain /\ allocator' = allocator
  BY DEF Live, StoreInv, InstanceInv, InstanceTypeOK, creationVars, hierarchyVars
<1>2. /\ \A c, k : /\ Understands(c, k)' <=> Understands(c, k)
                   /\ Owner(c, k)' = Owner(c, k)
                   /\ DefaultOf(c, k)' = DefaultOf(c, k)
      /\ useFastIvars' = useFastIvars /\ has' = has /\ default' = default
  BY NamesStay
<1>3. StoreInv'
  <2>1. Kept'
    BY <1>1, <1>2 DEF Kept, StoreInv, Live
  <2>2. Allocated'
    BY <1>1 DEF Allocated, StoreInv
  <2>. QED BY <2>1, <2>2 DEF StoreInv
<1>4. /\ \A q \in Obj, k \in Prop : slot[q][k] = Held(q, k)
      /\ \A q \in Obj, k \in Prop : slot'[q][k] = Held(q, k)'
  <2>1. (StoreInv => SlotsAreHeld)'
    BY SlotIsHeld, PTL
  <2>. QED BY <1>3, <2>1, SlotIsHeld DEF SlotsAreHeld
<1>5. /\ slot \in [Obj -> [Prop -> Value \cup {Nil}]]
      /\ slot' \in [Obj -> [Prop -> Value \cup {Nil}]]
  <2>1. (StoreInv => slot \in [Obj -> [Prop -> Value \cup {Nil}]])'
    BY StoreTypes, PTL
  <2>. QED BY <1>3, <2>1, StoreTypes
<1>6. \A q \in Obj, k \in Prop : q # o \/ k # p => slot'[q][k] = slot[q][k]
  <2>1. \A q \in Obj, k \in Prop : q # o \/ k # p => Held(q, k)' = Held(q, k)
    BY <1>1, <1>2 DEF Held, FromStored
  <2>. QED BY <1>4, <2>1
<1>7. slot' = [slot EXCEPT ![o][p] = Held(o, p)']
  <2>. DEFINE f == slot
              g == slot'
              w == Held(o, p)'
  <2>1. /\ f \in [Obj -> [Prop -> Value \cup {Nil}]]
        /\ g \in [Obj -> [Prop -> Value \cup {Nil}]]
        /\ \A q \in Obj, k \in Prop : q # o \/ k # p => g[q][k] = f[q][k]
        /\ g[o][p] = w
    BY <1>1, <1>4, <1>5, <1>6
  <2>. HIDE DEF f, g, w
  <2>2. g = [f EXCEPT ![o][p] = g[o][p]]
    BY <1>1, <2>1, Updated
  <2>. QED BY <2>1, <2>2 DEF f, g, w
<1>8. ASSUME Held(o, p)' = slot[o][p] PROVE slot' = slot
  <2>. DEFINE f == slot
              w == Held(o, p)'
  <2>1. f \in [Obj -> [Prop -> Value \cup {Nil}]] /\ w = f[o][p]
    BY <1>5, <1>8
  <2>. HIDE DEF f, w
  <2>2. [f EXCEPT ![o][p] = w] = f
    BY <1>1, <2>1
  <2>. QED BY <1>7, <2>2 DEF f, w
<1>9. p \in Known(o)
  BY <1>1 DEF Known, has
<1>. QED BY <1>1, <1>2, <1>3, <1>4, <1>7, <1>8, <1>9

\* Reading an instance variable, or an entry, is reading the slot: the entry
\* that the first read makes is the default the slot had.
LEMMA ReadMaps ==
  ASSUME StoreInv, InstanceInv', NEW o \in Live, NEW p \in Prop,
         GetFast(o, p) \/ GetFromDict(o, p)
  PROVE  Store!Read(o, p) /\ StoreInv'
<1>1. /\ UNCHANGED <<creationVars, classOf, hasDict>> /\ Understands(classOf[o], p)
      /\ o \in Obj /\ o \in Live /\ classOf[o] \in Class
  BY DEF GetFast, GetFromDict, Live, StoreInv, InstanceInv, InstanceTypeOK
<1>2. /\ dict \in [Obj -> [Prop -> Stored \cup {Nil}]]
      /\ ivar \in [Obj -> [Prop -> Value \cup {Nil}]]
  BY DEF StoreInv, InstanceInv, InstanceTypeOK
<1>3. \A q \in Obj, k \in Prop : q # o \/ k # p =>
        ivar'[q][k] = ivar[q][k] /\ dict'[q][k] = dict[q][k]
  <2>1. ivar' = ivar /\ (dict' = dict \/ \E w : dict' = [dict EXCEPT ![o][p] = w])
    BY DEF GetFast, GetFromDict
  <2>. QED BY <1>1, <1>2, <2>1
<1>4. /\ StoreInv'
      /\ has' = has /\ default' = default /\ p \in Known(o)
      /\ slot[o][p] = Held(o, p)
      /\ Held(o, p)' = slot[o][p] => slot' = slot
  BY <1>1, <1>3, MessageMaps
<1>5. /\ Understands(classOf[o], p)' /\ Owner(classOf[o], p)' = Owner(classOf[o], p)
      /\ useFastIvars' = useFastIvars /\ o \in Live'
  BY <1>1, NamesStay DEF Live
<1>6. /\ DefaultValue(classOf[o], p) = DefaultOf(classOf[o], p)
      /\ DefaultOf(classOf[o], p) \in Value \cup {Nil}
  BY <1>1, DefaultType DEF StoreInv, InstanceInv
<1>7. \A w \in Value \cup {Nil} : ToStored(w) # Nil /\ FromStored(ToStored(w)) = w
  BY CreationAssumption DEF ToStored, FromStored
<1>8. SUFFICES Answers(o, p, Held(o, p)) /\ Held(o, p)' = Held(o, p)
  BY <1>1, <1>4, StoreActions
<1>9. CASE GetFast(o, p)
  BY <1>1, <1>5, <1>9 DEF GetFast, Held
<1>10. CASE GetFromDict(o, p) /\ dict[o][p] = Nil
  <2>. DEFINE w == DefaultOf(classOf[o], p)
  <2>1. /\ Owner(classOf[o], p) \notin useFastIvars
        /\ Answers(o, p, w)
        /\ o \in hasDict => dict' = [dict EXCEPT ![o][p] = ToStored(w)]
    BY <1>6, <1>10 DEF GetFromDict
  <2>2. o \in hasDict
    BY <1>1, <2>1, SlotIsHeld DEF SlotsAreHeld
  <2>3. dict'[o][p] = ToStored(w)
    BY <1>1, <1>2, <2>1, <2>2
  <2>4. Held(o, p) = w
    BY <1>1, <1>10, <2>1 DEF Held
  <2>5. Held(o, p)' = FromStored(dict'[o][p])
    BY <1>1, <1>5, <1>6, <1>7, <2>1, <2>3 DEF Held, FromStored
  <2>. QED BY <1>6, <1>7, <2>1, <2>3, <2>4, <2>5
<1>11. CASE GetFromDict(o, p) /\ dict[o][p] # Nil
  BY <1>1, <1>5, <1>11 DEF GetFromDict, Held, FromStored
<1>. QED BY <1>9, <1>10, <1>11

\* Setting an instance variable, or an entry, is writing the slot.
LEMMA WriteMaps ==
  ASSUME NoVariants, StoreInv, InstanceInv',
         NEW o \in Live, NEW p \in Prop, NEW v \in Value \cup {Nil},
         SetFast(o, p, v) \/ SetInDict(o, p, v)
  PROVE  Store!Write(o, p, v) /\ StoreInv'
<1>1. /\ UNCHANGED <<creationVars, classOf, hasDict>> /\ o \in Obj
      /\ SetterKey(p) = p /\ SetterOwners(classOf[o], p) = Declarers(classOf[o], p)
      /\ SetterOwner(classOf[o], p) = Owner(classOf[o], p)
      /\ Answers(o, p, Nil)
  BY OwnSetter DEF SetFast, SetInDict, Live
<1>2. /\ dict \in [Obj -> [Prop -> Stored \cup {Nil}]]
      /\ ivar \in [Obj -> [Prop -> Value \cup {Nil}]]
      /\ classOf[o] \in Created
  BY DEF StoreInv, InstanceInv, InstanceTypeOK
<1>3. Understands(classOf[o], p)
  BY <1>1 DEF SetFast, SetInDict, Understands
<1>4. \A q \in Obj, k \in Prop : q # o \/ k # p =>
        ivar'[q][k] = ivar[q][k] /\ dict'[q][k] = dict[q][k]
  <2>1. \/ ivar' = ivar /\ (dict' = dict \/ \E w : dict' = [dict EXCEPT ![o][p] = w])
        \/ dict' = dict /\ (ivar' = ivar \/ \E w : ivar' = [ivar EXCEPT ![o][p] = w])
    BY <1>1 DEF SetFast, SetInDict
  <2>. QED BY <1>1, <1>2, <2>1
<1>5. /\ StoreInv'
      /\ has' = has /\ default' = default /\ p \in Known(o)
      /\ slot' = [slot EXCEPT ![o][p] = Held(o, p)']
  BY <1>1, <1>3, <1>4, MessageMaps
<1>6. /\ Understands(classOf[o], p)' /\ Owner(classOf[o], p)' = Owner(classOf[o], p)
      /\ useFastIvars' = useFastIvars /\ o \in Live' /\ classOf'[o] = classOf[o]
  BY <1>1, <1>3, NamesStay DEF Live
<1>7. Held(o, p)' = v
  <2>1. CASE SetFast(o, p, v)
    <3>1. Owner(classOf[o], p) \in useFastIvars
      BY <1>1, <2>1 DEF SetFast
    <3>2. p \in Ivars(classOf[o])
      <4>1. Owner(classOf[o], p) \in Declarers(classOf[o], p)
        BY <1>2, <1>3, GetterServed DEF StoreInv, InstanceInv
      <4>. QED BY <3>1, <4>1 DEF Ivars, Declarers
    <3>3. ivar'[o][p] = v
      BY <1>1, <1>2, <2>1, <3>2 DEF SetFast
    <3>. QED BY <1>6, <3>1, <3>3 DEF Held
  <2>2. CASE SetInDict(o, p, v)
    <3>1. Owner(classOf[o], p) \notin useFastIvars
      BY <1>1, <2>2 DEF SetInDict
    <3>2. o \in hasDict
      BY <1>1, <1>3, <3>1, SlotIsHeld DEF SlotsAreHeld
    <3>3. dict'[o][p] = ToStored(v)
      BY <1>1, <1>2, <2>2, <3>2 DEF SetInDict
    <3>4. ToStored(v) # Nil /\ FromStored(ToStored(v)) = v
      BY CreationAssumption DEF ToStored, FromStored
    <3>. QED BY <1>6, <3>1, <3>3, <3>4 DEF Held, FromStored
  <2>. QED BY <2>1, <2>2
<1>. QED BY <1>1, <1>5, <1>7, StoreActions

\* A name that a class declares itself is served by that class.
LEMMA OwnName ==
  ASSUME ClassesInv, NEW c \in Created, NEW p \in Declared(c), p \in Prop
  PROVE  Understands(c, p) /\ Owner(c, p) = c
<1>. DEFINE T == Declarers(c, p)
<1>1. c \in Runtime /\ c \in T /\ T \subseteq chain[c]
  BY DEF Declarers, Created, Runtime
<1>2. \A a, b \in T : a \in chain[b] /\ b \in chain[a] => a = b
  <2>1. T \subseteq Runtime
    BY <1>1 DEF ClassesInv, CreationInv, ChainIsLine
  <2>. QED BY <2>1 DEF ClassesInv, Acyclic
<1>3. Owner(c, p) = CHOOSE a \in T \cap chain[c] : T \cap chain[c] \subseteq chain[a]
  BY DEF Owner, Nearest
<1>4. Understands(c, p)
  BY <1>1 DEF Understands
<1>. HIDE DEF T
<1>5. T \cap chain[c] = T
  BY <1>1
<1>6. (CHOOSE a \in T : T \subseteq chain[a]) = c
  BY <1>1, <1>2, LowestIsChosen
<1>. QED BY <1>3, <1>4, <1>5, <1>6

\* A new object has the defaults of its class.
LEMMA AllocMaps ==
  ASSUME NoVariants, StoreInv, InstanceInv', Careful,
         NEW o \in Obj, NEW c \in Class, Alloc(o, c)
  PROVE  Store!New(o, c) /\ StoreInv'
<1>. DEFINE viaAllocator == chain[c] \cap allocator # {}
            names == IF viaAllocator THEN FilledIn(c) ELSE {}
            offered(k) == {properties[c][p] : p \in {q \in names : SetterKey(q) = k}}
<1>1. /\ o \notin Live /\ c \in Created /\ UNCHANGED creationVars
      /\ classOf' = [classOf EXCEPT ![o] = c] /\ classOf[o] = Nil
      /\ Answers(o, Nil, Nil)
      /\ hasDict' \in {hasDict, hasDict \cup {o}}
      /\ ClassesInv /\ c # Nil
  BY CreationAssumption DEF Alloc, Live, StoreInv, InstanceInv
<1>2. classOf'[o] = c /\ \A q \in Obj \ {o} : classOf'[q] = classOf[q]
  BY <1>1 DEF StoreInv, InstanceInv, InstanceTypeOK
<1>3. GetsDefaults(c)
  BY <1>1, <1>2 DEF Careful
<1>4. PICK given \in [Prop -> Value \cup {Nil}] :
        /\ \A k \in Prop : given[k] \in IF offered(k) = {} THEN {Nil} ELSE offered(k)
        /\ IF c \in useFastIvars
           THEN /\ ivar' = [ivar EXCEPT ![o] = [k \in Prop |->
                             IF k \in Ivars(c) THEN given[k] ELSE Nil]]
                /\ UNCHANGED dict
           ELSE dict' = [dict EXCEPT ![o] = given] /\ UNCHANGED ivar
  BY DEF Alloc
<1>5. \A k \in Prop :
        given[k] = IF k \in FilledIn(c) THEN properties[c][k] ELSE Nil
  <2>. SUFFICES ASSUME NEW k \in Prop
                PROVE  given[k] = IF k \in FilledIn(c) THEN properties[c][k] ELSE Nil
    OBVIOUS
  <2>1. names = FilledIn(c) /\ \A q \in FilledIn(c) : q \in Prop
    BY <1>3 DEF GetsDefaults, FilledIn, Declared
  <2>2. \A q \in FilledIn(c) : SetterKey(q) = k <=> q = k
    BY <2>1 DEF NoVariants
  <2>3. offered(k) = IF k \in FilledIn(c) THEN {properties[c][k]} ELSE {}
    BY <2>1, <2>2
  <2>. QED BY <1>4, <2>3
<1>. HIDE DEF viaAllocator, names, offered
<1>6. /\ dict \in [Obj -> [Prop -> Stored \cup {Nil}]]
      /\ ivar \in [Obj -> [Prop -> Value \cup {Nil}]]
      /\ \A k \in Prop : dict[o][k] = Nil /\ ivar[o][k] = Nil
  BY <1>1 DEF StoreInv, InstanceInv, InstanceTypeOK, Kept
<1>7. \A q \in Obj \ {o}, k \in Prop : ivar'[q][k] = ivar[q][k] /\ dict'[q][k] = dict[q][k]
  <2>1. \/ dict' = dict /\ \E row : ivar' = [ivar EXCEPT ![o] = row]
        \/ ivar' = ivar /\ dict' = [dict EXCEPT ![o] = given]
    BY <1>4
  <2>. QED BY <1>6, <2>1
<1>8. \A k \in Prop :
        /\ ivar'[o][k] = IF c \in useFastIvars /\ k \in Ivars(c) THEN given[k] ELSE Nil
        /\ dict'[o][k] = IF c \in useFastIvars THEN Nil ELSE given[k]
  <2>1. CASE c \in useFastIvars
    <3>1. ivar' = [ivar EXCEPT ![o] = [k \in Prop |->
                     IF k \in Ivars(c) THEN given[k] ELSE Nil]] /\ dict' = dict
      BY <1>4, <2>1
    <3>2. ivar'[o] = [k \in Prop |-> IF k \in Ivars(c) THEN given[k] ELSE Nil]
      BY <1>6, <3>1
    <3>. QED BY <1>6, <2>1, <3>1, <3>2
  <2>2. CASE c \notin useFastIvars
    BY <1>4, <1>6, <2>2
  <2>. QED BY <2>1, <2>2
<1>9. /\ \A b, k : /\ Understands(b, k)' <=> Understands(b, k)
                   /\ Owner(b, k)' = Owner(b, k)
                   /\ DefaultOf(b, k)' = DefaultOf(b, k)
      /\ useFastIvars' = useFastIvars /\ has' = has /\ default' = default
      /\ chain' = chain /\ allocator' = allocator
  BY <1>1, NamesStay DEF creationVars, hierarchyVars
<1>10. Live' = Live \cup {o} /\ o \in Live'
  BY <1>1, <1>2 DEF Live
<1>11. StoreInv'
  <2>1. ASSUME NEW q \in Live', NEW k \in Prop, dict'[q][k] # Nil
        PROVE  Understands(classOf[q], k)'
    <3>1. CASE q = o
      <4>1. given[k] # Nil
        BY <1>8, <2>1, <3>1
      <4>2. k \in Declared(c)
        BY <1>5, <4>1 DEF FilledIn
      <4>. QED BY <1>1, <1>2, <1>9, <3>1, <4>2, OwnName
    <3>2. CASE q # o
      BY <1>2, <1>7, <1>9, <1>10, <2>1, <3>2 DEF Kept, Live, StoreInv
    <3>. QED BY <3>1, <3>2
  <2>2. \A q \in Obj \ Live', k \in Prop : ivar'[q][k] = Nil
    BY <1>7, <1>10 DEF Kept, StoreInv
  <2>3. Allocated'
    BY <1>2, <1>3, <1>9, <1>10 DEF Allocated, StoreInv, GetsDefaults, Live
  <2>. QED BY <2>1, <2>2, <2>3 DEF Kept, StoreInv
<1>12. /\ \A q \in Obj, k \in Prop : slot[q][k] = Held(q, k)
       /\ \A q \in Obj, k \in Prop : slot'[q][k] = Held(q, k)'
  <2>1. (StoreInv => SlotsAreHeld)'
    BY SlotIsHeld, PTL
  <2>. QED BY <1>11, <2>1, SlotIsHeld DEF SlotsAreHeld
<1>13. /\ slot \in [Obj -> [Prop -> Value \cup {Nil}]]
       /\ slot' \in [Obj -> [Prop -> Value \cup {Nil}]]
  <2>1. (StoreInv => slot \in [Obj -> [Prop -> Value \cup {Nil}]])'
    BY StoreTypes, PTL
  <2>. QED BY <1>11, <2>1, StoreTypes
<1>14. \A q \in Obj \ {o}, k \in Prop : slot'[q][k] = slot[q][k]
  <2>1. \A q \in Obj \ {o}, k \in Prop : Held(q, k)' = Held(q, k)
    BY <1>2, <1>7, <1>9, <1>10 DEF Held, FromStored
  <2>. QED BY <1>12, <2>1
<1>15. ASSUME NEW k \in Prop
       PROVE  Held(o, k)' = IF k \in has[c] THEN default[c][k] ELSE Nil
  <2>1. CASE ~Understands(c, k)
    BY <1>2, <1>9, <2>1 DEF Held, has
  <2>2. CASE Understands(c, k)
    <3>1. k \in has[c] /\ default[c][k] = DefaultOf(c, k)
      BY <2>2 DEF has, default
    <3>2. Held(o, k)' = IF Owner(c, k) \in useFastIvars THEN ivar'[o][k]
                        ELSE IF dict'[o][k] = Nil THEN DefaultOf(c, k)
                        ELSE FromStored(dict'[o][k])
      BY <1>2, <1>9, <1>10, <2>2 DEF Held, FromStored
    <3>3. ASSUME k \in Declared(c)
          PROVE  Owner(c, k) = c /\ given[k] = DefaultOf(c, k)
      <4>1. Owner(c, k) = c /\ DefaultOf(c, k) = FromStored(properties[c][k])
        BY <1>1, <3>3, OwnName DEF DefaultOf
      <4>2. given[k] = IF properties[c][k] # NSNull THEN properties[c][k] ELSE Nil
        BY <1>5, <3>3 DEF FilledIn
      <4>. QED BY <4>1, <4>2 DEF FromStored
    <3>4. k \notin Declared(c) => given[k] = Nil
      BY <1>5 DEF FilledIn
    <3>5. CASE Owner(c, k) \in useFastIvars /\ Owner(c, k) = c
      <4>1. Owner(c, k) \in Declarers(c, k)
        BY <1>1, <2>2, GetterServed
      <4>2. k \in Declared(c) /\ k \in Ivars(c)
        BY <3>5, <4>1 DEF Declarers, Ivars
      <4>3. ivar'[o][k] = given[k]
        BY <1>8, <3>5, <4>2
      <4>. QED BY <3>1, <3>2, <3>3, <3>5, <4>2, <4>3
    <3>6. CASE Owner(c, k) \in useFastIvars /\ Owner(c, k) # c
      <4>1. DefaultOf(c, k) = Nil
        BY <1>3, <2>2, <3>6 DEF GetsDefaults
      <4>2. given[k] = Nil
        BY <3>3, <3>4, <3>6
      <4>3. ivar'[o][k] = Nil
        BY <1>8, <4>2
      <4>. QED BY <3>1, <3>2, <3>6, <4>1, <4>3
    <3>7. CASE Owner(c, k) \notin useFastIvars
      <4>1. dict'[o][k] # Nil => FromStored(dict'[o][k]) = DefaultOf(c, k)
        <5>. SUFFICES ASSUME dict'[o][k] # Nil
                      PROVE  FromStored(dict'[o][k]) = DefaultOf(c, k)
          OBVIOUS
        <5>1. dict'[o][k] = given[k] /\ k \in Declared(c)
          BY <1>8, <3>4
        <5>2. given[k] \in Value \cup {Nil}
          BY <1>4
        <5>. QED BY <3>3, <5>1, <5>2, CreationAssumption DEF FromStored
      <4>. QED BY <3>1, <3>2, <3>7, <4>1
    <3>. QED BY <3>5, <3>6, <3>7
  <2>. QED BY <2>1, <2>2
<1>16. slot' = [slot EXCEPT ![o] = [p \in Prop |->
                  IF p \in has[c] THEN default[c][p] ELSE Nil]]
  <2>. DEFINE f == slot
              g == slot'
              new(k) == IF k \in has[c] THEN default[c][k] ELSE Nil
  <2>1. /\ f \in [Obj -> [Prop -> Value \cup {Nil}]]
        /\ g \in [Obj -> [Prop -> Value \cup {Nil}]]
        /\ \A q \in Obj \ {o} : \A k \in Prop : g[q][k] = f[q][k]
        /\ \A k \in Prop : g[o][k] = new(k)
    BY <1>12, <1>13, <1>14, <1>15
  <2>. HIDE DEF f, g, new
  <2>2. g[o] = [k \in Prop |-> new(k)] /\ \A q \in Obj \ {o} : g[q] = f[q]
    BY <2>1
  <2>3. g = [f EXCEPT ![o] = [k \in Prop |-> new(k)]]
    BY <2>1, <2>2
  <2>. QED BY <2>3 DEF f, g, new
<1>17. Store!New(o, c)
  BY <1>1, <1>9, <1>16, StoreActions
<1>. QED BY <1>11, <1>17

\* The store starts without objects.
LEMMA StoreBegins == InstanceInit => Store!StoreInit /\ StoreInv
<1>. SUFFICES ASSUME InstanceInit PROVE Store!StoreInit /\ StoreInv
  OBVIOUS
<1>1. Live = {} /\ InstanceInv
  BY InstancesBegin DEF InstanceInit, Live
<1>2. StoreInv
  BY <1>1 DEF StoreInv, Kept, Allocated, InstanceInit
<1>3. /\ slot = [o \in Obj |-> [p \in Prop |-> Nil]]
      /\ has \in [Class -> SUBSET Prop]
      /\ default \in [Class -> [Prop -> Value \cup {Nil}]]
  BY <1>1, <1>2, StoreTypes DEF slot
<1>4. /\ classOf = [o \in Obj |-> Nil]
      /\ answer = [to |-> Nil, name |-> Nil, value |-> Nil]
  BY DEF InstanceInit
<1>5. Store!StoreInit
  BY <1>3, <1>4 DEF Store!StoreInit, Store!Result, has, default, slot
<1>. QED BY <1>2, <1>5

\* Every step of a careful script maps to one of the store's, or to a stutter.
LEMMA StepMaps ==
  ASSUME NoVariants, StoreInv, [InstanceNext /\ Careful]_instanceVars
  PROVE  [Store!StoreNext]_(Store!storeVars) /\ StoreInv'
<1>1. InstanceInv'
  BY InstancesKeep DEF StoreInv
<1>2. CASE CreationNext /\ UNCHANGED objectVars /\ Careful
  BY <1>1, <1>2, ClassStepMaps DEF Store!StoreNext
<1>3. ASSUME NEW o \in Obj, NEW c \in Class, Alloc(o, c), Careful
      PROVE  Store!StoreNext /\ StoreInv'
  BY <1>1, <1>3, AllocMaps DEF Store!StoreNext
<1>4. ASSUME NEW o \in Live, NEW p \in Prop, GetFast(o, p) \/ GetFromDict(o, p)
      PROVE  Store!StoreNext /\ StoreInv'
  <2>1. o \in Obj
    BY DEF Live
  <2>. QED BY <1>1, <1>4, <2>1, ReadMaps DEF Store!StoreNext
<1>5. ASSUME NEW o \in Live, NEW p \in Prop, NEW v \in Value \cup {Nil},
             SetFast(o, p, v) \/ SetInDict(o, p, v)
      PROVE  Store!StoreNext /\ StoreInv'
  <2>1. o \in Obj
    BY DEF Live
  <2>. QED BY <1>1, <1>5, <2>1, WriteMaps DEF Store!StoreNext, Store!Result
<1>6. CASE UNCHANGED instanceVars
  <2>1. UNCHANGED creationVars /\ UNCHANGED <<classOf, hasDict, dict, ivar, answer>>
        /\ UNCHANGED <<chain, allocator>>
    BY <1>6 DEF instanceVars, objectVars, creationVars, hierarchyVars
  <2>2. /\ \A b, k : /\ Understands(b, k)' <=> Understands(b, k)
                     /\ Owner(b, k)' = Owner(b, k)
                     /\ DefaultOf(b, k)' = DefaultOf(b, k)
        /\ useFastIvars' = useFastIvars /\ has' = has /\ default' = default
    BY <2>1, NamesStay
  <2>3. Live' = Live
    BY <2>1 DEF Live
  <2>4. StoreInv'
    BY <1>1, <2>1, <2>2, <2>3 DEF StoreInv, Kept, Allocated, Live
  <2>5. slot' = slot
    <3>1. (StoreInv => SlotsAreHeld)'
      BY SlotIsHeld, PTL
    <3>2. \A q \in Obj, k \in Prop : Held(q, k)' = Held(q, k)
      BY <2>1, <2>2, <2>3 DEF Held, FromStored
    <3>3. \A q \in Obj, k \in Prop : slot'[q][k] = slot[q][k]
      BY <2>4, <3>1, <3>2, SlotIsHeld DEF SlotsAreHeld
    <3>. QED BY <3>3 DEF slot
  <2>6. UNCHANGED Store!storeVars
    BY <2>1, <2>2, <2>5 DEF Store!storeVars, has, default, slot
  <2>. QED BY <2>4, <2>6
<1>. QED BY <1>2, <1>3, <1>4, <1>5, <1>6 DEF InstanceNext, ObjectNext

\* For careful scripts, and where no two names share a setter, objects are
\* what the documentation says: a new one has the defaults of its class, no
\* class operation changes an existing one, a read answers what was written.
\* This holds for any classes, objects, names and values.
THEOREM ObjectsImplementTheStore ==
  ASSUME NoVariants
  PROVE  CarefulSpec => ImplementsStore
<1>1. InstanceInit => Store!StoreInit /\ StoreInv
  BY StoreBegins
<1>2. StoreInv /\ [InstanceNext /\ Careful]_instanceVars
        => [Store!StoreNext]_(Store!storeVars) /\ StoreInv'
  BY NoVariants, StepMaps
<1>. QED
  BY <1>1, <1>2, PTL DEF CarefulSpec, ImplementsStore, Store!StoreSpec
=============================================================================
