------------------------- MODULE FSClassSuperProofs -------------------------
(***************************************************************************)
(* Proofs about FSClassMethods and FSClassSuper.  The messages of the first *)
(* change of the classes at most the proxies, so that the invariant of class*)
(* creation carries over; with it a class once registered stays registered, *)
(* which is what RecordsAgree needs to be inductive.  What a class answers  *)
(* hangs on its chain, on the nearest class that has a block or an accessor,*)
(* and on compiled functions being those of compiled classes.               *)
(***************************************************************************)
EXTENDS FSClassSuper, FSClassInstancesProofs

MethodsInv == CreationInv /\ MethodsTypeOK /\ RecordsAgree

-----------------------------------------------------------------------------
(* The classes                                                             *)

\* A message sent to a class leaves the invariant of creation as it was.
LEMMA ProxyKeepsCreation ==
  ASSUME CreationInv, NEW c \in Runtime, ShadowForClass(c),
         UNCHANGED <<hierarchyVars, properties, classCounter, outcome>>
  PROVE  CreationInv' /\ Registered \subseteq Registered'
<1>1. c \in Class
  BY DEF Runtime
<1>2. CreationTypeOK'
  BY <1>1, ShadowType, QuietType DEF CreationInv, CreationTypeOK
<1>3. Registered \subseteq Registered'
  BY <1>1 DEF ShadowForClass, Registered, CreationInv, CreationTypeOK
<1>. QED BY <1>2, <1>3, ShadowHierarchy DEF CreationInv

\* Nor does any other step, and no class loses its FSClass.
LEMMA StepKeepsCreation ==
  ASSUME CreationInv, [MethodsNext]_methodsVars
  PROVE  CreationInv' /\ Registered \subseteq Registered'
<1>1. CASE UNCHANGED creationVars \/ CreationNext
  <2>1. [CreationNext]_creationVars
    BY <1>1
  <2>. QED BY <2>1, StepHierarchy, StepIsStable
<1>2. ASSUME NEW side \in Side, NEW c \in Class, NEW s \in Sel,
             Send(side, c, s) \/ \E b \in Block \cup {Nil} : OnMessage(side, c, s, b)
      PROVE  CreationInv' /\ Registered \subseteq Registered'
  BY <1>2, ProxyKeepsCreation DEF Send, OnMessage
<1>3. ASSUME NEW c \in Class, NEW p \in Prop, NEW v \in Value \cup {Nil},
             AddClassProperty(c, p, v)
      PROVE  CreationInv' /\ Registered \subseteq Registered'
  BY <1>3, ProxyKeepsCreation DEF AddClassProperty
<1>4. ASSUME NEW c \in Class, NEW p \in Prop, NEW v \in Value \cup {Nil},
             SetClassProperty(c, p, v)
      PROVE  UNCHANGED creationVars
  BY <1>4 DEF SetClassProperty
<1>5. CASE UNCHANGED methodsVars
  BY <1>5, <1>1 DEF methodsVars
<1>. QED
  BY <1>1, <1>2, <1>3, <1>4, <1>5 DEF MethodsNext, CreationStep

-----------------------------------------------------------------------------
(* The two records of methods                                              *)

\* What _installMethod does to a row of the runtime's table: each entry stays
\* or becomes the new function, and one that is replaced had a block, or there
\* was none.
LEMMA InstalledRow ==
  ASSUME MethodsTypeOK, NEW side \in Side, NEW c \in Class,
         NEW sels, NEW i \in (Native \cup Block) \ {"none"}
  PROVE  /\ Installed(side, c, sels, i) \in [Sel -> Native \cup Block]
         /\ \A s \in Sel :
              \/ Installed(side, c, sels, i)[s] = imp[side][c][s]
              \/ Installed(side, c, sels, i)[s] = i /\ s \in sels
         /\ \A s \in Sel \cap sels : Installed(side, c, sels, i)[s] # "none"
         /\ \A s \in Sel \cap sels :
              methods[side][c][s] # Nil => Installed(side, c, sels, i)[s] = i
BY DEF Installed, MethodsTypeOK

\* Accessors are put into a row without disturbing the agreement.
LEMMA AccessorRows ==
  ASSUME MethodsInv, MethodsTypeOK', Registered \subseteq Registered', UNCHANGED methods,
         \A side \in Side, c \in Class, s \in Sel :
           imp'[side][c][s] \in {imp[side][c][s], "accessor"}
  PROVE  RecordsAgree'
<1>1. "accessor" \notin Block /\ "accessor" # "none" /\ "accessor" # "lookup"
  BY MethodsAssumption DEF Native
<1>. QED BY <1>1 DEF MethodsInv, RecordsAgree

\* Initially there are compiled methods and no blocks.
LEMMA MethodsInitOK == MethodsInit => MethodsInv
<1>. SUFFICES ASSUME MethodsInit PROVE MethodsInv
  OBVIOUS
<1>1. CreationInv
  BY InitHierarchy DEF MethodsInit
<1>2. MethodsTypeOK
  BY CreationAssumption DEF MethodsInit, MethodsTypeOK, Native, NoEntries, Stored
<1>3. \A side \in Side, c \in Class, s \in Sel :
        imp[side][c][s] \in {"compiled", "none"} /\ methods[side][c][s] = Nil
  BY DEF MethodsInit
<1>4. "compiled" \notin Block /\ "none" \notin Block
  BY MethodsAssumption DEF Native
<1>. QED BY <1>1, <1>2, <1>3, <1>4 DEF MethodsInv, RecordsAgree

\* Giving a block to a class.
LEMMA OnMessageOK ==
  ASSUME MethodsInv, CreationInv', Registered \subseteq Registered',
         NEW side \in Side, NEW c \in Class, NEW s \in Sel, NEW b \in Block \cup {Nil},
         OnMessage(side, c, s, b)
  PROVE  MethodsTypeOK' /\ RecordsAgree'
<1>. USE DEF MethodsInv
<1>. DEFINE i == IF s \in Long THEN "lookup" ELSE b
            row == Installed(side, c, {s}, i)
<1>1. CASE UNCHANGED <<imp, methods>>
  BY <1>1 DEF OnMessage, MethodsTypeOK, RecordsAgree
<1>2. CASE /\ b # Nil
           /\ imp' = [imp EXCEPT ![side][c] = row]
           /\ methods' = [methods EXCEPT ![side][c][s] = b]
  <2>1. b \in Block /\ b \notin Native /\ i \in (Native \cup Block) \ {"none"}
    BY <1>2, MethodsAssumption DEF Native
  <2>2. /\ row \in [Sel -> Native \cup Block]
        /\ \A t \in Sel \ {s} : row[t] = imp[side][c][t]
        /\ row[s] # "none"
        /\ methods[side][c][s] # Nil => row[s] = i
        /\ row[s] \in {imp[side][c][s], i}
    BY <2>1, InstalledRow
  <2>3. MethodsTypeOK'
    BY <1>2, <2>1, <2>2 DEF OnMessage, MethodsTypeOK
  <2>4. /\ imp'[side][c] = row /\ methods'[side][c][s] = b
        /\ \A t \in Sel \ {s} : methods'[side][c][t] = methods[side][c][t]
        /\ \A z \in Side, a \in Class : (z # side \/ a # c) =>
             imp'[z][a] = imp[z][a] /\ methods'[z][a] = methods[z][a]
    <3>1. /\ imp \in [Side -> [Class -> [Sel -> Native \cup Block]]]
          /\ methods \in [Side -> [Class -> [Sel -> Block \cup {Nil}]]]
      BY DEF MethodsTypeOK
    <3>. HIDE DEF row
    <3>2. /\ imp'[side][c] = row
          /\ \A z \in Side, a \in Class : (z # side \/ a # c) => imp'[z][a] = imp[z][a]
      BY <1>2, <3>1
    <3>3. /\ methods'[side][c] = [methods[side][c] EXCEPT ![s] = b]
          /\ \A z \in Side, a \in Class :
                (z # side \/ a # c) => methods'[z][a] = methods[z][a]
      <4>1. methods' = [methods EXCEPT ![side] = [methods[side] EXCEPT ![c] =
                          [methods[side][c] EXCEPT ![s] = b]]]
        BY <1>2
      <4>2. methods'[side] = [methods[side] EXCEPT ![c] = [methods[side][c] EXCEPT ![s] = b]]
            /\ \A z \in Side \ {side} : methods'[z] = methods[z]
        BY <3>1, <4>1
      <4>3. methods[side] \in [Class -> [Sel -> Block \cup {Nil}]]
        BY <3>1
      <4>. QED BY <4>2, <4>3
    <3>. QED BY <3>1, <3>2, <3>3
  <2>5. c \in Registered'
    BY DEF OnMessage, ShadowForClass, Registered, CreationInv, CreationTypeOK
  <2>6. ASSUME NEW z \in Side, NEW a \in Class, NEW t \in Sel
        PROVE  /\ methods'[z][a][t] # Nil => a \in Registered' /\ imp'[z][a][t] # "none"
               /\ imp'[z][a][t] = "lookup" => methods'[z][a][t] # Nil
               /\ imp'[z][a][t] \in Block => methods'[z][a][t] = imp'[z][a][t]
    <3>1. CASE z # side \/ a # c \/ t # s
      <4>1. imp'[z][a][t] = imp[z][a][t] /\ methods'[z][a][t] = methods[z][a][t]
        <5>1. CASE z # side \/ a # c
          BY ONLY <5>1, <2>4, z \in Side, a \in Class
        <5>2. CASE z = side /\ a = c
          BY ONLY <3>1, <5>2, <2>2, <2>4, t \in Sel
        <5>. QED BY <5>1, <5>2
      <4>. QED BY <4>1 DEF RecordsAgree
    <3>2. CASE z = side /\ a = c /\ t = s
      <4>1. imp'[z][a][t] = row[s] /\ methods'[z][a][t] = b
        BY <3>2, <2>4
      <4>2. row[s] \in Block => row[s] = b
        <5>1. CASE row[s] = i
          BY <5>1, MethodsAssumption DEF Native
        <5>2. CASE row[s] # i
          BY <5>2, <2>2, MethodsAssumption DEF RecordsAgree
        <5>. QED BY <5>1, <5>2
      <4>. QED BY <1>2, <2>2, <2>5, <3>2, <4>1, <4>2
    <3>. QED BY <3>1, <3>2
  <2>7. RecordsAgree'
    BY <2>6 DEF RecordsAgree
  <2>. QED BY <2>3, <2>7
<1>. QED BY <1>1, <1>2 DEF OnMessage

\* Giving accessors to classes, for properties or for class properties.
LEMMA CreationStepOK ==
  ASSUME MethodsInv, Registered \subseteq Registered', CreationStep
  PROVE  MethodsTypeOK' /\ RecordsAgree'
<1>. DEFINE new(c) == UNION {Accessors(p) : p \in Declared(c)' \ Declared(c)}
            row(c) == Installed("instance", c, new(c), "accessor")
<1>1. "instance" \in Side /\ "accessor" \in (Native \cup Block) \ {"none"}
  BY DEF Side, Native
<1>2. \A c \in Class : /\ row(c) \in [Sel -> Native \cup Block]
                       /\ \A s \in Sel : row(c)[s] \in {imp["instance"][c][s], "accessor"}
  BY <1>1, InstalledRow DEF MethodsInv
<1>3. imp' = [imp EXCEPT !["instance"] = [c \in Class |-> row(c)]]
      /\ UNCHANGED <<methods, classProperties>>
  BY DEF CreationStep
<1>. HIDE DEF new, row
<1>4. MethodsTypeOK'
  BY <1>1, <1>2, <1>3 DEF MethodsTypeOK, MethodsInv
<1>5. \A side \in Side, c \in Class, s \in Sel :
        imp'[side][c][s] \in {imp[side][c][s], "accessor"}
  BY <1>1, <1>2, <1>3 DEF MethodsTypeOK, MethodsInv
<1>. QED BY <1>3, <1>4, <1>5, AccessorRows

LEMMA AddClassPropertyOK ==
  ASSUME MethodsInv, Registered \subseteq Registered',
         NEW c \in Class, NEW p \in Prop, NEW v \in Value \cup {Nil},
         AddClassProperty(c, p, v)
  PROVE  MethodsTypeOK' /\ RecordsAgree'
<1>. DEFINE row == Installed("class", c, Accessors(p), "accessor")
<1>1. "class" \in Side /\ "accessor" \in (Native \cup Block) \ {"none"}
      /\ ToStored(v) \in Stored
  BY DEF Side, Native, ToStored, Stored
<1>2. CASE UNCHANGED <<classProperties, imp>>
  BY <1>2 DEF AddClassProperty, MethodsInv, MethodsTypeOK, RecordsAgree
<1>3. CASE /\ classProperties' = [classProperties EXCEPT ![c][p] = ToStored(v)]
           /\ imp' = [imp EXCEPT !["class"][c] = row]
  <2>1. /\ row \in [Sel -> Native \cup Block]
        /\ \A s \in Sel : row[s] \in {imp["class"][c][s], "accessor"}
    BY <1>1, InstalledRow DEF MethodsInv
  <2>2. UNCHANGED methods
    BY DEF AddClassProperty
  <2>. HIDE DEF row
  <2>3. MethodsTypeOK'
    BY <1>1, <1>3, <2>1, <2>2 DEF MethodsTypeOK, MethodsInv
  <2>4. \A side \in Side, a \in Class, s \in Sel :
          imp'[side][a][s] \in {imp[side][a][s], "accessor"}
    BY <1>1, <1>3, <2>1 DEF MethodsTypeOK, MethodsInv
  <2>. QED BY <2>2, <2>3, <2>4, AccessorRows
<1>. QED BY <1>2, <1>3 DEF AddClassProperty

LEMMA SetClassPropertyOK ==
  ASSUME MethodsInv, Registered \subseteq Registered',
         NEW c \in Class, NEW p \in Prop, NEW v \in Value \cup {Nil},
         SetClassProperty(c, p, v)
  PROVE  MethodsTypeOK' /\ RecordsAgree'
<1>1. ToStored(v) \in Stored
  BY DEF ToStored, Stored
<1>2. classProperties' \in [Class -> [Prop -> Stored \cup {Nil}]]
  BY <1>1 DEF SetClassProperty, MethodsInv, MethodsTypeOK
<1>. QED BY <1>2 DEF SetClassProperty, MethodsInv, MethodsTypeOK, RecordsAgree

\* The invariant is inductive.
LEMMA MethodsStepOK ==
  ASSUME MethodsInv, [MethodsNext]_methodsVars
  PROVE  MethodsInv'
<1>1. CreationInv' /\ Registered \subseteq Registered'
  BY StepKeepsCreation DEF MethodsInv
<1>2. CASE CreationStep
  BY <1>1, <1>2, CreationStepOK DEF MethodsInv
<1>3. ASSUME NEW side \in Side, NEW c \in Class, NEW s \in Sel, Send(side, c, s)
      PROVE  MethodsTypeOK' /\ RecordsAgree'
  BY <1>1, <1>3 DEF Send, messageVars, MethodsInv, MethodsTypeOK, RecordsAgree
<1>4. CASE UNCHANGED methodsVars
  BY <1>1, <1>4 DEF methodsVars, messageVars, MethodsInv, MethodsTypeOK, RecordsAgree
<1>. QED
  BY <1>1, <1>2, <1>3, <1>4, OnMessageOK, AddClassPropertyOK, SetClassPropertyOK
     DEF MethodsNext, MethodsInv

LEMMA MethodsInvariant == MethodsSpec => []MethodsInv
BY MethodsInitOK, MethodsStepOK, PTL DEF MethodsSpec

-----------------------------------------------------------------------------
(* The chains                                                              *)

\* Only selectors of many arguments are looked up.
LookupIsLong ==
  \A side \in Side, c \in Class, s \in Sel : imp[side][c][s] = "lookup" => s \in Long

ChainsInv == MethodsInv /\ Acyclic /\ HasNearest /\ LookupIsLong

\* Compiled classes have such chains.
LEMMA ChainsInit == MethodsInit => ChainsInv
<1>. SUFFICES ASSUME MethodsInit PROVE ChainsInv
  OBVIOUS
<1>1. MethodsInv
  BY MethodsInitOK
<1>2. Acyclic /\ HasNearest
  BY ChainsBegin DEF MethodsInit
<1>3. LookupIsLong
  BY DEF MethodsInit, LookupIsLong
<1>. QED BY <1>1, <1>2, <1>3 DEF ChainsInv

\* A step leaves the chains of the classes there are alone; a class it makes
\* is in no other chain.
LEMMA StepKeepsChains ==
  ASSUME CreationInv, [MethodsNext]_methodsVars
  PROVE  AddsChains
<1>1. CASE UNCHANGED hierarchyVars
  BY <1>1 DEF hierarchyVars, Runtime, AddsChains
<1>2. CASE [CreationNext]_creationVars
  BY <1>2, CreationAddsChains
<1>3. CASE \E side \in Side, c \in Class, s \in Sel :
             Send(side, c, s) \/ \E b \in Block \cup {Nil} : OnMessage(side, c, s, b)
  BY <1>1, <1>3 DEF Send, OnMessage
<1>4. CASE \E c \in Class, p \in Prop, v \in Value \cup {Nil} :
             AddClassProperty(c, p, v) \/ SetClassProperty(c, p, v)
  BY <1>1, <1>4 DEF AddClassProperty, SetClassProperty, creationVars
<1>5. CASE UNCHANGED methodsVars
  BY <1>1, <1>5 DEF methodsVars, creationVars
<1>. QED BY <1>2, <1>3, <1>4, <1>5 DEF MethodsNext, CreationStep

\* Installing accessors or a block looks up long selectors only.
LEMMA StepLooksUpLong ==
  ASSUME MethodsInv, LookupIsLong, [MethodsNext]_methodsVars
  PROVE  LookupIsLong'
<1>. USE DEF LookupIsLong
<1>1. CASE UNCHANGED imp
  BY <1>1
<1>2. CASE CreationStep
  <2>. DEFINE row(c) == Installed("instance", c,
                          UNION {Accessors(p) : p \in Declared(c)' \ Declared(c)},
                          "accessor")
  <2>1. imp' = [imp EXCEPT !["instance"] = [c \in Class |-> row(c)]]
    BY <1>2 DEF CreationStep
  <2>2. \A c \in Class, s \in Sel : row(c)[s] \in {imp["instance"][c][s], "accessor"}
    BY DEF Installed
  <2>. HIDE DEF row
  <2>. QED BY <2>1, <2>2 DEF MethodsInv, MethodsTypeOK
<1>3. ASSUME NEW side \in Side, NEW c \in Class, NEW t \in Sel, NEW b \in Block \cup {Nil},
             OnMessage(side, c, t, b)
      PROVE  LookupIsLong'
  <2>. DEFINE i == IF t \in Long THEN "lookup" ELSE b
              row == Installed(side, c, {t}, i)
  <2>1. CASE b # Nil /\ imp' = [imp EXCEPT ![side][c] = row]
    <3>1. \A s \in Sel : row[s] = imp[side][c][s] \/ (s = t /\ row[s] = i)
      BY DEF Installed
    <3>2. b # "lookup"
      BY <2>1, MethodsAssumption DEF Native
    <3>3. \A s \in Sel : row[s] = "lookup" => s \in Long
      BY <3>1, <3>2
    <3>. HIDE DEF row
    <3>. QED BY <2>1, <3>3 DEF MethodsInv, MethodsTypeOK
  <2>. QED BY <1>1, <1>3, <2>1 DEF OnMessage
<1>4. ASSUME NEW c \in Class, NEW p \in Prop, NEW v \in Value \cup {Nil},
             AddClassProperty(c, p, v)
      PROVE  LookupIsLong'
  <2>. DEFINE row == Installed("class", c, Accessors(p), "accessor")
  <2>1. CASE imp' = [imp EXCEPT !["class"][c] = row]
    <3>1. \A s \in Sel : row[s] \in {imp["class"][c][s], "accessor"}
      BY DEF Installed
    <3>. HIDE DEF row
    <3>. QED BY <2>1, <3>1 DEF MethodsInv, MethodsTypeOK
  <2>. QED BY <1>1, <1>4, <2>1 DEF AddClassProperty
<1>5. CASE \/ UNCHANGED methodsVars
           \/ \E side \in Side, c \in Class, s \in Sel : Send(side, c, s)
           \/ \E c \in Class, p \in Prop, v \in Value \cup {Nil} : SetClassProperty(c, p, v)
  BY <1>1, <1>5 DEF methodsVars, messageVars, Send, SetClassProperty
<1>. QED BY <1>2, <1>3, <1>4, <1>5 DEF MethodsNext

\* Every step of the classes and their methods keeps the chains as they should be.
LEMMA ChainsStep ==
  ASSUME ChainsInv, [MethodsNext]_methodsVars
  PROVE  ChainsInv'
<1>. USE DEF ChainsInv
<1>1. MethodsInv' /\ LookupIsLong'
  BY MethodsStepOK, StepLooksUpLong
<1>2. AddsChains
  BY StepKeepsChains DEF MethodsInv
<1>3. Acyclic' /\ HasNearest'
  BY <1>2, AddedChains DEF MethodsInv, CreationInv
<1>. QED BY <1>1, <1>3

-----------------------------------------------------------------------------
(* Dispatch                                                                *)

\* There is one nearest class: below all the others, and one of them.
LEMMA OneNearest ==
  ASSUME Acyclic, HasNearest, ChainIsLine, NEW c \in Runtime, NEW S \in SUBSET chain[c],
         NEW a \in S, S \subseteq chain[a]
  PROVE  Nearest(c, S) = a
<1>1. Nearest(c, S) \in S /\ S \subseteq chain[Nearest(c, S)]
  BY NearestIsOne
<1>2. S \subseteq Runtime
  BY DEF ChainIsLine
<1>. QED BY <1>1, <1>2 DEF Acyclic

\* The walk to the nearest class that has a class property passes those that
\* FSClass did not make: no compiled class is below a created one.
LEMMA InheritedProperties == ChainsInv => ClassPropertiesAreInherited
<1>. SUFFICES ASSUME ChainsInv, NEW c \in Registered, NEW p \in Prop,
                     {a \in chain[c] \cap Created : p \in ClassDeclared(a)} # {}
              PROVE  /\ {a \in fsChain[c] : p \in ClassDeclared(a)} # {}
                     /\ Nearest(c, {a \in fsChain[c] : p \in ClassDeclared(a)})
                        = Nearest(c, {a \in chain[c] \cap Created : p \in ClassDeclared(a)})
  BY DEF ClassPropertiesAreInherited
<1>. USE DEF ChainsInv, MethodsInv
<1>1. PICK S : S = {a \in chain[c] \cap Created : p \in ClassDeclared(a)}
  OBVIOUS
<1>2. PICK T : T = {a \in fsChain[c] : p \in ClassDeclared(a)}
  OBVIOUS
<1>3. c \in Runtime /\ fsChain[c] \subseteq chain[c] /\ chain[c] \cap Created \subseteq fsChain[c]
  BY DEF CreationInv, WalkIsComplete, Registered, Runtime
<1>4. S \in SUBSET chain[c] /\ T \in SUBSET chain[c] /\ S \subseteq T /\ S # {}
  BY <1>1, <1>2, <1>3
<1>5. PICK s \in S : Nearest(c, S) = s /\ S \subseteq chain[s]
  BY <1>3, <1>4, NearestIsOne
<1>6. PICK t \in T : Nearest(c, T) = t /\ T \subseteq chain[t]
  BY <1>3, <1>4, NearestIsOne
<1>7. t \in Runtime /\ s \in Created /\ s \in chain[t]
  BY <1>1, <1>3, <1>4, <1>5, <1>6 DEF CreationInv, ChainIsLine
<1>8. t \in Created
  <2>1. ASSUME t \in ObjCClass PROVE s \in ObjCClass
    BY <1>7, <2>1, CreationAssumption DEF CreationInv, Shape
  <2>. QED BY <1>7, <2>1 DEF Created
<1>9. t \in S
  BY <1>1, <1>2, <1>4, <1>6, <1>8
<1>10. s = t
  BY <1>5, <1>7, <1>9, <1>3 DEF Acyclic, CreationInv, ChainIsLine
<1>. QED BY <1>1, <1>2, <1>4, <1>5, <1>6, <1>10

\* Where only blocks implement a message, the classes that implement it are
\* those that have a block, and the walk along parentClass meets them all.
LEMMA InheritedBlocks == ChainsInv => BlocksAreInherited
<1>. SUFFICES ASSUME ChainsInv, NEW c \in Created, NEW s \in Sel,
                     \A a \in chain[c] : imp["instance"][a][s] \notin {"compiled", "accessor"},
                     s \in Long =>
                       chain[c] \cap ObjCClass \cap Implementors("instance", c, s) = {}
              PROVE  Runs("instance", c, s) = Promised("instance", c, s)
  BY DEF BlocksAreInherited
<1>. USE DEF ChainsInv, MethodsInv
<1>1. PICK S : S = {a \in chain[c] : methods["instance"][a][s] # Nil}
  OBVIOUS
<1>2. "instance" \in Side /\ "lookup" \notin Block /\ Nil \notin Block
  BY MethodsAssumption DEF Side, Native
<1>3. c \in Runtime /\ c \in Registered /\ chain[c] \subseteq Runtime /\ Runtime \subseteq Class
  BY DEF CreationInv, Shape, ChainIsLine, Created, Runtime
<1>4. \A a \in chain[c] : imp["instance"][a][s] \in {"none", "lookup"} \cup Block
  BY <1>2, <1>3 DEF MethodsTypeOK, Native
<1>5. Implementors("instance", c, s) = S
  <2>1. ASSUME NEW a \in chain[c]
        PROVE  imp["instance"][a][s] # "none" <=> methods["instance"][a][s] # Nil
    <3>1. a \in Class /\ imp["instance"][a][s] \in {"none", "lookup"} \cup Block
      BY <1>3, <1>4
    <3>. QED BY <1>2, <3>1 DEF RecordsAgree
  <2>. QED BY <1>1, <2>1 DEF Implementors
<1>6. CASE S = {}
  BY <1>1, <1>5, <1>6 DEF Runs, Promised
<1>7. CASE S # {}
  <2>1. PICK k \in S : k = Nearest(c, S)
    BY <1>1, <1>3, <1>7, NearestIsOne
  <2>2. /\ Found("instance", c, s) = imp["instance"][k][s]
        /\ Promised("instance", c, s) = methods["instance"][k][s]
    BY <1>1, <1>5, <1>7, <2>1 DEF Found, Promised
  <2>3. k \in Class /\ k \in chain[c] /\ imp["instance"][k][s] \in {"lookup"} \cup Block
    BY <1>1, <1>3, <1>4, <1>5, <2>1 DEF Implementors
  <2>4. CASE imp["instance"][k][s] # "lookup"
    <3>1. methods["instance"][k][s] = imp["instance"][k][s]
      BY <1>2, <2>3, <2>4 DEF RecordsAgree
    <3>. QED BY <1>5, <1>7, <2>2, <2>4, <3>1 DEF Runs
  <2>5. CASE imp["instance"][k][s] = "lookup"
    <3>1. s \in Long
      BY <1>2, <2>3, <2>5 DEF LookupIsLong
    <3>2. S \subseteq Created
      BY <1>1, <1>3, <1>5, <3>1 DEF Created
    <3>3. S = {a \in fsChain[c] : methods["instance"][a][s] # Nil}
      BY <1>1, <1>3, <3>2 DEF CreationInv, WalkIsComplete
    <3>4. BlockForSelector(c, s) = methods["instance"][k][s]
      BY <1>7, <2>1, <3>3 DEF BlockForSelector
    <3>. QED BY <1>5, <1>7, <2>2, <2>5, <3>4 DEF Runs
  <2>. QED BY <2>4, <2>5
<1>. QED BY <1>6, <1>7

\* Of a class that was there a step changes at most that it gets a proxy.
LEMMA StepKeepsParents ==
  ASSUME CreationInv, [MethodsNext]_methodsVars, NEW c \in Runtime
  PROVE  \/ fsChain'[c] = fsChain[c]
         \/ c \notin Registered /\ fsChain'[c] = {c}
<1>1. c \in Class
  BY DEF Runtime
<1>2. ASSUME NEW d \in Class, ShadowForClass(d)
      PROVE  \/ fsChain'[c] = fsChain[c]
             \/ c \notin Registered /\ fsChain'[c] = {c}
  BY <1>1, <1>2 DEF ShadowForClass, CreationInv, CreationTypeOK
<1>3. CASE [CreationNext]_creationVars
  <2>1. CASE UNCHANGED <<hierarchyVars, fsChain>>
    BY <2>1
  <2>2. ASSUME NEW n \in Class, NEW parent \in Runtime, Creates(n, parent)
        PROVE  fsChain'[c] = fsChain[c]
    BY <1>1, <2>2 DEF Creates, InitNewClass, NameIsFree, CreationInv, CreationTypeOK
  <2>. QED BY <1>2, <1>3, <2>1, <2>2, StepKinds DEF Runtime, CreationInv
<1>4. ASSUME NEW side \in Side, NEW d \in Class, NEW s \in Sel,
             Send(side, d, s) \/ \E b \in Block \cup {Nil} : OnMessage(side, d, s, b)
      PROVE  ShadowForClass(d)
  BY <1>4 DEF Send, OnMessage
<1>5. ASSUME NEW d \in Class, NEW p \in Prop, NEW v \in Value \cup {Nil},
             AddClassProperty(d, p, v)
      PROVE  ShadowForClass(d)
  BY <1>5 DEF AddClassProperty
<1>6. CASE \/ UNCHANGED methodsVars
           \/ \E d \in Class, p \in Prop, v \in Value \cup {Nil} : SetClassProperty(d, p, v)
  BY <1>6 DEF SetClassProperty, methodsVars, creationVars
<1>. QED BY <1>2, <1>3, <1>4, <1>5, <1>6 DEF MethodsNext, CreationStep

\* The nearest of some superclasses stays the nearest.
LEMMA NearestStays ==
  ASSUME ChainsInv, ChainsInv', AddsChains,
         NEW c \in Runtime, NEW S \in SUBSET chain[c], S # {}
  PROVE  Nearest(c, S)' = Nearest(c, S)
<1>1. PICK k \in S : k = Nearest(c, S) /\ S \subseteq chain[k]
  BY NearestIsOne DEF ChainsInv
<1>2. k \in Runtime /\ c \in Runtime' /\ chain'[c] = chain[c] /\ chain'[k] = chain[k]
  BY DEF ChainsInv, MethodsInv, CreationInv, ChainIsLine, AddsChains
<1>3. PICK d : d = Nearest(c, S)'
  OBVIOUS
<1>4. d = CHOOSE a \in S \cap chain'[c] : S \cap chain'[c] \subseteq chain'[a]
  BY <1>3 DEF Nearest
<1>5. d \in S /\ S \subseteq chain'[d]
  <2>1. S \cap chain'[c] = S
    BY <1>2
  <2>2. k \in S \cap chain'[c] /\ S \cap chain'[c] \subseteq chain'[k]
    BY <1>1, <1>2
  <2>. QED BY <1>4, <2>1, <2>2
<1>6. d \in Runtime /\ chain'[d] = chain[d]
  BY <1>5 DEF ChainsInv, MethodsInv, CreationInv, ChainIsLine, AddsChains
<1>. QED BY <1>1, <1>2, <1>3, <1>5, <1>6 DEF ChainsInv, Acyclic

\* The walk along parentClass finds the block it found.
LEMMA StepKeepsBlocks ==
  ASSUME ChainsInv, ChainsInv', [MethodsNext]_methodsVars, NEW c \in Runtime, NEW s \in Sel,
         \A a \in chain[c] : methods'["instance"][a][s] = methods["instance"][a][s]
  PROVE  BlockForSelector(c, s)' = BlockForSelector(c, s)
<1>. USE DEF ChainsInv, MethodsInv
<1>1. AddsChains
  BY StepKeepsChains
<1>2. PICK T : T = {a \in fsChain[c] : methods["instance"][a][s] # Nil}
  OBVIOUS
<1>3. T \in SUBSET chain[c]
  <2>1. CASE c \in Registered
    BY <1>2, <2>1 DEF CreationInv, WalkIsComplete
  <2>2. CASE c \notin Registered
    BY <1>2, <2>2 DEF CreationInv, Shape, Registered, Runtime
  <2>. QED BY <2>1, <2>2
<1>4. T = {a \in fsChain'[c] : methods'["instance"][a][s] # Nil}
  <2>1. CASE fsChain'[c] = fsChain[c]
    <3>1. fsChain[c] \subseteq chain[c]
      BY DEF CreationInv, WalkIsComplete, Shape, Registered, Runtime
    <3>. QED BY <1>2, <2>1, <3>1
  <2>2. CASE c \notin Registered /\ fsChain'[c] = {c}
    <3>1. c \in chain[c] /\ c \in Class /\ "instance" \in Side
      BY DEF Runtime, Side
    <3>2. methods["instance"][c][s] = Nil
      BY <2>2, <3>1 DEF RecordsAgree
    <3>3. fsChain[c] = {}
      BY <2>2, <3>1 DEF CreationInv, Shape, Registered
    <3>. QED BY <1>2, <2>2, <3>1, <3>2, <3>3
  <2>. QED BY <2>1, <2>2, StepKeepsParents
<1>5. CASE T = {}
  BY <1>2, <1>4, <1>5 DEF BlockForSelector
<1>6. CASE T # {}
  <2>1. PICK k \in T : k = Nearest(c, T)
    BY <1>3, <1>6, NearestIsOne
  <2>2. k = Nearest(c, T)'
    BY <1>1, <1>3, <1>6, <2>1, NearestStays
  <2>3. BlockForSelector(c, s)' = methods'["instance"][Nearest(c, T)'][s]
    BY <1>4, <1>6 DEF BlockForSelector, Nearest
  <2>4. BlockForSelector(c, s) = methods["instance"][k][s]
    BY <1>2, <1>6, <2>1 DEF BlockForSelector
  <2>. QED BY <1>3, <2>1, <2>2, <2>3, <2>4
<1>. QED BY <1>5, <1>6

\* A message is answered as before if the methods above are as before.
LEMMA StepKeepsDispatch ==
  ASSUME ChainsInv, [MethodsNext]_methodsVars,
         NEW side \in Side, NEW c \in Runtime, NEW s \in Sel,
         \A a \in chain[c] : /\ imp'[side][a][s] = imp[side][a][s]
                             /\ methods'[side][a][s] = methods[side][a][s]
  PROVE  Runs(side, c, s)' = Runs(side, c, s)
<1>1. ChainsInv' /\ AddsChains
  BY ChainsStep, StepKeepsChains DEF ChainsInv, MethodsInv
<1>2. chain'[c] = chain[c] /\ c \in chain[c] /\ c \in Class
  BY <1>1 DEF AddsChains, Runtime
<1>3. PICK S : S = Implementors(side, c, s)
  OBVIOUS
<1>4. S = Implementors(side, c, s)' /\ S \in SUBSET chain[c]
  BY <1>2, <1>3 DEF Implementors
<1>5. CASE S = {}
  BY <1>3, <1>4, <1>5 DEF Runs
<1>6. CASE S # {}
  <2>1. PICK k \in S : k = Nearest(c, S)
    BY <1>4, <1>6, NearestIsOne DEF ChainsInv
  <2>2. k = Nearest(c, S)'
    BY <1>1, <1>4, <1>6, <2>1, NearestStays
  <2>3. Found(side, c, s)' = imp'[side][Nearest(c, S)'][s]
    BY <1>4 DEF Found, Nearest
  <2>4. Found(side, c, s)' = Found(side, c, s)
    BY <1>3, <1>4, <2>1, <2>2, <2>3 DEF Found
  <2>5. BlockForClassSelector(c, s)' = BlockForClassSelector(c, s) \/ side = "instance"
    BY <1>2 DEF BlockForClassSelector, Side
  <2>6. side = "instance" => BlockForSelector(c, s)' = BlockForSelector(c, s)
    BY <1>1, StepKeepsBlocks
  <2>. QED BY <1>3, <1>4, <1>6, <2>4, <2>5, <2>6 DEF Runs
<1>. QED BY <1>5, <1>6

-----------------------------------------------------------------------------
(* Accessors                                                               *)

\* Compiled methods are those of compiled classes.
CompiledBelow ==
  \A side \in Side, c \in Class, s \in Sel :
    imp[side][c][s] = "compiled" => c \in ObjCClass

AccessorsInv == ChainsInv /\ Declaring /\ CompiledBelow /\ AccessorsInstalled

\* At first there are no properties.
LEMMA AccessorsBegin == MethodsInit => AccessorsInv
<1>. SUFFICES ASSUME MethodsInit PROVE AccessorsInv
  OBVIOUS
<1>1. ChainsInv /\ Declaring
  BY ChainsInit, ClassesBegin DEF MethodsInit, ClassesInv
<1>2. CompiledBelow
  BY DEF MethodsInit, CompiledBelow
<1>3. \A c \in Class : Declared(c) = {} /\ ClassDeclared(c) = {}
  BY DEF MethodsInit, CreationInit, Declared, ClassDeclared, NoEntries
<1>4. AccessorsInstalled
  BY <1>3 DEF AccessorsInstalled
<1>. QED BY <1>1, <1>2, <1>4 DEF AccessorsInv

\* What becomes of the methods and class properties of all classes in a step:
\* a function that is replaced is replaced by a block's or by an accessor; a
\* block is never taken away, and a compiled class declares no property.
StepOnMethods ==
  \A side \in Side, c \in Class, s \in Sel :
    /\ methods[side][c][s] # Nil => methods'[side][c][s] # Nil
    /\ \/ imp'[side][c][s] \in {imp[side][c][s], "accessor"}
       \/ methods'[side][c][s] # Nil /\ imp'[side][c][s] # "compiled"

\* No call takes a block away, or a function that a block or an accessor does
\* not replace.
LEMMA MethodsAreKept ==
  ASSUME MethodsInv, [MethodsNext]_methodsVars
  PROVE  StepOnMethods
<1>. USE DEF StepOnMethods, MethodsInv
<1>1. CASE UNCHANGED <<imp, methods>>
  BY <1>1
<1>2. CASE CreationStep
  <2>. DEFINE row(c) == Installed("instance", c,
                          UNION {Accessors(p) : p \in Declared(c)' \ Declared(c)},
                          "accessor")
  <2>1. imp' = [imp EXCEPT !["instance"] = [c \in Class |-> row(c)]] /\ UNCHANGED methods
    BY <1>2 DEF CreationStep
  <2>2. \A c \in Class, s \in Sel : row(c)[s] \in {imp["instance"][c][s], "accessor"}
    BY DEF Installed
  <2>. HIDE DEF row
  <2>. QED BY <2>1, <2>2 DEF MethodsTypeOK
<1>3. ASSUME NEW side \in Side, NEW c \in Class, NEW t \in Sel, NEW b \in Block \cup {Nil},
             OnMessage(side, c, t, b)
      PROVE  StepOnMethods
  <2>. DEFINE i == IF t \in Long THEN "lookup" ELSE b
              row == Installed(side, c, {t}, i)
  <2>1. CASE /\ b # Nil /\ imp' = [imp EXCEPT ![side][c] = row]
             /\ methods' = [methods EXCEPT ![side][c][t] = b]
    <3>1. b # "compiled" /\ i # "compiled"
      BY <2>1, MethodsAssumption DEF Native
    <3>2. \A s \in Sel : row[s] = imp[side][c][s] \/ (s = t /\ row[s] = i)
      BY DEF Installed
    <3>3. \A z \in Side, a \in Class, s \in Sel :
            methods'[z][a][s] = IF z = side /\ a = c /\ s = t THEN b ELSE methods[z][a][s]
      BY <2>1 DEF MethodsTypeOK
    <3>. HIDE DEF row, i
    <3>4. \A z \in Side, a \in Class, s \in Sel :
            imp'[z][a][s] = IF z = side /\ a = c THEN row[s] ELSE imp[z][a][s]
      BY <2>1 DEF MethodsTypeOK
    <3>. QED BY <2>1, <3>1, <3>2, <3>3, <3>4
  <2>. QED BY <1>1, <1>3, <2>1 DEF OnMessage
<1>4. ASSUME NEW c \in Class, NEW p \in Prop, NEW v \in Value \cup {Nil},
             AddClassProperty(c, p, v)
      PROVE  StepOnMethods
  <2>. DEFINE row == Installed("class", c, Accessors(p), "accessor")
  <2>1. CASE imp' = [imp EXCEPT !["class"][c] = row]
    <3>1. \A s \in Sel : row[s] \in {imp["class"][c][s], "accessor"}
      BY DEF Installed
    <3>2. UNCHANGED methods
      BY <1>4 DEF AddClassProperty
    <3>. HIDE DEF row
    <3>. QED BY <2>1, <3>1, <3>2 DEF MethodsTypeOK
  <2>. QED BY <1>1, <1>4, <2>1 DEF AddClassProperty
<1>5. CASE \/ UNCHANGED methodsVars
           \/ \E side \in Side, c \in Class, s \in Sel : Send(side, c, s)
           \/ \E c \in Class, p \in Prop, v \in Value \cup {Nil} : SetClassProperty(c, p, v)
  BY <1>1, <1>5 DEF methodsVars, messageVars, Send, SetClassProperty
<1>. QED BY <1>2, <1>3, <1>4, <1>5 DEF MethodsNext

\* Hence the accessors that were there are there, or a block is.
LEMMA OldAccessors ==
  ASSUME AccessorsInstalled, StepOnMethods,
         NEW c \in Class, NEW p \in Prop, NEW s \in Accessors(p)
  PROVE  /\ p \in Declared(c) =>
              imp'["instance"][c][s] = "accessor" \/ methods'["instance"][c][s] # Nil
         /\ p \in ClassDeclared(c) =>
              imp'["class"][c][s] \in {"accessor", "compiled"} \/ methods'["class"][c][s] # Nil
<1>1. s \in Sel /\ "instance" \in Side /\ "class" \in Side
  BY MethodsAssumption DEF Accessors, Side
<1>. QED BY <1>1 DEF AccessorsInstalled, StepOnMethods

\* Installing the accessors of new names: a function that stays although no
\* block is recorded for it is an accessor or compiled.
LEMMA NewAccessors ==
  ASSUME MethodsInv, NEW side \in Side, NEW c \in Class, NEW sels, NEW s \in Sel \cap sels
  PROVE  \/ Installed(side, c, sels, "accessor")[s] = "accessor"
         \/ imp[side][c][s] = "compiled" /\ Installed(side, c, sels, "accessor")[s] = "compiled"
<1>1. CASE imp[side][c][s] = "none" \/ methods[side][c][s] # Nil
  BY <1>1 DEF Installed
<1>2. CASE imp[side][c][s] # "none" /\ methods[side][c][s] = Nil
  <2>1. imp[side][c][s] \in {"compiled", "accessor"}
    <3>1. imp[side][c][s] \in Native \cup Block
      BY DEF MethodsInv, MethodsTypeOK
    <3>2. imp[side][c][s] \notin Block /\ imp[side][c][s] # "lookup"
      BY <1>2, MethodsAssumption DEF MethodsInv, RecordsAgree
    <3>. QED BY <1>2, <3>1, <3>2 DEF Native
  <2>2. Installed(side, c, sels, "accessor")[s] = imp[side][c][s]
    BY <1>2 DEF Installed
  <2>. QED BY <2>1, <2>2
<1>. QED BY <1>1, <1>2

\* A setter of a class property gives a value to one that is declared.
LEMMA SetterDeclaresNothing ==
  ASSUME ChainsInv, NEW d \in Class, NEW q \in Prop, NEW v \in Value \cup {Nil},
         SetClassProperty(d, q, v), NEW c \in Class
  PROVE  ClassDeclared(c)' = ClassDeclared(c)
<1>. USE DEF ChainsInv, MethodsInv
<1>0. PICK key : key = SetterKey(q)
  OBVIOUS
<1>1. PICK S : S = {a \in fsChain[d] : key \in ClassDeclared(a)}
  OBVIOUS
<1>2. CASE S = {}
  BY <1>0, <1>1, <1>2 DEF SetClassProperty, ClassDeclared
<1>3. CASE S # {}
  <2>1. d \in Runtime /\ S \in SUBSET chain[d]
    BY <1>1 DEF SetClassProperty, CreationInv, WalkIsComplete, Shape
  <2>2. PICK k \in S : k = Nearest(d, S)
    BY <1>3, <2>1, NearestIsOne
  <2>3. classProperties' = [classProperties EXCEPT ![k][key] = ToStored(v)]
    BY <1>0, <1>1, <1>3, <2>2 DEF SetClassProperty
  <2>4. k \in Class /\ classProperties[k][key] # Nil /\ ToStored(v) # Nil
    BY <1>1, <2>1, <2>2, CreationAssumption
       DEF ClassDeclared, ToStored, CreationInv, ChainIsLine, Runtime
  <2>. QED BY <2>3, <2>4 DEF ClassDeclared, MethodsTypeOK
<1>. QED BY <1>2, <1>3

\* Messages and methods change nothing that the classes declare.
LEMMA StepKeepsDeclaring ==
  ASSUME CreationInv, Declaring, [MethodsNext]_methodsVars
  PROVE  /\ Declaring'
         /\ ~CreationStep => \A c \in Class : Declared(c)' = Declared(c)
<1>1. CASE UNCHANGED <<hierarchyVars, properties>>
  BY <1>1 DEF hierarchyVars, Declaring, Declared, Created, Runtime
<1>2. CASE CreationStep
  BY <1>2, DeclaringStays DEF CreationStep
<1>3. CASE \E side \in Side, c \in Class, s \in Sel :
             Send(side, c, s) \/ \E b \in Block \cup {Nil} : OnMessage(side, c, s, b)
  BY <1>1, <1>3 DEF Send, OnMessage
<1>4. CASE \E c \in Class, p \in Prop, v \in Value \cup {Nil} :
             AddClassProperty(c, p, v) \/ SetClassProperty(c, p, v)
  BY <1>1, <1>4 DEF AddClassProperty, SetClassProperty, creationVars
<1>5. CASE UNCHANGED methodsVars
  BY <1>1, <1>5 DEF methodsVars, creationVars
<1>. QED BY <1>2, <1>3, <1>4, <1>5 DEF MethodsNext

\* The classes get the accessors of the properties they declare.
LEMMA NewProperties ==
  ASSUME AccessorsInv, Declaring', CreationStep,
         NEW c \in Class, NEW p \in Declared(c)' \ Declared(c), NEW s \in Accessors(p)
  PROVE  imp'["instance"][c][s] = "accessor" \/ methods'["instance"][c][s] # Nil
<1>. USE DEF AccessorsInv, ChainsInv, MethodsInv
<1>1. PICK sels : sels = UNION {Accessors(q) : q \in Declared(c)' \ Declared(c)}
  OBVIOUS
<1>2. s \in Sel \cap sels /\ "instance" \in Side
  <2>1. p \in Prop
    BY DEF Declared
  <2>. QED BY <1>1, <2>1, MethodsAssumption DEF Accessors, Side
<1>3. imp'["instance"][c][s] = Installed("instance", c, sels, "accessor")[s]
  BY <1>1, <1>2 DEF CreationStep, MethodsTypeOK
<1>4. c \notin ObjCClass
  BY DEF Declaring, Created
<1>. QED BY <1>2, <1>3, <1>4, NewAccessors DEF CompiledBelow

\* And so do the metaclasses for class properties.
LEMMA NewClassProperty ==
  ASSUME AccessorsInv, NEW d \in Class, NEW q \in Prop, NEW v \in Value \cup {Nil},
         AddClassProperty(d, q, v),
         NEW c \in Class, NEW p \in ClassDeclared(c)' \ ClassDeclared(c),
         NEW s \in Accessors(p)
  PROVE  imp'["class"][c][s] \in {"accessor", "compiled"} \/ methods'["class"][c][s] # Nil
<1>. USE DEF AccessorsInv, ChainsInv, MethodsInv
<1>1. CASE UNCHANGED classProperties
  BY <1>1 DEF ClassDeclared
<1>2. CASE /\ classProperties' = [classProperties EXCEPT ![d][q] = ToStored(v)]
           /\ imp' = [imp EXCEPT !["class"][d] =
                        Installed("class", d, Accessors(q), "accessor")]
  <2>1. c = d /\ p = q
    BY <1>2 DEF ClassDeclared, MethodsTypeOK
  <2>2. s \in Sel \cap Accessors(q) /\ "class" \in Side
    BY <2>1, MethodsAssumption DEF Accessors, Side
  <2>3. imp'["class"][c][s] = Installed("class", d, Accessors(q), "accessor")[s]
    BY <1>2, <2>1, <2>2 DEF MethodsTypeOK
  <2>. QED BY <2>1, <2>2, <2>3, NewAccessors
<1>. QED BY <1>1, <1>2 DEF AddClassProperty

\* The invariant is inductive.
LEMMA AccessorsStep ==
  ASSUME AccessorsInv, [MethodsNext]_methodsVars
  PROVE  AccessorsInv'
<1>. USE DEF AccessorsInv
<1>1. ChainsInv' /\ StepOnMethods /\ MethodsInv /\ CreationInv
  BY ChainsStep, MethodsAreKept DEF ChainsInv, MethodsInv
<1>2. CompiledBelow'
  BY <1>1 DEF CompiledBelow, StepOnMethods
<1>3. Declaring'
  BY <1>1, StepKeepsDeclaring
<1>4. ASSUME NEW c \in Class, NEW p \in Prop, NEW s \in Accessors(p), p \in Declared(c)'
      PROVE  imp'["instance"][c][s] = "accessor" \/ methods'["instance"][c][s] # Nil
  <2>1. CASE p \in Declared(c)
    BY <1>1, <2>1, OldAccessors
  <2>2. CASE p \notin Declared(c)
    <3>1. CreationStep
      BY <1>1, <1>4, <2>2, StepKeepsDeclaring
    <3>. QED BY <1>3, <1>4, <2>2, <3>1, NewProperties
  <2>. QED BY <2>1, <2>2
<1>5. ASSUME NEW c \in Class, NEW p \in Prop, NEW s \in Accessors(p),
             p \in ClassDeclared(c)'
      PROVE  imp'["class"][c][s] \in {"accessor", "compiled"}
               \/ methods'["class"][c][s] # Nil
  <2>1. CASE p \in ClassDeclared(c)
    BY <1>1, <2>1, OldAccessors
  <2>2. CASE p \notin ClassDeclared(c)
    <3>1. CASE UNCHANGED classProperties
      BY <1>5, <2>2, <3>1 DEF ClassDeclared
    <3>2. ASSUME NEW d \in Class, NEW q \in Prop, NEW v \in Value \cup {Nil},
                 AddClassProperty(d, q, v)
          PROVE  imp'["class"][c][s] \in {"accessor", "compiled"}
                   \/ methods'["class"][c][s] # Nil
      BY <1>5, <2>2, <3>2, NewClassProperty
    <3>3. ASSUME NEW d \in Class, NEW q \in Prop, NEW v \in Value \cup {Nil},
                 SetClassProperty(d, q, v)
          PROVE  FALSE
      BY <1>5, <2>2, <3>3, SetterDeclaresNothing
    <3>4. CASE \E side \in Side, a \in Class, t \in Sel :
                 Send(side, a, t) \/ \E b \in Block \cup {Nil} : OnMessage(side, a, t, b)
      BY <3>1, <3>4 DEF Send, OnMessage, messageVars
    <3>5. CASE UNCHANGED methodsVars \/ CreationStep
      BY <3>1, <3>5 DEF methodsVars, messageVars, CreationStep
    <3>. QED BY <3>2, <3>3, <3>4, <3>5 DEF MethodsNext
  <2>. QED BY <2>1, <2>2
<1>6. AccessorsInstalled'
  BY <1>4, <1>5 DEF AccessorsInstalled
<1>. QED BY <1>1, <1>2, <1>3, <1>6

LEMMA AccessorsInvariant == MethodsSpec => []AccessorsInv
BY AccessorsBegin, AccessorsStep, PTL DEF MethodsSpec

-----------------------------------------------------------------------------
(* The theorems                                                            *)

\* Method tables, dictionaries of blocks and class properties keep their types,
\* for any classes, selectors, blocks and properties.
THEOREM MethodsTypeCorrect == MethodsSpec => []MethodsTypeOK
BY MethodsInvariant, PTL DEF MethodsInv

\* The runtime's table and FSClass's dictionary of every class agree, so that
\* replacing a method never reaches into a superclass.
THEOREM RecordsAlwaysAgree == MethodsSpec => []RecordsAgree
BY MethodsInvariant, PTL DEF MethodsInv

\* While methods come and go the classes keep the invariants of creation.
THEOREM MethodsKeepClasses == MethodsSpec => []WalkIsComplete
BY MethodsInvariant, PTL DEF MethodsInv, CreationInv

\* Whatever fails halfway, and however a class came by its properties: a
\* property, once declared, has its accessors, or a block in their place.
THEOREM AccessorsAlwaysInstalled == MethodsSpec => []AccessorsInstalled
BY AccessorsInvariant, PTL DEF AccessorsInv

\* A class answers with the block of the nearest parent that has one, however
\* many arguments the message has and however deep the hierarchy is.
THEOREM BlocksReachSubclasses == MethodsSpec => []BlocksAreInherited
BY AccessorsInvariant, InheritedBlocks, PTL DEF AccessorsInv

\* A subclass finds the class property of the nearest parent that declared it.
THEOREM ClassPropertiesReachSubclasses == MethodsSpec => []ClassPropertiesAreInherited
BY AccessorsInvariant, InheritedProperties, PTL DEF AccessorsInv

\* What a class answers changes by a definition above it under that selector,
\* and by nothing else: no proxy, subclass or message has such an effect.
THEOREM DispatchIsDefined == MethodsSpec => OnlyDefinitionsChangeDispatch
<1>1. AccessorsInv /\ [MethodsNext]_methodsVars =>
        [\A side \in Side, c \in Runtime, s \in Sel :
           Runs(side, c, s)' # Runs(side, c, s) =>
             \E a \in chain[c] :
                imp'[side][a][s] # imp[side][a][s]
                  \/ methods'[side][a][s] # methods[side][a][s]]_methodsVars
  BY StepKeepsDispatch DEF AccessorsInv
<1>. QED BY <1>1, AccessorsInvariant, PTL DEF MethodsSpec, OnlyDefinitionsChangeDispatch

-----------------------------------------------------------------------------
(* Super.  Calls to super go up because superclass chains have no cycles and,*)
(* once made, never change, and because a selector of few arguments never has*)
(* a function that looks its block up again from the receiver.              *)

SuperInv ==
  /\ ChainsInv
  /\ frames \in Seq(Runtime)
  /\ frames # <<>> => receiver \in Created /\ message \in Sel
  /\ SuperTypeOK
  /\ SuperGoesUp

-----------------------------------------------------------------------------
(* Where a message ends up                                                 *)

\* A block that is looked up belongs to a superclass of the class asked for.
LEMMA LookedInChain ==
  ASSUME ChainsInv, NEW side \in Side, NEW c \in Registered, NEW s
  PROVE  Looked(side, c, s) \subseteq chain[c]
<1>. DEFINE S == {a \in fsChain[c] : methods[side][a][s] # Nil}
<1>1. fsChain[c] \subseteq chain[c] /\ c \in Runtime
  BY DEF ChainsInv, MethodsInv, CreationInv, WalkIsComplete, Registered, Runtime
<1>2. S \subseteq chain[c]
  BY <1>1
<1>3. S # {} => Nearest(c, S) \in S
  BY <1>1, <1>2, NearestIsOne DEF ChainsInv
<1>. QED BY <1>2, <1>3 DEF Looked

\* Dispatching starts at most one block: of a superclass of the receiver and,
\* for a selector of few arguments, of one of the classes asked or above.
LEMMA DispatchStarts ==
  ASSUME ChainsInv, NEW side \in Side, NEW c \in Created, NEW s \in Sel,
         NEW from \in SUBSET chain[c], Dispatch(side, c, s, from)
  PROVE  \/ frames' = frames /\ result' \in {"notUnderstood", "returned"}
         \/ \E k \in chain[c] :
              /\ frames' = Append(frames, k) /\ result' = "running"
              /\ s \notin Long => \E a \in from : k \in chain[a]
<1>. DEFINE S == UNION {Implementors(side, a, s) : a \in from}
            k == CHOOSE a \in S : S \subseteq chain[a]
<1>1. c \in Runtime /\ c \in Registered /\ c \in Class
  BY DEF ChainsInv, MethodsInv, CreationInv, Shape, Created, Runtime
<1>2. \A a \in chain[c] : chain[a] \subseteq chain[c]
  BY <1>1 DEF ChainsInv, MethodsInv, CreationInv, ChainIsLine
<1>3. S \subseteq chain[c] /\ \A a \in S : \E b \in from : a \in chain[b]
  BY <1>2 DEF Implementors
<1>4. S # {} => k \in S
  <2>1. S # {} => \E a \in S : S \subseteq chain[a]
    <3>1. S \subseteq chain[c]
      BY <1>3
    <3>. HIDE DEF S
    <3>. QED BY <1>1, <3>1 DEF ChainsInv, HasNearest
  <2>. QED BY <2>1
<1>5. k \in S => k \in Class
  <2>1. chain[c] \subseteq Class
    BY <1>1 DEF ChainsInv, MethodsInv, CreationInv, CreationTypeOK
  <2>. HIDE DEF k, S
  <2>. QED BY <2>1, <1>3
<1>6. CASE S = {}
  BY <1>6 DEF Dispatch
<1>7. CASE S # {} /\ imp[side][k][s] \in Block
  <2>1. frames' = Append(frames, k) /\ result' = "running"
    BY <1>7 DEF Dispatch
  <2>. QED BY <2>1, <1>3, <1>4, <1>7
<1>8. CASE S # {} /\ imp[side][k][s] \notin Block /\ imp[side][k][s] = "lookup"
           /\ Looked(side, c, s) # {}
  <2>1. \E a \in Looked(side, c, s) : frames' = Append(frames, a) /\ result' = "running"
    BY <1>8 DEF Dispatch
  <2>2. s \in Long
    BY <1>4, <1>5, <1>8 DEF ChainsInv, LookupIsLong
  <2>. QED BY <2>1, <2>2, <1>1, LookedInChain
<1>9. CASE S # {} /\ imp[side][k][s] \notin Block
           /\ ~(imp[side][k][s] = "lookup" /\ Looked(side, c, s) # {})
  BY <1>9 DEF Dispatch
<1>. QED BY <1>6, <1>7, <1>8, <1>9

\* A superclass of the superclass of a class is above that class.
LEMMA SuperclassIsAbove ==
  ASSUME ChainsInv, NEW c \in Runtime, NEW top \in chain[c]
  PROVE  /\ Superclass(top) \subseteq chain[c]
         /\ \A a \in Superclass(top) : \A k \in chain[a] : Above(top, k)
<1>1. top \in Runtime /\ chain[top] \subseteq chain[c]
  BY DEF ChainsInv, MethodsInv, CreationInv, ChainIsLine
<1>2. \A a \in chain[top] : chain[a] \subseteq chain[top]
  BY <1>1 DEF ChainsInv, MethodsInv, CreationInv, ChainIsLine
<1>3. \A a \in Superclass(top) : top \notin chain[a]
  BY <1>1 DEF Superclass, ChainsInv, Acyclic
<1>. QED BY <1>1, <1>2, <1>3 DEF Superclass, Above

-----------------------------------------------------------------------------
(* The frames                                                              *)

\* A block of a superclass of the receiver may be called, if for a selector of
\* few arguments it belongs above the class of the block that calls it.
LEMMA CallOK ==
  ASSUME SuperInv, frames # <<>>, Len(frames) < MaxDepth,
         NEW k \in chain[receiver],
         message \notin Long => Above(frames[Len(frames)], k),
         frames' = Append(frames, k), result' = "running",
         UNCHANGED <<methodsVars, receiver, level, message>>
  PROVE  SuperInv'
<1>1. receiver \in Runtime /\ chain[receiver] \subseteq Runtime
  BY DEF SuperInv, ChainsInv, MethodsInv, CreationInv, ChainIsLine, Created
<1>2. frames \in Seq(Runtime) /\ k \in Runtime
  BY <1>1 DEF SuperInv
<1>3. UNCHANGED <<chain, imp, methods, fsChain>> /\ UNCHANGED <<Runtime, Created>>
  BY DEF methodsVars, messageVars, creationVars, hierarchyVars, Runtime, Created
<1>4. ChainsInv'
  BY ChainsStep DEF SuperInv
<1>5. /\ Len(frames') = Len(frames) + 1 /\ frames' \in Seq(Runtime)
      /\ frames'[Len(frames) + 1] = k
      /\ \A i \in 1..Len(frames) : frames'[i] = frames[i]
  BY <1>2
<1>6. Len(frames) \in Nat /\ MaxDepth \in Nat
  BY <1>2, SuperAssumption
<1>7. SuperTypeOK'
  BY <1>3, <1>5, <1>6 DEF SuperInv, SuperTypeOK
<1>8. SuperGoesUp'
  <2>. SUFFICES ASSUME message \notin Long, NEW i \in 1..Len(frames)
                PROVE  frames'[i + 1] \in chain'[frames'[i]] \ {frames'[i]}
    BY <1>5, <1>6 DEF SuperGoesUp, Above
  <2>1. CASE i = Len(frames)
    BY <2>1, <1>3, <1>5 DEF Above
  <2>2. CASE i # Len(frames)
    <3>1. i \in 1..(Len(frames) - 1) /\ i + 1 \in 1..Len(frames)
      BY <2>2, <1>6
    <3>2. Above(frames[i], frames[i + 1])
      BY <3>1 DEF SuperInv, SuperGoesUp
    <3>. QED BY <3>1, <3>2, <1>3, <1>5 DEF Above
  <2>. QED BY <2>1, <2>2
<1>. QED
  BY <1>3, <1>4, <1>5, <1>7, <1>8 DEF SuperInv

\* Nothing called, nothing returned to: only how the message ended is new.
LEMMA IdleOK ==
  ASSUME SuperInv, UNCHANGED <<methodsVars, receiver, level, message, frames>>,
         result' \in {"notUnderstood", "returned", result}
  PROVE  SuperInv'
<1>1. UNCHANGED <<chain, imp, methods, fsChain>> /\ UNCHANGED <<Runtime, Created>>
  BY DEF methodsVars, messageVars, creationVars, hierarchyVars, Runtime, Created
<1>2. ChainsInv'
  BY ChainsStep DEF SuperInv
<1>. QED
  BY <1>1, <1>2 DEF SuperInv, SuperTypeOK, SuperGoesUp, Above

\* No block runs any more, or only the first that a message starts.
LEMMA FewFramesOK ==
  ASSUME SuperInv, UNCHANGED methodsVars,
         receiver' \in Created \cup {Nil}, level' \in Side, message' \in Sel \cup {Nil},
         \/ frames' = <<>>
         \/ /\ receiver' \in Created /\ message' \in Sel
            /\ \E k \in chain[receiver'] : frames' = Append(<<>>, k),
         result' \in {"running", "returned", "notUnderstood", "threw"}
  PROVE  SuperInv'
<1>1. UNCHANGED <<chain, imp, methods, fsChain>> /\ UNCHANGED <<Runtime, Created>>
  BY DEF methodsVars, messageVars, creationVars, hierarchyVars, Runtime, Created
<1>2. ChainsInv'
  BY ChainsStep DEF SuperInv
<1>3. MaxDepth \in Nat \ {0}
  BY SuperAssumption
<1>4. CASE frames' = <<>>
  <2>1. frames' \in Seq(Runtime) /\ Len(frames') = 0
    BY <1>4
  <2>. QED BY <1>1, <1>2, <1>3, <1>4, <2>1 DEF SuperInv, SuperTypeOK, SuperGoesUp
<1>5. ASSUME receiver' \in Created, message' \in Sel,
             NEW k \in chain[receiver'], frames' = Append(<<>>, k)
      PROVE  SuperInv'
  <2>1. k \in Runtime
    BY <1>5 DEF SuperInv, ChainsInv, MethodsInv, CreationInv, ChainIsLine, Created
  <2>2. frames' = <<k>> /\ Len(frames') = 1 /\ frames'[1] = k /\ frames' \in Seq(Runtime)
    BY <1>5, <2>1
  <2>. QED BY <1>1, <1>2, <1>3, <1>5, <2>2 DEF SuperInv, SuperTypeOK, SuperGoesUp
<1>. QED BY <1>4, <1>5

\* A call to super dispatched from above the class of the running block.
LEMMA DispatchFromTop ==
  ASSUME SuperInv, frames # <<>>, Len(frames) < MaxDepth,
         Dispatch(level, receiver, message, Superclass(frames[Len(frames)])),
         UNCHANGED <<methodsVars, receiver, level, message>>
  PROVE  SuperInv'
<1>. DEFINE top == frames[Len(frames)]
<1>1. /\ receiver \in Created /\ receiver \in Runtime
      /\ level \in Side /\ message \in Sel
  BY DEF SuperInv, SuperTypeOK, Created
<1>2. top \in chain[receiver]
  <2>1. Len(frames) \in 1..Len(frames)
    BY DEF SuperInv
  <2>. QED BY <2>1 DEF SuperInv, SuperTypeOK
<1>3. /\ Superclass(top) \subseteq chain[receiver]
      /\ \A a \in Superclass(top) : \A k \in chain[a] : Above(top, k)
  BY <1>1, <1>2, SuperclassIsAbove DEF SuperInv
<1>4. \/ frames' = frames /\ result' \in {"notUnderstood", "returned"}
      \/ \E k \in chain[receiver] :
           /\ frames' = Append(frames, k) /\ result' = "running"
           /\ message \notin Long => \E a \in Superclass(top) : k \in chain[a]
  <2>. HIDE DEF top
  <2>1. Dispatch(level, receiver, message, Superclass(top))
    BY DEF top
  <2>. QED BY <1>1, <1>3, <2>1, DispatchStarts DEF SuperInv
<1>5. CASE frames' = frames /\ result' \in {"notUnderstood", "returned"}
  BY <1>5, IdleOK
<1>6. ASSUME NEW k \in chain[receiver],
             frames' = Append(frames, k), result' = "running",
             message \notin Long => \E a \in Superclass(top) : k \in chain[a]
      PROVE  SuperInv'
  BY <1>3, <1>6, CallOK
<1>. QED BY <1>4, <1>5, <1>6

\* The block that a call to super of many arguments looks up.
LEMMA MultiOK == SuperInv /\ SuperMulti => SuperInv'
<1>. SUFFICES ASSUME SuperInv, SuperMulti PROVE SuperInv'
  OBVIOUS
<1>. DEFINE parent == Nearest(receiver, fsChain[receiver] \ {receiver})
            found == Looked(level, parent, message)
<1>1. /\ frames # <<>> /\ Len(frames) < MaxDepth
      /\ UNCHANGED <<methodsVars, receiver, level, message>>
  BY DEF SuperMulti
<1>2. CASE result' = "notUnderstood" /\ UNCHANGED frames
  BY <1>1, <1>2, IdleOK
<1>3. CASE Dispatch(level, receiver, message, Superclass(frames[Len(frames)]))
  BY <1>1, <1>3, DispatchFromTop
<1>4. CASE result' = "returned" /\ UNCHANGED frames
  BY <1>1, <1>4, IdleOK
<1>5. ASSUME message \in Long, fsChain[receiver] # {receiver}, NEW a \in found,
             frames' = Append(frames, a), result' = "running"
      PROVE  SuperInv'
  <2>1. receiver \in Registered /\ receiver \in Runtime /\ level \in Side
    BY <1>1 DEF SuperInv, SuperTypeOK, ChainsInv, MethodsInv, CreationInv, Shape, Created
  <2>2. /\ fsChain[receiver] \subseteq chain[receiver] \cap Registered
        /\ receiver \in fsChain[receiver]
    BY <2>1 DEF SuperInv, ChainsInv, MethodsInv, CreationInv, WalkIsComplete, Registered
  <2>3. parent \in fsChain[receiver] \ {receiver}
    <3>. DEFINE S == fsChain[receiver] \ {receiver}
    <3>1. S # {} /\ S \subseteq chain[receiver]
      BY <1>5, <2>2
    <3>2. Nearest(receiver, S) \in S
      <4>. HIDE DEF S
      <4>. QED BY <2>1, <3>1, NearestIsOne DEF SuperInv, ChainsInv
    <3>. QED BY <3>2
  <2>4. parent \in Registered /\ chain[parent] \subseteq chain[receiver]
    <3>1. parent \in chain[receiver] \cap Registered
      BY <2>2, <2>3
    <3>. HIDE DEF parent
    <3>. QED BY <2>1, <3>1 DEF SuperInv, ChainsInv, MethodsInv, CreationInv, ChainIsLine
  <2>5. a \in chain[receiver]
    <3>1. Looked(level, parent, message) \subseteq chain[parent]
      <4>. HIDE DEF parent
      <4>. QED BY <2>1, <2>4, LookedInChain DEF SuperInv
    <3>. QED BY <1>5, <2>4, <3>1
  <2>. QED BY <1>1, <1>5, <2>5, CallOK
<1>. QED BY <1>2, <1>3, <1>4, <1>5 DEF SuperMulti

-----------------------------------------------------------------------------
(* The first call to super                                                 *)

\* The classes that implement a message that is only looked up have blocks for
\* it and were made by FSClass.
LEMMA LookedUpHaveBlocks ==
  ASSUME ChainsInv, NEW c \in Created, NEW s \in Sel, OnlyLookedUp(c, s)
  PROVE  /\ Implementors("instance", c, s)
              = {a \in chain[c] : methods["instance"][a][s] # Nil}
         /\ Implementors("instance", c, s) \subseteq fsChain[c]
         /\ \A a \in Implementors("instance", c, s) : imp["instance"][a][s] = "lookup"
         /\ Implementors("instance", c, s) # {} => s \in Long
<1>. USE DEF ChainsInv, MethodsInv
<1>1. c \in Registered /\ chain[c] \subseteq Runtime /\ Runtime \subseteq Class
  BY DEF CreationInv, Shape, ChainIsLine, Created, Runtime
<1>2. "instance" \in Side
  BY DEF Side
<1>3. ASSUME NEW a \in chain[c]
      PROVE  imp["instance"][a][s] = "lookup" <=> methods["instance"][a][s] # Nil
  <2>1. a \in Class /\ imp["instance"][a][s] \in {"none", "lookup"}
    BY <1>1 DEF OnlyLookedUp
  <2>. QED BY <1>2, <2>1 DEF RecordsAgree
<1>4. \A a \in Implementors("instance", c, s) :
        a \in chain[c] /\ imp["instance"][a][s] = "lookup"
  BY DEF OnlyLookedUp, Implementors
<1>5. Implementors("instance", c, s) = {a \in chain[c] : methods["instance"][a][s] # Nil}
  BY <1>3, <1>4 DEF Implementors
<1>6. Implementors("instance", c, s) \subseteq Created
  BY <1>1, <1>4 DEF OnlyLookedUp, Created
<1>7. Implementors("instance", c, s) \subseteq fsChain[c]
  BY <1>1, <1>4, <1>6 DEF CreationInv, WalkIsComplete
<1>8. Implementors("instance", c, s) # {} => s \in Long
  BY <1>1, <1>2, <1>4 DEF LookupIsLong
<1>. QED BY <1>4, <1>5, <1>7, <1>8

\* Dispatched as a call to super of few arguments, such a message runs no block.
LEMMA NoBlockAbove ==
  ASSUME ChainsInv, NEW c \in Created, NEW s \in Sel, OnlyLookedUp(c, s),
         s \notin Long \/ fsChain[c] = {c},
         Dispatch("instance", c, s, Superclass(c))
  PROVE  UNCHANGED frames
<1>. DEFINE S == UNION {Implementors("instance", a, s) : a \in Superclass(c)}
            k == CHOOSE a \in S : S \subseteq chain[a]
<1>1. c \in Runtime /\ c \in chain[c]
  BY DEF Created, Runtime
<1>2. S \subseteq Implementors("instance", c, s) \ {c}
  <2>1. \A a \in Superclass(c) : chain[a] \subseteq chain[c] /\ c \notin chain[a]
    BY <1>1 DEF Superclass, Acyclic, ChainsInv, MethodsInv, CreationInv, ChainIsLine
  <2>. QED BY <2>1 DEF Implementors
<1>3. S = {}
  BY <1>2, LookedUpHaveBlocks
<1>. QED BY <1>3 DEF Dispatch

\* Otherwise the block is looked up from the parent of the receiver, above which
\* are all the classes that implement the message, but for the receiver.
LEMMA ParentHasTheRest ==
  ASSUME ChainsInv, NEW c \in Created, NEW s \in Sel, OnlyLookedUp(c, s),
         fsChain[c] # {c}, NEW b \in Looked("instance", Nearest(c, fsChain[c] \ {c}), s)
  PROVE  /\ Implementors("instance", c, s) \ {c} # {}
         /\ b = Nearest(c, Implementors("instance", c, s) \ {c})
<1>. USE DEF ChainsInv, MethodsInv
<1>1. PICK S : S = Implementors("instance", c, s) \ {c}
  OBVIOUS
<1>2. c \in Runtime /\ c \in Registered /\ fsChain[c] \subseteq chain[c] \cap Registered
      /\ c \in fsChain[c]
  BY DEF CreationInv, Shape, WalkIsComplete, Created, Registered
<1>3. PICK F : F = fsChain[c] \ {c}
  OBVIOUS
<1>4. F # {} /\ F \in SUBSET chain[c]
  BY <1>2, <1>3
<1>5. PICK parent \in F : parent = Nearest(c, F) /\ F \subseteq chain[parent]
  BY <1>2, <1>4, NearestIsOne
<1>6. /\ parent \in Registered /\ parent \in Runtime
      /\ chain[parent] \subseteq chain[c] /\ c \notin chain[parent]
      /\ fsChain[parent] \subseteq chain[parent]
      /\ chain[parent] \cap Created \subseteq fsChain[parent]
  BY <1>2, <1>3, <1>5 DEF CreationInv, ChainIsLine, WalkIsComplete, Acyclic
<1>7. PICK T : T = {a \in fsChain[parent] : methods["instance"][a][s] # Nil}
  OBVIOUS
<1>8. S = {a \in chain[c] \ {c} : methods["instance"][a][s] # Nil} /\ S \subseteq F
  BY <1>1, <1>3, LookedUpHaveBlocks
<1>9. S \subseteq Created
  <2>1. S \subseteq Implementors("instance", c, s) /\ S \subseteq Runtime
    BY <1>1, <1>2, <1>4, <1>8 DEF CreationInv, ChainIsLine
  <2>2. S \cap ObjCClass = {}
    BY <1>4, <1>8, <2>1 DEF OnlyLookedUp
  <2>. QED BY <2>1, <2>2 DEF Created
<1>10. S = T
  BY <1>5, <1>6, <1>7, <1>8, <1>9
<1>11. Looked("instance", parent, s) = IF T = {} THEN {} ELSE {Nearest(parent, T)}
  BY <1>7 DEF Looked
<1>12. T # {} /\ b = Nearest(parent, T)
  BY <1>3, <1>5, <1>11
<1>13. b \in T /\ T \subseteq chain[b]
  BY <1>6, <1>7, <1>12, NearestIsOne
<1>14. S \in SUBSET chain[c]
  BY <1>8
<1>15. Nearest(c, S) = b
  BY <1>2, <1>10, <1>13, <1>14, OneNearest DEF CreationInv
<1>. QED BY <1>1, <1>10, <1>12, <1>15

\* The property of a step.
LEMMA FirstGoesUp ==
  ASSUME SuperInv, SuperMulti, level = "instance", frames = <<receiver>>,
         Len(frames') = 2, OnlyLookedUp(receiver, message)
  PROVE  LET S == Implementors("instance", receiver, message) \ {receiver}
         IN S # {} /\ frames'[2] = Nearest(receiver, S)
<1>1. ChainsInv /\ receiver \in Created /\ message \in Sel
  BY DEF SuperInv
<1>2. frames' # frames /\ frames[Len(frames)] = receiver
  OBVIOUS
<1>3. ~(message \notin Long \/ fsChain[receiver] = {receiver})
  BY <1>1, <1>2, NoBlockAbove DEF SuperMulti
<1>4. PICK b \in Looked("instance", Nearest(receiver, fsChain[receiver] \ {receiver}),
                        message) :
        frames' = Append(frames, b)
  BY <1>2, <1>3 DEF SuperMulti
<1>5. frames'[2] = b
  BY <1>4
<1>. QED BY <1>1, <1>3, <1>4, <1>5, ParentHasTheRest

-----------------------------------------------------------------------------
(* The theorems                                                            *)

LEMMA SuperInitOK == SuperInit => SuperInv
<1>. SUFFICES ASSUME SuperInit PROVE SuperInv
  OBVIOUS
<1>1. ChainsInv
  BY ChainsInit DEF SuperInit
<1>2. frames = <<>> /\ frames \in Seq(Runtime) /\ Len(frames) = 0
  BY DEF SuperInit
<1>3. MaxDepth \in Nat
  BY SuperAssumption
<1>. QED
  BY <1>1, <1>2, <1>3 DEF SuperInit, SuperInv, SuperTypeOK, SuperGoesUp, Side

LEMMA SuperStepOK == SuperInv /\ [SuperNext]_superVars => SuperInv'
<1>. SUFFICES ASSUME SuperInv, [SuperNext]_superVars PROVE SuperInv'
  OBVIOUS
<1>1. CASE [MethodsNext]_methodsVars /\ UNCHANGED stackVars
  <2>1. ChainsInv'
    BY <1>1, ChainsStep DEF SuperInv
  <2>2. Runtime \subseteq Runtime' /\ \A c \in Runtime : chain'[c] = chain[c]
    BY <1>1, StepKeepsChains DEF SuperInv, ChainsInv, MethodsInv, AddsChains
  <2>3. UNCHANGED <<receiver, level, message, frames, result>>
    BY <1>1 DEF stackVars
  <2>4. Created \subseteq Created' /\ frames' \in Seq(Runtime')
    BY <2>2, <2>3 DEF Created, SuperInv
  <2>5. frames # <<>> => chain'[receiver] = chain[receiver]
    BY <2>2 DEF SuperInv, Created
  <2>6. \A i \in 1..Len(frames) : frames[i] \in Runtime /\ frames # <<>>
    BY DEF SuperInv
  <2>7. SuperTypeOK'
    BY <2>3, <2>4, <2>5, <2>6 DEF SuperInv, SuperTypeOK
  <2>8. SuperGoesUp'
    <3>1. \A i \in 1..(Len(frames) - 1) : chain'[frames[i]] = chain[frames[i]]
      <4>1. Len(frames) \in Nat
        BY DEF SuperInv
      <4>. QED BY <2>2, <2>6, <4>1
    <3>. QED BY <2>3, <3>1 DEF SuperInv, SuperGoesUp, Above
  <2>. QED BY <2>1, <2>3, <2>4, <2>7, <2>8 DEF SuperInv
<1>2. ASSUME NEW side \in Side, NEW c \in Class, NEW s \in Sel, Message(side, c, s)
      PROVE  SuperInv'
  <2>1. /\ c \in Created /\ frames = <<>> /\ c \in chain[c]
        /\ receiver' = c /\ level' = side /\ message' = s /\ UNCHANGED methodsVars
    BY <1>2 DEF Message, Created, Runtime
  <2>2. \/ frames' = frames /\ result' \in {"notUnderstood", "returned"}
        \/ \E k \in chain[c] : frames' = Append(frames, k) /\ result' = "running"
    <3>1. {c} \subseteq chain[c] /\ Dispatch(side, c, s, {c})
      BY <1>2, <2>1 DEF Message
    <3>. QED BY <2>1, <3>1, DispatchStarts DEF SuperInv
  <2>. QED BY <2>1, <2>2, FewFramesOK
<1>3. CASE SuperWith
  <2>1. /\ frames # <<>> /\ Len(frames) < MaxDepth
        /\ UNCHANGED <<methodsVars, receiver, level, message>>
        /\ \/ result' = "notUnderstood" /\ UNCHANGED frames
           \/ Dispatch(level, receiver, message, Superclass(frames[Len(frames)]))
    BY <1>3 DEF SuperWith
  <2>. QED BY <2>1, IdleOK, DispatchFromTop
<1>4. CASE SuperMulti
  BY <1>4, MultiOK
<1>5. CASE Return
  <2>. DEFINE n == Len(frames) - 1
  <2>1. /\ frames # <<>> /\ frames' = SubSeq(frames, 1, n) /\ result' = "returned"
        /\ UNCHANGED <<methodsVars, receiver, level, message>>
    BY <1>5 DEF Return
  <2>2. /\ n \in Nat /\ frames' \in Seq(Runtime) /\ Len(frames') = n
        /\ \A i \in 1..n : frames'[i] = frames[i]
    <3>1. frames \in Seq(Runtime) /\ Len(frames) \in Nat /\ Len(frames) # 0
      BY <2>1 DEF SuperInv
    <3>2. n \in Nat /\ n <= Len(frames)
      BY <3>1
    <3>. HIDE DEF n
    <3>3. SubSeq(frames, 1, n) \in Seq(Runtime)
      BY <3>1, <3>2
    <3>4. Len(SubSeq(frames, 1, n)) = n
      BY <3>1, <3>2
    <3>5. \A i \in 1..n : SubSeq(frames, 1, n)[i] = frames[i]
      BY <3>1, <3>2
    <3>. QED BY <2>1, <3>2, <3>3, <3>4, <3>5
  <2>3. UNCHANGED <<chain, imp, methods, fsChain>> /\ UNCHANGED <<Runtime, Created>>
    BY <2>1 DEF methodsVars, messageVars, creationVars, hierarchyVars, Runtime, Created
  <2>4. ChainsInv'
    BY <2>1, ChainsStep DEF SuperInv
  <2>5. MaxDepth \in Nat /\ Len(frames) = n + 1
    BY <2>2, SuperAssumption DEF SuperInv
  <2>. HIDE DEF n
  <2>6. SuperTypeOK'
    BY <2>1, <2>2, <2>3, <2>5 DEF SuperInv, SuperTypeOK
  <2>7. SuperGoesUp'
    BY <2>1, <2>2, <2>3, <2>5 DEF SuperInv, SuperGoesUp, Above
  <2>. QED BY <2>1, <2>2, <2>3, <2>4, <2>6, <2>7 DEF SuperInv
<1>6. CASE Unwind
  BY <1>6, FewFramesOK DEF Unwind, SuperInv, SuperTypeOK
<1>7. CASE UNCHANGED superVars
  BY <1>1, <1>7 DEF superVars
<1>. QED BY <1>1, <1>2, <1>3, <1>4, <1>5, <1>6, <1>7 DEF SuperNext

LEMMA SuperInvariant == SuperSpec => []SuperInv
<1>. QED BY SuperInitOK, SuperStepOK, PTL DEF SuperSpec

\* Every reachable state has the types of SuperTypeOK; the blocks that run are
\* those of the receiver's superclasses.
THEOREM SuperTypeCorrect == SuperSpec => []SuperTypeOK
<1>1. SuperInv => SuperTypeOK
  BY DEF SuperInv
<1>. QED BY <1>1, SuperInvariant, PTL

\* A call to super from a block of few arguments always reaches a block further
\* up the hierarchy, so that a chain of such calls cannot come back to a block
\* it left (Callbacks.m:388, doSuperMethod:currentClass:).
THEOREM SuperAlwaysGoesUp == SuperSpec => []SuperGoesUp
<1>1. SuperInv => SuperGoesUp
  BY DEF SuperInv
<1>. QED BY <1>1, SuperInvariant, PTL

\* Also a call of many arguments goes up, when it is the first of its message
\* and only blocks are looked up: to the one the class would have inherited.
THEOREM FirstCallGoesUp == SuperSpec => FirstSuperGoesUp
<1>1. SuperInv /\ [SuperNext]_superVars =>
        [SuperMulti /\ level = "instance" /\ frames = <<receiver>> /\ Len(frames') = 2
           /\ OnlyLookedUp(receiver, message)
         => LET S == Implementors("instance", receiver, message) \ {receiver}
            IN S # {} /\ frames'[2] = Nearest(receiver, S)]_superVars
  BY FirstGoesUp
<1>. QED BY <1>1, SuperInvariant, PTL DEF SuperSpec, FirstSuperGoesUp
=============================================================================
