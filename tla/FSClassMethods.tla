---------------------------- MODULE FSClassMethods ----------------------------
(***************************************************************************)
(* Methods given by blocks, accessor methods and class properties, and the *)
(* dispatch of messages to them.  Every class has two records of its       *)
(* methods that must tell one story: the runtime's table of functions, and *)
(* the dictionary of blocks in its FSClass.  A block of few arguments is   *)
(* called by a trampoline that holds it; one of many by a function         *)
(* (runInstanceMethodArgs<N>) that looks it up in the dictionaries.        *)
(***************************************************************************)
EXTENDS FSClassCreation

CONSTANTS
  Block,      \* F-Script blocks
  Sel,        \* selectors
  Long,       \* those with more than TRAMPOLINE_MAX_ARG_COUNT arguments
  TooLong,    \* those with more than 11
  Compiled,   \* side |-> compiled class |-> selectors it implements
  Getter,     \* property |-> its getter selector
  Setter      \* property |-> its setter selector

Side == {"instance", "class"}    \* a method of the class, of its metaclass
Native == {"none", "compiled", "accessor", "lookup"}

ASSUME MethodsAssumption ==
  /\ TooLong \subseteq Long /\ Long \subseteq Sel
  /\ Compiled \in [Side -> [ObjCClass -> SUBSET Sel]]
  /\ Getter \in [Prop -> Sel \ Long] /\ Setter \in [Prop -> Sel \ Long]
  /\ \A p, q \in Prop : Getter[p] # Setter[q]
  /\ Block \cap (Native \cup {Nil}) = {}

VARIABLES
  imp,              \* side |-> class |-> selector |-> function in its own table
  methods,          \* side |-> class |-> selector |-> block: methods, classMethods
  classProperties   \* class |-> name |-> value

messageVars == <<imp, methods, classProperties>>
methodsVars == <<creationVars, messageVars>>

Accessors(p) == {Getter[p], Setter[p]}
ClassDeclared(c) == {p \in Prop : classProperties[c][p] # Nil}
HasClassProperty(c, p) == \E a \in fsChain[c] : p \in ClassDeclared(a)

-----------------------------------------------------------------------------
(* Dispatch                                                                *)

Implementors(side, c, s) == {a \in chain[c] : imp[side][a][s] # "none"}
Found(side, c, s) == imp[side][Nearest(c, Implementors(side, c, s))][s]

\* Mutant: blockForSelector: does not walk up either
BlockForSelectorOwn(c, s) == methods["instance"][c][s]

\* blockForSelector: walks up the parents, blockForClassSelector: does not
BlockForSelector(c, s) ==
  LET S == {a \in fsChain[c] : methods["instance"][a][s] # Nil} IN
    IF S = {} THEN Nil ELSE methods["instance"][Nearest(c, S)][s]
BlockForClassSelector(c, s) == methods["class"][c][s]

\* What the message runs: a block, a function of another kind, or, Nil, nothing
\* at all.  nil is also what a block looked up in vain returns.
Runs(side, c, s) ==
  IF Implementors(side, c, s) = {} THEN "none"
  ELSE IF Found(side, c, s) # "lookup" THEN Found(side, c, s)
  ELSE IF side = "instance" THEN BlockForSelector(c, s)
  ELSE BlockForClassSelector(c, s)

\* runInstanceMethodArgs and runClassMethodArgs ask for the FSClass of the
\* receiver's class, and make one if there is none
Send(side, c, s) ==
  /\ c \in Runtime
  /\ Implementors(side, c, s) # {}
  /\ Found(side, c, s) = "lookup"
  /\ ShadowForClass(c)
  /\ UNCHANGED <<hierarchyVars, properties, classCounter, outcome, messageVars>>

-----------------------------------------------------------------------------
(* Installing methods                                                      *)

\* Mutant: the implementation of a method that was there is never replaced
InstalledOnce(side, c, sels, i) ==
  [s \in Sel |-> IF s \in sels /\ imp[side][c][s] = "none" THEN i ELSE imp[side][c][s]]

\* _installMethod, for several selectors of a class at once: class_addMethod
\* does nothing if the class's own table has the selector; method_setImplementation
\* is used if the FSClass has a block for it.  properties and their accessors
\* leave no block there.
Installed(side, c, sels, i) ==
  [s \in Sel |->
     IF s \in sels /\ (imp[side][c][s] = "none" \/ methods[side][c][s] # Nil)
     THEN i ELSE imp[side][c][s]]

\* Mutant: the block is not checked
OnMessageUnchecked(side, c, s, b) ==
  /\ c \in Runtime
  /\ ShadowForClass(c)
  /\ imp' = [imp EXCEPT ![side][c] =
               Installed(side, c, {s}, IF s \in Long THEN "lookup" ELSE b)]
  /\ methods' = [methods EXCEPT ![side][c][s] = b]
  /\ UNCHANGED <<hierarchyVars, properties, classCounter, outcome, classProperties>>

\* _onMessage:do:instanceMethod:.  Nil stands for an argument that is no block
\* or has the wrong number of parameters.
OnMessage(side, c, s, b) ==
  /\ c \in Runtime
  /\ ShadowForClass(c)
  /\ \/ /\ b # Nil /\ s \notin TooLong
        /\ imp' = [imp EXCEPT ![side][c] =
                     Installed(side, c, {s}, IF s \in Long THEN "lookup" ELSE b)]
        /\ methods' = [methods EXCEPT ![side][c][s] = b]
     \/ /\ b = Nil \/ s \in TooLong
        /\ UNCHANGED <<imp, methods>>
  /\ UNCHANGED <<hierarchyVars, properties, classCounter, outcome, classProperties>>

\* addClassProperty:withValue:
AddClassProperty(c, p, v) ==
  /\ c \in Runtime
  /\ ShadowForClass(c)
  /\ \/ /\ IsLegitPropertyName(p, ClassDeclared(c)) /\ ~HasClassProperty(c, p)
        /\ classProperties' = [classProperties EXCEPT ![c][p] = ToStored(v)]
        /\ imp' = [imp EXCEPT !["class"][c] =
                     Installed("class", c, Accessors(p), "accessor")]
     \/ /\ ~(IsLegitPropertyName(p, ClassDeclared(c)) /\ ~HasClassProperty(c, p))
        /\ UNCHANGED <<classProperties, imp>>
  /\ UNCHANGED <<hierarchyVars, properties, classCounter, outcome, methods>>

\* _setClassProperty:toValue: through the accessor, which has the name from its
\* selector: the value is the one of the nearest parent that has a property of
\* that name, or the call throws
SetClassProperty(c, p, v) ==
  /\ c \in Registered
  /\ Implementors("class", c, Setter[p]) # {}
  /\ Found("class", c, Setter[p]) = "accessor"
  /\ LET S == {a \in fsChain[c] : SetterKey(p) \in ClassDeclared(a)} IN
       classProperties' =
         IF S = {} THEN classProperties
         ELSE [classProperties EXCEPT ![Nearest(c, S)][SetterKey(p)] = ToStored(v)]
  /\ UNCHANGED <<creationVars, imp, methods>>

\* Mutant: a call that fails halfway installs no accessors
CreationStepAllOrNone ==
  /\ CreationNext
  /\ imp' = [imp EXCEPT !["instance"] = [c \in Class |->
               Installed("instance", c,
                         IF outcome'.threw THEN {}
                         ELSE UNION {Accessors(p) : p \in Declared(c)' \ Declared(c)},
                         "accessor")]]
  /\ UNCHANGED <<methods, classProperties>>

\* Creation and declaration, with the accessors they install: those of a new
\* fast-ivar class (createNewClass) and those of properties added to a class
CreationStep ==
  /\ CreationNext
  /\ imp' = [imp EXCEPT !["instance"] = [c \in Class |->
               Installed("instance", c,
                         UNION {Accessors(p) : p \in Declared(c)' \ Declared(c)},
                         "accessor")]]
  /\ UNCHANGED <<methods, classProperties>>

-----------------------------------------------------------------------------
(* The specification                                                       *)

MethodsInit ==
  /\ CreationInit
  /\ imp = [side \in Side |-> [c \in Class |-> [s \in Sel |->
              IF c \in ObjCClass /\ s \in Compiled[side][c]
              THEN "compiled" ELSE "none"]]]
  /\ methods = [side \in Side |-> [c \in Class |-> [s \in Sel |-> Nil]]]
  /\ classProperties = [c \in Class |-> NoEntries]

MethodsNext ==
  \/ CreationStep
  \/ \E side \in Side, c \in Class, s \in Sel :
       \/ Send(side, c, s)
       \/ \E b \in Block \cup {Nil} : OnMessage(side, c, s, b)
  \/ \E c \in Class, p \in Prop, v \in Value \cup {Nil} :
       AddClassProperty(c, p, v) \/ SetClassProperty(c, p, v)

MethodsSpec == MethodsInit /\ [][MethodsNext]_methodsVars

-----------------------------------------------------------------------------
(* Properties                                                              *)

\* Every variable has its type.
MethodsTypeOK ==
  /\ imp \in [Side -> [Class -> [Sel -> Native \cup Block]]]
  /\ methods \in [Side -> [Class -> [Sel -> Block \cup {Nil}]]]
  /\ classProperties \in [Class -> [Prop -> Stored \cup {Nil}]]

\* The two records agree as far as _installMethod relies on it: a class with a
\* block for a selector has a method of its own for it (so that replacing the
\* implementation does not reach into a superclass), a function that looks
\* blocks up has one to find, and only the FSClass of a class holds blocks.
RecordsAgree ==
  \A side \in Side, c \in Class, s \in Sel :
    /\ methods[side][c][s] # Nil => c \in Registered /\ imp[side][c][s] # "none"
    /\ imp[side][c][s] = "lookup" => methods[side][c][s] # Nil
    /\ imp[side][c][s] \in Block => methods[side][c][s] = imp[side][c][s]

\* Every property declared, also by a call that then failed or by class
\* creation, has both its accessors in the declaring class, unless a block was
\* given for one of them.  (A class property of a compiled class may find a
\* compiled method in its way.)
AccessorsInstalled ==
  \A c \in Class, p \in Prop : \A s \in Accessors(p) :
    /\ p \in Declared(c) =>
         imp["instance"][c][s] = "accessor" \/ methods["instance"][c][s] # Nil
    /\ p \in ClassDeclared(c) =>
         imp["class"][c][s] \in {"accessor", "compiled"} \/ methods["class"][c][s] # Nil

\* The block that was given last to the nearest class that has one
Promised(side, c, s) ==
  LET S == {a \in chain[c] : methods[side][a][s] # Nil} IN
    IF S = {} THEN "none" ELSE methods[side][Nearest(c, S)][s]

\* A class FSClass made answers an instance message with the block last given
\* to it or to the nearest parent FSClass made, however many arguments the
\* message has, if nothing but blocks ever implemented it in the chain.
BlocksAreInherited ==
  \A c \in Created, s \in Sel :
    (\A a \in chain[c] : imp["instance"][a][s] \notin {"compiled", "accessor"})
      /\ (s \in Long => chain[c] \cap ObjCClass \cap Implementors("instance", c, s) = {})
    => Runs("instance", c, s) = Promised("instance", c, s)

\* What a class answers to a message changes only when a method or a property
\* is added to one of its superclasses under that very selector: not by making
\* proxies or subclasses, nor by calling methods.
OnlyDefinitionsChangeDispatch ==
  [][\A side \in Side, c \in Runtime, s \in Sel :
       Runs(side, c, s)' # Runs(side, c, s) =>
         \E a \in chain[c] :
            imp'[side][a][s] # imp[side][a][s] \/ methods'[side][a][s] # methods[side][a][s]
    ]_methodsVars

\* A class property of a class FSClass made is shared with its subclasses: the
\* accessors they inherit find it, at the class that declared it.
ClassPropertiesAreInherited ==
  \A c \in Registered, p \in Prop :
    LET S == {a \in chain[c] \cap Created : p \in ClassDeclared(a)}
        T == {a \in fsChain[c] : p \in ClassDeclared(a)}
    IN S # {} => T # {} /\ Nearest(c, T) = Nearest(c, S)

-----------------------------------------------------------------------------
(* What the documentation says, and the code does not do                   *)

\* onMessage:do: and onClassMessage:do: are used "to replace the implementations
\* of existing instance methods" (reference.html:119)
OnMessageTakesEffect ==
  [][\A c \in Class, s \in Sel, b \in Block :
       OnMessage("instance", c, s, b) /\ methods'["instance"][c][s] = b =>
         Runs("instance", c, s)' = b]_methodsVars
=============================================================================
