--------------------------- MODULE FSClassCreation ---------------------------
(***************************************************************************)
(* Creation and registration of classes (FSClassCreation.m and the init    *)
(* methods of FSClass.m), and the declaration of their instance            *)
(* properties.  A class name stands for the Class pointer registered under *)
(* it: the runtime never lets two class pairs have one name.               *)
(*                                                                         *)
(* Two hierarchies live side by side.  chain is the runtime's: a class and *)
(* its superclasses.  fsChain is FSClass's own: a registered class and the *)
(* classes reached through the parentClass pointers.  They differ as soon  *)
(* as an Objective-C class has, or has not, a proxy when it is subclassed. *)
(***************************************************************************)
EXTENDS Naturals, Sequences

CONSTANTS
  Class,          \* every name a class may have, compiled or not
  ObjCClass,      \* the compiled classes
  ObjCChain,      \* a compiled class |-> itself and its superclasses
  MaxAnonymous,   \* bound on the anonymous names asked for
  AnonymousName,  \* i |-> the name "FSClass<i>"
  Prop,           \* property names
  IllFormed,      \* those with illegal characters, and the reserved ones
  LowerFirst,     \* NSString's lowercaseFirst and
  UpperFirst,     \* uppercaseFirst, on property names
  Value,          \* objects a property can hold
  MaxList,        \* bound on the properties given in one call
  Nil,            \* nil: no object, no dictionary entry, not a valid name
  NSNull          \* [NSNull null], stored where a dictionary must hold nil

ASSUME CreationAssumption ==
  /\ ObjCClass \subseteq Class
  /\ ObjCChain \in [ObjCClass -> SUBSET ObjCClass]
  /\ \A c \in ObjCClass : c \in ObjCChain[c]
  /\ \A c \in ObjCClass : \A d \in ObjCChain[c] : ObjCChain[d] \subseteq ObjCChain[c]
  /\ \A c \in ObjCClass : \A d, e \in ObjCChain[c] :
        d \in ObjCChain[e] \/ e \in ObjCChain[d]
  /\ \A c \in ObjCClass : \A d \in ObjCChain[c] \ {c} : c \notin ObjCChain[d]
  /\ \A c \in ObjCClass : \A S \in SUBSET ObjCChain[c] :
        S # {} => \E d \in S : S \subseteq ObjCChain[d]
  /\ MaxAnonymous \in Nat
  /\ AnonymousName \in [1..MaxAnonymous -> Class]
  /\ IllFormed \subseteq Prop
  /\ LowerFirst \in [Prop -> Prop]
  /\ UpperFirst \in [Prop -> Prop]
  /\ Nil \notin Class
  /\ NSNull # Nil
  /\ Value \cap {Nil, NSNull} = {}
  /\ MaxList \in Nat

VARIABLES
  chain,              \* runtime: class |-> itself and its superclasses
  fsChain,            \* FSClass: class |-> itself and its parentClass chain
  useFastIvars,       \* classes created with fast ivars
  dictIvar,           \* classes that declare the dictionary variable
  hasIvarDictionary,  \* FSClass.hasIvarDictionary
  allocator,          \* classes given +alloc and the doSuperMethod methods
  parentAllocImp,     \* FSClasses whose parentAllocImp is not NULL
  properties,         \* FSClass.properties: class |-> name |-> default
  classCounter,       \* number of anonymous names handed out
  outcome             \* last call: what it was and whether it threw

hierarchyVars == <<chain, useFastIvars, dictIvar, hasIvarDictionary,
                   allocator, parentAllocImp>>
creationVars == <<hierarchyVars, fsChain, properties, classCounter, outcome>>

Stored == Value \cup {NSNull}           \* what a dictionary entry can be
NoEntries == [p \in Prop |-> Nil]
ToStored(v) == IF v = Nil THEN NSNull ELSE v
FromStored(v) == IF v = NSNull THEN Nil ELSE v

Runtime == {c \in Class : c \in chain[c]}         \* objc_lookUpClass finds it
Registered == {c \in Class : c \in fsChain[c]}    \* it has an FSClass object
Created == Runtime \ ObjCClass                    \* made by FSClass

Declared(c) == {p \in Prop : properties[c][p] # Nil}
HasProperty(c, p) == \E a \in fsChain[c] : p \in Declared(a)

\* The nearest of the classes S on c's superclass chain
Nearest(c, S) ==
  CHOOSE a \in S \cap chain[c] : S \cap chain[c] \subseteq chain[a]

CreationInit ==
  /\ chain = [c \in Class |-> IF c \in ObjCClass THEN ObjCChain[c] ELSE {}]
  /\ fsChain = [c \in Class |-> {}]
  /\ useFastIvars = {}
  /\ dictIvar = {}
  /\ hasIvarDictionary = {}
  /\ allocator = {}
  /\ parentAllocImp = {}
  /\ properties = [c \in Class |-> NoEntries]
  /\ classCounter = 0
  /\ outcome = [call |-> "none", threw |-> FALSE]

Returns(call) == outcome' = [call |-> call, threw |-> FALSE]
Throws(call) == outcome' = [call |-> call, threw |-> TRUE]

-----------------------------------------------------------------------------
(* Proxies                                                                 *)

\* Mutant: the existing FSClass is not looked for
ShadowAnew(c) == fsChain' = [fsChain EXCEPT ![c] = {c}]

\* +shadowForClass: the class's FSClass, made on the spot for a compiled one
ShadowForClass(c) ==
  fsChain' = IF c \in Registered THEN fsChain ELSE [fsChain EXCEPT ![c] = {c}]

\* Any introspection message to a class: only the proxy is a side effect
Reflect(c) ==
  /\ c \in Runtime
  /\ ShadowForClass(c)
  /\ Returns("reflect")
  /\ UNCHANGED <<hierarchyVars, properties, classCounter>>

-----------------------------------------------------------------------------
(* Class creation                                                          *)

\* Mutants: the name is not looked up, or only among FSClass's own classes
NameUnchecked(n) == n \in Class
NameUnregistered(n) == n \in Class /\ n \notin Registered

NameIsFree(n) == n \in Class /\ n \notin Runtime

\* Mutant: parentClass is not saved
InitNewClassOrphan(n, parent) ==
  /\ chain' = [chain EXCEPT ![n] = {n} \cup chain[parent]]
  /\ fsChain' = [fsChain EXCEPT ![n] = {n}]
  /\ allocator' = IF parent \in Registered THEN allocator ELSE allocator \cup {n}
  /\ parentAllocImp' = IF parent \in Registered \ parentAllocImp
                       THEN parentAllocImp ELSE parentAllocImp \cup {n}

\* Mutant: parentAllocImp is not taken over from the parent's FSClass
InitNewClassNoImp(n, parent) ==
  /\ chain' = [chain EXCEPT ![n] = {n} \cup chain[parent]]
  /\ fsChain' = [fsChain EXCEPT ![n] = {n} \cup fsChain[parent]]
  /\ allocator' = IF parent \in Registered THEN allocator ELSE allocator \cup {n}
  /\ parentAllocImp' = IF parent \in Registered
                       THEN parentAllocImp ELSE parentAllocImp \cup {n}

\* initNewClass:parent:iVars: and createNewClass, once the name is accepted.
\* Only a class whose parent has no FSClass gets the allocator.
InitNewClass(n, parent) ==
  /\ chain' = [chain EXCEPT ![n] = {n} \cup chain[parent]]
  /\ fsChain' = [fsChain EXCEPT ![n] = {n} \cup fsChain[parent]]
  /\ allocator' = IF parent \in Registered THEN allocator ELSE allocator \cup {n}
  /\ parentAllocImp' = IF parent \in Registered \ parentAllocImp
                       THEN parentAllocImp ELSE parentAllocImp \cup {n}

\* Mutant: every regular class gets a dictionary variable of its own
InitRegularOwnDict(n, parent) ==
  /\ InitNewClass(n, parent)
  /\ dictIvar' = dictIvar \cup {n}
  /\ hasIvarDictionary' = hasIvarDictionary \cup {n}
  /\ UNCHANGED <<useFastIvars, properties>>

InitRegularIvarsClass(n, parent) ==
  /\ InitNewClass(n, parent)
  /\ dictIvar' = IF parent \in hasIvarDictionary THEN dictIvar ELSE dictIvar \cup {n}
  /\ hasIvarDictionary' = hasIvarDictionary \cup {n}
  /\ UNCHANGED <<useFastIvars, properties>>

\* Mutant: a fast-ivar class never claims a dictionary
InitFastNoDict(n, parent, defaults) ==
  /\ InitNewClass(n, parent)
  /\ useFastIvars' = useFastIvars \cup {n}
  /\ properties' = [properties EXCEPT ![n] = defaults]
  /\ UNCHANGED <<dictIvar, hasIvarDictionary>>

InitFastIvarsClass(n, parent, defaults) ==
  /\ InitNewClass(n, parent)
  /\ hasIvarDictionary' = IF parent \in hasIvarDictionary
                          THEN hasIvarDictionary \cup {n} ELSE hasIvarDictionary
  /\ useFastIvars' = useFastIvars \cup {n}
  /\ properties' = [properties EXCEPT ![n] = defaults]
  /\ UNCHANGED dictIvar

\* newClass: and newClass:parent:; Nil stands for anything but an ASCII string
NewClass(n, parent) ==
  /\ parent \in Runtime
  /\ \/ /\ NameIsFree(n)
        /\ InitRegularIvarsClass(n, parent)
        /\ Returns("newClass")
     \/ /\ ~NameIsFree(n)
        /\ Throws("newClass")
        /\ UNCHANGED <<hierarchyVars, fsChain, properties>>
  /\ UNCHANGED classCounter

\* newClass and newClassWithParent:, which make up a name first
NewAnonymousClass(parent) ==
  /\ parent \in Runtime
  /\ classCounter < MaxAnonymous
  /\ classCounter' = classCounter + 1
  /\ LET n == AnonymousName[classCounter + 1] IN
       \/ /\ NameIsFree(n)
          /\ InitRegularIvarsClass(n, parent)
          /\ Returns("newAnonymousClass")
       \/ /\ ~NameIsFree(n)
          /\ Throws("newAnonymousClass")
          /\ UNCHANGED <<hierarchyVars, fsChain, properties>>

\* newClass:parent:properties: (all defaults NSNull) and
\* newClass:parent:propertiesWithDefaults:
LegitFastNames(parent, names) ==
  \A p \in names : p \notin IllFormed /\ ~HasProperty(parent, p)

NewFastClass(n, parent, defaults) ==
  /\ parent \in Runtime
  /\ LET names == {p \in Prop : defaults[p] # Nil} IN
       \/ /\ LegitFastNames(parent, names) /\ NameIsFree(n)
          /\ InitFastIvarsClass(n, parent, defaults)
          /\ Returns("newFastClass")
       \/ /\ ~(LegitFastNames(parent, names) /\ NameIsFree(n))
          /\ Throws("newFastClass")
          /\ UNCHANGED <<hierarchyVars, fsChain, properties>>
  /\ UNCHANGED classCounter

\* -subclass asks for a class whose name is nil, which initNewClass refuses
Subclass(c) ==
  /\ c \in Runtime
  /\ ShadowForClass(c)
  /\ Throws("subclass")
  /\ UNCHANGED <<hierarchyVars, properties, classCounter>>

-----------------------------------------------------------------------------
(* Instance properties of regular classes                                  *)

\* _isLegitPropertyName: well formed, and no variant of p in the dictionary
IsLegitPropertyName(p, names) ==
  /\ p \notin IllFormed
  /\ {p, LowerFirst[p], UpperFirst[p]} \cap names = {}

\* The property that the setter of p, set<P>:, looks for
SetterKey(p) == LowerFirst[UpperFirst[p]]

\* Mutant: the parents are not asked whether they have the property
AcceptsOwn(c, decl, i) ==
  IsLegitPropertyName(decl[i].name,
                      Declared(c) \cup {decl[j].name : j \in 1..(i - 1)})

\* addProperty:withDefault: accepts decl[i] once decl[1..i-1] are in
Accepts(c, decl, i) ==
  /\ IsLegitPropertyName(decl[i].name,
                         Declared(c) \cup {decl[j].name : j \in 1..(i - 1)})
  /\ ~HasProperty(c, decl[i].name)

\* The loop of addPropertiesWithDefaults: and addPropertiesFromDictionary:
\* stops at the first property refused, or at the end of an odd array, and
\* what was added before stays.  addProperty: is the case of one.
AddProperties(c, decl, odd) ==
  /\ c \in Created
  /\ c \notin useFastIvars
  /\ \E k \in 0..Len(decl) :
       /\ \A i \in 1..k : Accepts(c, decl, i)
       /\ k < Len(decl) => ~Accepts(c, decl, k + 1)
       /\ properties' =
            [properties EXCEPT ![c] = [p \in Prop |->
               IF \E i \in 1..k : decl[i].name = p
               THEN ToStored(decl[CHOOSE i \in 1..k : decl[i].name = p].default)
               ELSE properties[c][p]]]
       /\ IF k < Len(decl) \/ odd THEN Throws("addProperties")
                                  ELSE Returns("addProperties")
  /\ UNCHANGED <<hierarchyVars, fsChain, classCounter>>

\* The same calls on a compiled or a fast-ivar class
RefuseProperties(c) ==
  /\ c \in Runtime
  /\ c \in ObjCClass \/ c \in useFastIvars
  /\ ShadowForClass(c)
  /\ Throws("addProperties")
  /\ UNCHANGED <<hierarchyVars, properties, classCounter>>

\* setDefaultValue:forProperty: looks in the class's own properties only
SetDefaultValue(c, p, v) ==
  /\ c \in Runtime
  /\ ShadowForClass(c)
  /\ \/ /\ p \in Declared(c)
        /\ properties' = [properties EXCEPT ![c][p] = ToStored(v)]
        /\ Returns("setDefaultValue")
     \/ /\ p \notin Declared(c)
        /\ Throws("setDefaultValue")
        /\ UNCHANGED properties
  /\ UNCHANGED <<hierarchyVars, classCounter>>

\* defaultValueForProperty: walks up the parents
DefaultOwner(c, p) == Nearest(c, {a \in fsChain[c] : p \in Declared(a)})
DefaultValue(c, p) == FromStored(properties[DefaultOwner(c, p)][p])

-----------------------------------------------------------------------------
(* The specification                                                       *)

Declaration == [name : Prop, default : Value \cup {Nil}]
DeclarationLists == UNION {[1..n -> Declaration] : n \in 1..MaxList}

CreationNext ==
  \/ \E c \in Class : Reflect(c) \/ Subclass(c) \/ RefuseProperties(c)
  \/ \E n \in Class \cup {Nil}, parent \in Class : NewClass(n, parent)
  \/ \E parent \in Class : NewAnonymousClass(parent)
  \/ \E n \in Class \cup {Nil}, parent \in Class,
        defaults \in [Prop -> Stored \cup {Nil}] : NewFastClass(n, parent, defaults)
  \/ \E c \in Class, decl \in DeclarationLists, odd \in BOOLEAN :
        AddProperties(c, decl, odd)
  \/ \E c \in Class, p \in Prop, v \in Value \cup {Nil} : SetDefaultValue(c, p, v)

CreationSpec == CreationInit /\ [][CreationNext]_creationVars

-----------------------------------------------------------------------------
(* Properties                                                              *)

Calls == {"none", "reflect", "newClass", "newAnonymousClass", "newFastClass",
          "subclass", "addProperties", "setDefaultValue"}

\* Every variable has its type, and only classes made by FSClass have any of
\* the traits that creation gives.
CreationTypeOK ==
  /\ chain \in [Class -> SUBSET Class]
  /\ fsChain \in [Class -> SUBSET Class]
  /\ useFastIvars \subseteq Class \ ObjCClass
  /\ dictIvar \subseteq Class \ ObjCClass
  /\ hasIvarDictionary \subseteq Class \ ObjCClass
  /\ allocator \subseteq Class \ ObjCClass
  /\ parentAllocImp \subseteq Class \ ObjCClass
  /\ properties \in [Class -> [Prop -> Stored \cup {Nil}]]
  /\ classCounter \in 0..MaxAnonymous
  /\ outcome \in [call : Calls, threw : BOOLEAN]

\* The superclasses of a class form a line, so that a walk up the chain meets
\* them in one order and "the nearest class that ..." is a single class.
ChainIsLine ==
  \A c \in Runtime : \A d, e \in chain[c] :
    /\ d \in Runtime
    /\ chain[d] \subseteq chain[c]
    /\ d \in chain[e] \/ e \in chain[d]

\* A walk along parentClass (_hasProperty:, defaultValueForProperty:,
\* blockForSelector:) never leaves the superclasses, and misses none that
\* FSClass made, however proxies and subclasses were created around it.
WalkIsComplete ==
  \A c \in Registered :
    /\ fsChain[c] \subseteq chain[c] \cap Registered
    /\ chain[c] \cap Created \subseteq fsChain[c]

\* The allocator (Callbacks.m:29) never calls a NULL parentAllocImp: the
\* classes that inherit it are those that were handed an implementation.
AllocatorHasImp ==
  \A c \in Created : (chain[c] \cap allocator # {}) <=> c \in parentAllocImp

\* An instance has one dictionary variable if its class claims to have a
\* dictionary and none otherwise: getInstanceProperty and the allocator name
\* the variable, and would find the wrong one of two.
OneIvarDictionary ==
  \A c \in Created :
    /\ c \in hasIvarDictionary <=> chain[c] \cap dictIvar # {}
    /\ \A d, e \in chain[c] \cap dictIvar : d = e

\* What the compiled code cannot take back: once registered, no later call
\* (a proxy made again, a name used again) redefines a class or moves it in
\* the hierarchy, and instance properties stay declared.
DefinitionsStable ==
  [][\A c \in Registered :
       /\ c \in Registered' /\ fsChain'[c] = fsChain[c]
       /\ chain'[c] = chain[c]
       /\ c \in useFastIvars' <=> c \in useFastIvars
       /\ c \in hasIvarDictionary' <=> c \in hasIvarDictionary
       /\ Declared(c) \subseteq Declared(c)']_creationVars

\* "A subclass cannot redeclare": a name declared by a class is not, at that
\* moment, declared above it (index.html:801), in one call or in many.
NoRedeclaration ==
  [][\A c \in Class : \A p \in Declared(c)' \ Declared(c) :
       \A a \in fsChain'[c] : p \notin Declared(a)]_creationVars

=============================================================================
