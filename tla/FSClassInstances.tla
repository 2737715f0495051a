--------------------------- MODULE FSClassInstances ---------------------------
(***************************************************************************)
(* Instances of FSClass's classes and their properties (Callbacks.m).  The *)
(* property names a regular class declares are kept in the object's        *)
(* dictionary; those of a fast-ivar class each in an instance variable.    *)
(* Which accessor runs is the runtime's choice: the one installed on the   *)
(* nearest superclass that declared the name.                              *)
(***************************************************************************)
EXTENDS FSClassCreation

CONSTANTS Obj,     \* objects that may be allocated
          Unset    \* a slot with no entry in the dictionary

ASSUME InstanceAssumption == Unset \notin Value \cup {Nil, NSNull}

VARIABLES
  classOf,    \* object |-> its class, or Nil before it is allocated
  hasDict,    \* objects whose dictionary variable is not nil
  dict,       \* object |-> name |-> entry of the dictionary, or Nil
  ivar,       \* object |-> name |-> instance variable (if its class has one)
  answer      \* last message to an object: what it was about, its result

objectVars == <<classOf, hasDict, dict, ivar, answer>>
instanceVars == <<creationVars, objectVars>>

Answers(o, p, v) == answer' = [to |-> o, name |-> p, value |-> v]

Live == {o \in Obj : classOf[o] # Nil}

-----------------------------------------------------------------------------
(* Dispatch of accessor messages                                           *)

Declarers(c, p) == {a \in chain[c] : p \in Declared(a)}
Understands(c, p) == Declarers(c, p) # {}
Owner(c, p) == Nearest(c, Declarers(c, p))

\* The setter message of p is set<P>:, which the variants of p share
SameSetter(p) == {q \in Prop : UpperFirst[q] = UpperFirst[p]}
SetterOwners(c, p) == UNION {Declarers(c, q) : q \in SameSetter(p)}
SetterOwner(c, p) == Nearest(c, SetterOwners(c, p))

\* The instance variables of a class: those of its fast-ivar superclasses
Ivars(c) == UNION {Declared(a) : a \in chain[c] \cap useFastIvars}

-----------------------------------------------------------------------------
(* alloc                                                                   *)

\* allocator(), if some class of the chain has it, gives the object its
\* dictionary, then sets the non-nil defaults of the object's own class (the
\* loop over its parents reads fsClass.properties every time) through their
\* setters, in any order.  Without it +[NSObject alloc] zeroes everything.
FilledIn(c) == {p \in Declared(c) : properties[c][p] # NSNull}

Alloc(o, c) ==
  /\ o \notin Live
  /\ c \in Created
  /\ classOf' = [classOf EXCEPT ![o] = c]
  /\ Answers(o, Nil, Nil)
  /\ LET viaAllocator == chain[c] \cap allocator # {}
         names == IF viaAllocator THEN FilledIn(c) ELSE {}
         offered(k) == {properties[c][p] : p \in {q \in names : SetterKey(q) = k}}
     IN /\ hasDict' = IF viaAllocator /\ c \in hasIvarDictionary
                      THEN hasDict \cup {o} ELSE hasDict
        /\ \E given \in [Prop -> Value \cup {Nil}] :
             /\ \A k \in Prop :
                  given[k] \in IF offered(k) = {} THEN {Nil} ELSE offered(k)
             /\ IF c \in useFastIvars
                THEN /\ ivar' = [ivar EXCEPT ![o] = [k \in Prop |->
                                  IF k \in Ivars(c) THEN given[k] ELSE Nil]]
                     /\ UNCHANGED dict
                ELSE dict' = [dict EXCEPT ![o] = given] /\ UNCHANGED ivar
  /\ UNCHANGED creationVars

-----------------------------------------------------------------------------
(* Accessors                                                               *)

\* getInstancePropertyFast
GetFast(o, p) ==
  /\ Understands(classOf[o], p)
  /\ Owner(classOf[o], p) \in useFastIvars
  /\ Answers(o, p, ivar[o][p])
  /\ UNCHANGED <<creationVars, classOf, hasDict, dict, ivar>>

\* Mutant: an entry that says nil is taken for no entry
GetNullAgain(o, p) ==
  /\ Understands(classOf[o], p)
  /\ Owner(classOf[o], p) \notin useFastIvars
  /\ IF dict[o][p] \in {Nil, NSNull}
     THEN /\ Answers(o, p, DefaultValue(classOf[o], p))
          /\ dict' = IF o \in hasDict
                     THEN [dict EXCEPT ![o][p] = ToStored(DefaultValue(classOf[o], p))]
                     ELSE dict
     ELSE /\ Answers(o, p, dict[o][p])
          /\ UNCHANGED dict
  /\ UNCHANGED <<creationVars, classOf, hasDict, ivar>>

\* getInstanceProperty: the first read copies the default to the dictionary,
\* if there is one
GetFromDict(o, p) ==
  /\ Understands(classOf[o], p)
  /\ Owner(classOf[o], p) \notin useFastIvars
  /\ IF dict[o][p] = Nil
     THEN /\ Answers(o, p, DefaultValue(classOf[o], p))
          /\ dict' = IF o \in hasDict
                     THEN [dict EXCEPT ![o][p] = ToStored(DefaultValue(classOf[o], p))]
                     ELSE dict
     ELSE /\ Answers(o, p, FromStored(dict[o][p]))
          /\ UNCHANGED dict
  /\ UNCHANGED <<creationVars, classOf, hasDict, ivar>>

\* setInstancePropertyFast: object_setInstanceVariable does nothing when the
\* object has no such variable
SetFast(o, p, v) ==
  /\ SetterOwners(classOf[o], p) # {}
  /\ SetterOwner(classOf[o], p) \in useFastIvars
  /\ ivar' = IF SetterKey(p) \in Ivars(classOf[o])
             THEN [ivar EXCEPT ![o][SetterKey(p)] = v] ELSE ivar
  /\ Answers(o, SetterKey(p), Nil)
  /\ UNCHANGED <<creationVars, classOf, hasDict, dict>>

\* Mutant: the dictionary springs into being
SetAnyDict(o, p, v) ==
  /\ SetterOwners(classOf[o], p) # {}
  /\ SetterOwner(classOf[o], p) \notin useFastIvars
  /\ dict' = [dict EXCEPT ![o][SetterKey(p)] = ToStored(v)]
  /\ Answers(o, SetterKey(p), Nil)
  /\ UNCHANGED <<creationVars, classOf, hasDict, ivar>>

\* setInstanceProperty: setObject:forKey: to a nil dictionary does nothing
SetInDict(o, p, v) ==
  /\ SetterOwners(classOf[o], p) # {}
  /\ SetterOwner(classOf[o], p) \notin useFastIvars
  /\ dict' = IF o \in hasDict
             THEN [dict EXCEPT ![o][SetterKey(p)] = ToStored(v)] ELSE dict
  /\ Answers(o, SetterKey(p), Nil)
  /\ UNCHANGED <<creationVars, classOf, hasDict, ivar>>

-----------------------------------------------------------------------------
(* The specification                                                       *)

InstanceInit ==
  /\ CreationInit
  /\ classOf = [o \in Obj |-> Nil]
  /\ hasDict = {}
  /\ dict = [o \in Obj |-> [p \in Prop |-> Nil]]
  /\ ivar = [o \in Obj |-> [p \in Prop |-> Nil]]
  /\ answer = [to |-> Nil, name |-> Nil, value |-> Nil]

ObjectNext ==
  \/ \E o \in Obj, c \in Class : Alloc(o, c)
  \/ \E o \in Live, p \in Prop : GetFast(o, p) \/ GetFromDict(o, p)
  \/ \E o \in Live, p \in Prop, v \in Value \cup {Nil} :
        SetFast(o, p, v) \/ SetInDict(o, p, v)

InstanceNext == (CreationNext /\ UNCHANGED objectVars) \/ ObjectNext

InstanceSpec == InstanceInit /\ [][InstanceNext]_instanceVars

-----------------------------------------------------------------------------
(* Properties                                                              *)

\* Every variable has its type, and an object without a dictionary has no
\* entries in one.
InstanceTypeOK ==
  /\ classOf \in [Obj -> Class \cup {Nil}]
  /\ hasDict \subseteq Live
  /\ dict \in [Obj -> [Prop -> Stored \cup {Nil}]]
  /\ ivar \in [Obj -> [Prop -> Value \cup {Nil}]]
  /\ answer \in [to : Obj \cup {Nil}, name : Prop \cup {Nil}, value : Value \cup {Nil}]
  /\ \A o \in Live : classOf[o] \in Created
  /\ \A o \in Obj \ hasDict, p \in Prop : dict[o][p] = Nil

\* A getter that the runtime finds can do its work: the instance variable
\* exists ("this should never happen", Callbacks.m:101), and the walk to the
\* default value ends at the class whose accessor is running.
GetterFindsStorage ==
  \A o \in Live, p \in Prop :
    LET c == classOf[o] IN
    Understands(c, p) =>
      IF Owner(c, p) \in useFastIvars THEN p \in Ivars(c)
      ELSE HasProperty(c, p) /\ DefaultOwner(c, p) = Owner(c, p)

\* An object made by the allocator has a dictionary whenever one of its
\* properties is kept there, also a property an ancestor got long after.
DictionaryWhenNeeded ==
  \A o \in Live, p \in Prop :
    LET c == classOf[o] IN
    /\ chain[c] \cap allocator # {}
    /\ Understands(c, p)
    /\ Owner(c, p) \notin useFastIvars
    => o \in hasDict

\* A name an object understands is served by one class for ever: nothing
\* declared later, above or below, moves the property to another storage.
OwnerStable ==
  [][\A o \in Live, p \in Prop :
       Understands(classOf[o], p) =>
         /\ Understands(classOf[o], p)'
         /\ Owner(classOf[o], p)' = Owner(classOf[o], p)]_instanceVars

\* What a getter would find stored for p, if anything
View(o, p) ==
  IF ~Understands(classOf[o], p) THEN Unset
  ELSE IF Owner(classOf[o], p) \in useFastIvars THEN ivar[o][p]
  ELSE IF dict[o][p] = Nil THEN Unset
  ELSE FromStored(dict[o][p])

\* Once a property of an object is stored it changes only by a setter message
\* to that object: no class operation, new default, allocation or read does it.
StoredIsStable ==
  [][\A o \in Live, p \in Prop :
       View(o, p) # Unset /\ View(o, p)' # View(o, p) =>
         \E q \in Prop, v \in Value \cup {Nil} :
            /\ SetterKey(q) = p
            /\ SetFast(o, q, v) \/ SetInDict(o, q, v)]_instanceVars

\* The default that a class declares for a property its instances understand
DefaultOf(c, p) == FromStored(properties[Owner(c, p)][p])

\* What the getter of p would return now
Reading(o, p) ==
  IF ~Understands(classOf[o], p) THEN Unset
  ELSE IF View(o, p) # Unset THEN View(o, p) ELSE DefaultValue(classOf[o], p)

\* The store of the documentation: an object's slot is what its getter returns.
Store == INSTANCE PropertyStore WITH
  has <- [c \in Class |-> {p \in Prop : Understands(c, p)}],
  default <- [c \in Class |-> [p \in Prop |->
                IF Understands(c, p) THEN DefaultOf(c, p) ELSE Nil]],
  slot <- [o \in Obj |-> [p \in Prop |->
             IF o \in Live /\ Understands(classOf[o], p) THEN Reading(o, p) ELSE Nil]]

\* Every step on instances and classes is one the documentation allows.
ImplementsStore == Store!StoreSpec

\* The scripts for which the code keeps that promise.  They make objects of
\* classes that have the allocator (see ProxyParentIsLikeClass) and inherit no
\* default of a fast-ivar class (see DefaultsAreFilledIn), and they change a
\* default when every instance has the property stored: an object that was not
\* read before shows the new one (Callbacks.m:74), although "existing instances
\* will not be changed" (reference.html:198).
GetsDefaults(c) ==
  /\ chain[c] \cap allocator # {}
  /\ \A p \in Prop :
       Understands(c, p) /\ Owner(c, p) \in useFastIvars \ {c} => DefaultOf(c, p) = Nil

AllStored(c, p) ==
  \A o \in Live :
    Understands(classOf[o], p) /\ Owner(classOf[o], p) = c => View(o, p) # Unset

Careful ==
  /\ \A o \in Obj \ Live : classOf'[o] # Nil => GetsDefaults(classOf'[o])
  /\ \A c \in Class : \A p \in Declared(c) :
       properties'[c][p] # properties[c][p] => AllStored(c, p)

CarefulSpec == InstanceInit /\ [][InstanceNext /\ Careful]_instanceVars

-----------------------------------------------------------------------------
(* What the documentation and the tests say, and the code does not do      *)

\* There is a variable, or a dictionary, for the property
HasStorage(o, p) ==
  /\ o \in Live
  /\ Understands(classOf[o], p)
  /\ Owner(classOf[o], p) \in useFastIvars \/ o \in hasDict

\* "Test inheriting from a proxy - should be the same as inheriting from the
\* class" (inheritance2.test:91): instances keep what they are given.
ProxyParentIsLikeClass ==
  \A o \in Live, p \in Prop :
    Understands(classOf[o], p) /\ SetterKey(p) = p => HasStorage(o, p)

\* alloc is to "copy all the default values, including parent classes"
\* (Callbacks.m:38)
DefaultsAreFilledIn ==
  [][\A o \in Obj, c \in Class : Alloc(o, c) /\ chain[c] \cap allocator # {} =>
       \A p \in Prop : Understands(c, p) /\ SetterKey(p) = p =>
         Reading(o, p)' = FromStored(properties[Owner(c, p)][p])]_instanceVars
=============================================================================
