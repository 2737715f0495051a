---------------------------- MODULE PropertyStore ----------------------------
(***************************************************************************)
(* What the documentation promises of instance properties, whatever        *)
(* classes, dictionaries and instance variables hold them                  *)
(* (FSClass/Documentation/reference.html): a property has its default from *)
(* the moment the object is created (:148), changing a default leaves the  *)
(* objects that exist as they are (:198), a property declared later is     *)
(* there for existing objects too (:140; with its default, which the page  *)
(* leaves open), and only a setter changes a value.                        *)
(***************************************************************************)
CONSTANTS Obj, Class, Prop, Value,
          Nil      \* no class, no message, and nil: a value as any other

VARIABLES
  classOf,   \* object |-> its class, or Nil before it is created
  has,       \* class |-> the properties its instances have
  default,   \* class |-> property |-> what a new instance is given
  slot,      \* object |-> property |-> its value
  answer     \* the last message to an object: what it was about, its result

storeVars == <<classOf, has, default, slot, answer>>

Result == Value \cup {Nil}
Answers(o, p, v) == answer' = [to |-> o, name |-> p, value |-> v]

\* The properties an object has
Known(o) == IF classOf[o] = Nil THEN {} ELSE has[classOf[o]]

StoreInit ==
  /\ classOf = [o \in Obj |-> Nil]
  /\ has \in [Class -> SUBSET Prop]
  /\ default \in [Class -> [Prop -> Result]]
  /\ slot = [o \in Obj |-> [p \in Prop |-> Nil]]
  /\ answer = [to |-> Nil, name |-> Nil, value |-> Nil]

\* A new object has the defaults of its class
New(o, c) ==
  /\ classOf[o] = Nil
  /\ classOf' = [classOf EXCEPT ![o] = c]
  /\ slot' = [slot EXCEPT ![o] = [p \in Prop |->
                IF p \in has[c] THEN default[c][p] ELSE Nil]]
  /\ Answers(o, Nil, Nil)
  /\ UNCHANGED <<has, default>>

\* Classes get properties and new defaults.  Existing objects are given the
\* defaults of the properties they did not have; the others stay.
Redefine ==
  /\ UNCHANGED <<classOf, answer>>
  /\ has' \in [Class -> SUBSET Prop]
  /\ \A c \in Class : has[c] \subseteq has'[c]
  /\ default' \in [Class -> [Prop -> Result]]
  /\ slot' = [o \in Obj |-> [p \in Prop |->
                IF p \in Known(o)' \ Known(o) THEN default'[classOf[o]][p]
                                              ELSE slot[o][p]]]

Read(o, p) ==
  /\ p \in Known(o)
  /\ Answers(o, p, slot[o][p])
  /\ UNCHANGED <<classOf, has, default, slot>>

Write(o, p, v) ==
  /\ p \in Known(o)
  /\ slot' = [slot EXCEPT ![o][p] = v]
  /\ Answers(o, p, Nil)
  /\ UNCHANGED <<classOf, has, default>>

StoreNext ==
  \/ Redefine
  \/ \E o \in Obj, c \in Class : New(o, c)
  \/ \E o \in Obj, p \in Prop : Read(o, p)
  \/ \E o \in Obj, p \in Prop, v \in Result : Write(o, p, v)

StoreSpec == StoreInit /\ [][StoreNext]_storeVars
=============================================================================
