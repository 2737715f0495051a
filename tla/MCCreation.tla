----------------------------- MODULE MCCreation -----------------------------
(* FSClassCreation with one or two compiled classes and two or three names *)
EXTENDS FSClassCreation

CONSTANTS NSObject, TestBaseClass, A, B, FSClass1, foo, Foo, bad, v1

MCObjCChain ==
  [c \in ObjCClass |-> IF c = NSObject THEN {NSObject} ELSE {c, NSObject}]
MCAnonymousName == <<FSClass1>>
MCNoName == <<>>
MCLowerFirst == [p \in Prop |-> IF p = Foo /\ foo \in Prop THEN foo ELSE p]
MCUpperFirst == [p \in Prop |-> IF p = foo /\ Foo \in Prop THEN Foo ELSE p]

\* A and B are names alike: A is taken first, then B
MCInOrder == B \in Runtime => A \in Runtime

\* Two scopes in one run: hierarchies of all the classes without properties, and
\* properties declared in hierarchies of NSObject, A and B
MCSmall ==
  \/ \A c \in Class : Declared(c) = {}
  \/ Registered \subseteq {NSObject, A, B} /\ TestBaseClass \notin chain[A] \cup chain[B]

\* The report of the last call decides nothing: states that differ in it alone
\* are one
MCView == <<hierarchyVars, fsChain, properties, classCounter>>
=============================================================================
