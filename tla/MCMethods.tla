------------------------------ MODULE MCMethods ------------------------------
(* FSClassMethods with a selector of few and one of many arguments, and the  *)
(* accessors of one property                                                 *)
EXTENDS MCCreation, FSClassMethods

CONSTANTS b1, b2, short, long, getFoo, setFoo

MCCompiled ==
  [side \in Side |-> [c \in ObjCClass |-> IF side = "instance" THEN {short} ELSE {}]]
MCGetter == [p \in Prop |-> getFoo]
MCSetter == [p \in Prop |-> setFoo]

WithBlocks(side) == {s \in Sel : \E c \in Class : methods[side][c][s] # Nil}
GivenBlocks == {methods[side][c][s] : side \in Side, c \in Class, s \in Sel}
WithProperties ==
  {side \in Side : \E c \in Class :
     IF side = "instance" THEN Declared(c) # {} ELSE ClassDeclared(c) # {}}

\* The scopes of the run: methods or properties of the classes, or those of the
\* metaclasses; blocks for the short selector, or for the long one, or properties
\* in three classes, or properties and blocks for their accessors in two.  Of the
\* two blocks, which are alike, b1 is given first.
MCMethodsSmall ==
  LET used == UNION {WithBlocks(side) : side \in Side}
      noValue == \A c \in Class : v1 \notin {properties[c][foo], classProperties[c][foo]}
  IN /\ \E side \in Side : WithBlocks(side) = {} /\ side \notin WithProperties
     /\ b2 \in GivenBlocks => b1 \in GivenBlocks
     /\ \/ used = {} /\ noValue
        \/ WithProperties = {} /\ (used = {short} \/ used = {long})
        \/ used \subseteq {getFoo, setFoo} /\ b2 \notin GivenBlocks /\ B \notin Runtime

\* As MCView, for what the methods are
MCMethodsView ==
  <<hierarchyVars, fsChain, properties, classCounter, messageVars>>
=============================================================================
