----------------------------- MODULE MCInstances -----------------------------
(* FSClassInstances with one or two objects and a chain of two or three classes *)
EXTENDS MCCreation, FSClassInstances

CONSTANTS o1, o2

\* Two scopes in one run: two created classes and two properties that share a
\* setter; and three created classes, one property and no value but nil
MCInstancesSmall ==
  /\ FSClass1 \in Runtime => B \in Runtime
  /\ \/ FSClass1 \notin Runtime
     \/ \A c \in Class : properties[c][foo] # v1 /\ properties[c][Foo] = Nil

\* As MCView, for what the objects are
MCInstancesView ==
  <<hierarchyVars, fsChain, properties, classCounter, objectVars>>
=============================================================================
