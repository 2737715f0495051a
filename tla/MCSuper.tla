------------------------------- MODULE MCSuper -------------------------------
(* FSClassSuper: the definitions of MCMethods with nothing running, and a    *)
(* chain of up to three created classes, with a block each that calls super. *)
EXTENDS MCMethods, FSClassSuper

MCNothingCompiled == [side \in Side |-> [c \in ObjCClass |-> {}]]

\* Blocks of objects or blocks of classes, for one selector, in regular classes,
\* whose names are taken in order
MCSuperSmall ==
  LET used == {x \in Side \X Sel : \E c \in Class : methods[x[1]][c][x[2]] # Nil}
  IN /\ \A x, y \in used : x = y
     /\ used \subseteq Side \X {short, long}
     /\ GivenBlocks \subseteq {b1, Nil}
     /\ WithProperties = {}
     /\ useFastIvars = {}
     /\ FSClass1 \in Runtime => B \in Runtime
     /\ MCInOrder

\* Both scopes in one run: definitions, in up to two created classes, with no
\* call to super below; and chains of up to three with them
MCMessagesSmall ==
  \/ FSClass1 \notin Runtime /\ frames = <<>> /\ MCMethodsSmall /\ MCInOrder
  \/ MCSuperSmall

\* As MCView; and when nothing runs, the last message decides nothing
MCSuperView ==
  <<hierarchyVars, fsChain, properties, classCounter, messageVars,
    IF frames = <<>> THEN <<>> ELSE stackVars>>
=============================================================================
