----------------------------- MODULE MCLoading -----------------------------
(* ScriptLoading with two libraries: a may be in both, b in the first; and one
   absolute name *)
EXTENDS ScriptLoading

CONSTANTS home, work, a, b, slash, plain, usesB, forcesB, usesA

\* a may import b, or force it; b may import a, in turn
MCImports ==
  [t \in Text |->
     CASE t = plain -> <<>>
       [] t = usesB -> <<[name |-> slash, how |-> "import"], [name |-> b, how |-> "import"]>>
       [] t = forcesB -> <<[name |-> b, how |-> "force"]>>
       [] t = usesA -> <<[name |-> a, how |-> "import"]>>]
MCHolds ==
  [p \in Path |-> CASE p = <<home, b>> -> {plain, usesA} \cap Text
                    [] p[2] = a -> {plain, usesB, forcesB} \cap Text
                    [] OTHER -> {}]
MCLibraries == <<home>>
=============================================================================
