----------------------------- MODULE RegexTrees -----------------------------
(* The patterns whose meaning the runs compare the answers with.              *)
EXTENDS PatternMeaning

-----------------------------------------------------------------------------
(* Repeats of every item before every other, the tests of which are made     *)
(* while the pattern is compiled.                                           *)
Quantifiers == {<<"*", 0, Unlimited>>, <<"+", 1, Unlimited>>, <<"?", 0, 1>>,
                <<"{2}", 2, 2>>, <<"{1,2}", 1, 2>>, <<"{0,2}", 0, 2>>}
Repeated(part, q, suffix) == Rep(part, q[1], q[2], q[3], suffix)

Word   == Cbit("word")
Items  == {Str("a"), AnyOf("[ab]", {97, 98}), AnyOf(".", Byte \ {LF}),
           AnyOf("\\w", Word), AnyOf("[^a]", Byte \ {97})}
Nexts  == {Str("b"), Str("a"), Place("$"), AnyOf("\\W", Byte \ Word), Place("\\b")}
Singles == {Cat(<<Repeated(item, q, suffix), next>>) :
              item \in Items, q \in Quantifiers, suffix \in {"", "?", "+"},
              next \in Nexts}

\* Groups that may match nothing, or as much as a later alternative.
Bodies == {Alt(<<Str("a"), Str("ab")>>), Alt(<<Str("ab"), Str("a")>>),
           Alt(<<Cat(<<>>), Str("b")>>),
           Repeated(Str("a"), <<"*", 0, Unlimited>>, ""),
           Alt(<<Repeated(Str("a"), <<"?", 0, 1>>, "?"), Str("b")>>)}
Groups == {Cat(<<Repeated(g, q, suffix), next>>) :
             g \in {Group(1, b) : b \in Bodies}, q \in Quantifiers,
             suffix \in {"", "?", "+"}, next \in {Str("b"), Place("$"), Ref(1)}}

\* Assertions, atomic groups, calls and conditions.
A == Str("a")
B == Str("b")
AStar == Repeated(A, <<"*", 0, Unlimited>>, "")
OptA  == Repeated(Group(1, A), <<"?", 0, 1>>, "")
Special ==
  {Cat(<<Atom(Alt(<<A, Str("ab")>>)), B>>), Cat(<<Look(AStar), B>>),
   Cat(<<LookNot(B), AnyOf(".", Byte \ {LF}), B>>),
   Cat(<<Back(Alt(<<A, Str("bb")>>)), B>>), Cat(<<BackNot(A), B>>),
   Cat(<<OptA, IfSet(1, B, Str("bb"))>>),
   Cat(<<Group(1, Alt(<<A, Cat(<<B, CallOf(1), B>>)>>)), Place("$")>>),
   Cat(<<CallOf(1), Group(1, Alt(<<A, B>>))>>),
   Cat(<<Repeated(CallOf(1), <<"+", 1, Unlimited>>, ""), Group(1, B)>>),
   Cat(<<Place("^"), Group(1, Cat(<<A, Repeated(CallOf(1), <<"?", 0, 1>>, ""), B>>))>>),
   Cat(<<Repeated(Plain(Cat(<<Group(1, A), Group(2, Repeated(B, <<"?", 0, 1>>, ""))>>)),
                  <<"+", 1, Unlimited>>, ""), Ref(2), Place("$")>>),
   Alt(<<Cat(<<A, B>>), Cat(<<A, A>>), B>>),
   Repeated(Plain(Alt(<<Str("ab"), A>>)), <<"{2}", 2, 2>>, "")}

Trees == Singles \cup Groups \cup Special
Subjects == {Bytes(t) : t \in {"", "a", "aab", "bab", "abb", "a b"}}
Asked(tree, options) ==
  [pattern |-> TextOf(tree), options |-> options, newline |-> "none", bsr |-> "none",
   tree |-> tree]
=============================================================================
