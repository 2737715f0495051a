----------------------------- MODULE RegexItems -----------------------------
(* Patterns for every item of the language, and what they are asked, where    *)
(* the meaning of trees does not reach: options, conventions for newlines,   *)
(* UTF-8, names, verbs, callouts, limits, and patterns that are refused.     *)
EXTENDS PcreLex, SequencesExt

Item0 == [pattern |-> <<>>, options |-> {}, newline |-> "none", bsr |-> "none",
          subject |-> <<>>, asked |-> {}, start |-> 0, offsets |-> 30, limit |-> 500,
          depth |-> 200]
Of(pattern, subject) == [Item0 EXCEPT !.pattern = Bytes(pattern), !.subject = Bytes(subject)]
With(options, items) == {[i EXCEPT !.options = options] : i \in items}
Asking(asked, items) == {[i EXCEPT !.asked = asked] : i \in items}
Raw(options, pattern, subject) ==
  [Item0 EXCEPT !.options = options, !.pattern = pattern, !.subject = subject]
Newlines == <<97, 10, 98, 13, 10, 97>>         \* a LF b CR LF a
E_acute == <<195, 169>>
Lambda  == <<206, 187>>

Groups0 == {
  Of("(ab)??b", "abb"), Of("(a|b)*?b", "ab"), Of("(a|b?)*?c", "abc"), Of("(a?)*?b", "ab"),
  Of("(a|b*)*c", "abc"), Of("(a){0}b(?1)", "ba"), Of("(?>ab)*c", "ababc"),
  Of("(?>a|ab)*?c", "aabc"), Of("(?:ab)++c", "ababc"), Of("((a)|b){2,3}", "abab"),
  Of("(?|(a)|(b)(c))(d)", "bcd"), Of("(a)(?=b(c))?", "abc"), Of("(?!a|b)c", "ac"),
  Of("(?<!ab|c)d", "abdd"), Of("(?<=ab|c)d", "abdcd"), Of("a(?#c)b", "ab"),
  Of("(?>a(?i)b)+c", "aBaBc"), Of("(?:a|(?i)b)?c", "Bc"), Of("a{2}b{1,}c{0}", "aab")}

Verbs0 == {
  Of("a(*COMMIT)b|a", "aab"), Of("a(*PRUNE)b|a", "aab"), Of("a+(*SKIP)b|a", "aaac"),
  Of("(?:a(*THEN)b|ac)d", "acd"), Of("(a(*ACCEPT)b)c", "ab"), Of("a(*F)|b", "ab"),
  Of("a(?!)|b", "ab"), Of("a|(?!)*b", "b"), Of("(a(*ACCEPT)(?1))b", "aab"),
  Of("(*SKIP)[ab]c", "abc"), Of("a(*XX)b", ""), Of("a(*THEN:x)b", "")}

Callouts0 == {Of("a(?C5)b(?C)c", "abc"), Of("a(?C256)", ""), Of("a(?Cb)", "")}
             \cup With({"AUTO_CALLOUT"}, {Of("a+b", "ab")})

Calls0 == {
  Of("(a|b(?1)c)+", "bac"), Of("(?R)?a", "a"), Of("a(?R)?b", "aabb"), Of("(?+1)(a)", "aa"),
  Of("(a)(?-1)b", "aab"), Of("(?1)*(a)(b)", "aab"), Of("(?:(?2)(a))+(b)", "bab"),
  Of("(?(DEFINE)(a))(?1)b", "ab"), Of("(?(R)a|b(?R))", "ba"), Of("(b(?(R1)a|(?1)))", "bba"),
  Of("(?<n>b(?(R&n)a|(?&n)))", "bba"), Of("(?(?=a)ab|c)", "ab"), Of("(?(?!a)b|ac)", "ac"),
  Of("(a)?(?(1)b|c)", "ab"), Of("(?:(?(?=b)b|a?))*c", "abac"), Of("(a)(?(-1)b)", "ab"),
  Of("(?(+1)a)(b)", "ab"), Of("((?1))", ""), Of("(?1)(b)++", "bb"), Of("(?:(?1)(b))++", "bb")}

Names0 == {
  Of("(?P<n>a)(?P=n)(?P>n)", "aaa"), Of("(?'n'a)\\k'n'\\g{n}", "aaa"),
  Of("(?<n>a)\\k<n>\\g<n>\\g'1'\\g<-1>", "aaaaa"), Of("(?<n>a)?(?(<n>)b|c)(?(n)d|e)", "abd"),
  Of("(?&n)(?<n>a)", "aa"), Of("(?<b>x)(?<a>y)(?('a')z)", "xyz"),
  Of("(?<b>x)(?<ab>y)(?<c>z)(?<a>w)", "xyzw")}
  \cup With({"DUPNAMES"}, {Of("(?<n>a)|(?<n>b)", "b")})
  \cup With({"NO_AUTO_CAPTURE"}, {Of("(a)(?<n>b)\\1", "abb")})

Escapes0 == {
  Of("\\Aa\\b\\Bb|\\Ga\\Z\\z", "a"), Of("a\\Kb", "ab"), Of("\\h\\H\\d\\D\\s\\S\\w\\W", " a1a aa "),
  Of("\\R\\v\\V", "a"), Of("\\x41\\101\\e?\\cA?\\x{62}\\q", "AAbq"), Of("\\Qa.\\Eb", "a.b"),
  Of("(a)\\1\\g1\\g{-1}", "aaaa"), Of("\\C+", "ab"), Of("(a)|b\\1", "b"), Of("\\S++\\s*+\\w{2}", "a bb")}

Classes0 == {
  Of("[[:alpha:][:^digit:]]+", "a1"), Of("[\\d\\S\\h]+?$", "1 "), Of("[^\\Dx]*", "12"),
  Of("[\\Qa]\\E-c]+", "]b"), Of("[]a-c\\x64]{1,3}", "]abd"), Of("[a]b[^b]c", "abac"),
  Of("[\\b\\R]", "R")}
  \cup With({"CASELESS"}, {Of("[^a]?[b-d][[:lower:]]", "xCD"), Of("a\\x42c*[^d]{2,}", "ABCXX"),
                           Of("(a)\\1", "aA"), Of("[^a]+?b", "xxB")})

Ends0 == With({"MULTILINE"}, {Raw({}, Bytes("^b$"), Newlines), Raw({}, Bytes(".*$"), Newlines)})
  \cup {Raw({"DOTALL"}, Bytes(".*b"), Newlines), Raw({}, Bytes(".*?b"), Newlines),
        Raw({"FIRSTLINE"}, Bytes("b|a$"), Newlines), Raw({"DOLLAR_ENDONLY"}, Bytes("a$"), <<97, 10>>),
        Raw({}, Bytes("(*CRLF)^a.+\\Z"), Newlines), Raw({}, Bytes("(*ANY)(*BSR_ANYCRLF)a\\R"), Newlines),
        Raw({"MULTILINE"}, Bytes("(*ANYCRLF)^a"), Newlines), Raw({}, Bytes("(*CR)b."), Newlines),
        Raw({}, Bytes("(*ANYCRLF).{3}"), Newlines),
        Raw({"EXTENDED"}, Bytes("a b # c") \o <<10>> \o Bytes("[ c]"), Bytes("ab "))}
  \cup Asking({"NOTBOL", "NOTEOL"}, {Of("^a|b$", "ab")})
  \cup Asking({"NOTEMPTY"}, {Of("a*", "b"), Of("a?b??", "ba")})
  \cup Asking({"ANCHORED"}, {Of("b", "ab")})
  \cup {[Of("a|b", "ab") EXCEPT !.start = 1], [Of("a", "b") EXCEPT !.newline = "crlf"]}

Utf8s0 == With({"UTF8"}, {
  Raw({}, Bytes("[^a]") \o E_acute \o Bytes("+?\\w*"), Lambda \o E_acute \o E_acute),
  Raw({}, Bytes("\\W+") \o Lambda, Lambda \o Lambda), Raw({}, Bytes("[\\x{100}-\\x{3ff}b]*$"), Lambda),
  Raw({}, Bytes("[^\\x{3bb}]|a"), Lambda), Raw({}, Bytes("(?<=.)") \o E_acute, Lambda \o E_acute),
  Raw({}, Bytes("\\x{3bb}{2}?\\S"), Lambda \o Lambda \o E_acute), Raw({}, E_acute, <<195>>),
  Raw({}, <<195>>, <<>>), Raw({}, Bytes("(?<=\\C)a"), <<>>),
  Raw({}, Bytes(".{2}\\h*"), E_acute \o Lambda)})
  \cup With({"UTF8", "CASELESS"}, {Raw({}, Bytes("[^z]*[B-D]") \o E_acute, Lambda \o Bytes("c") \o E_acute)})
  \cup {[Raw({"UTF8"}, Bytes("a"), E_acute) EXCEPT !.start = 1]}

Limits0 == {[Of("(a*)*b", "aaaa") EXCEPT !.limit = 20], [Of("(a|b)*c", "ababc") EXCEPT !.depth = 5],
            [Of("(a)(b)\\2", "abb") EXCEPT !.offsets = 3], [Of("(a)(b)", "ab") EXCEPT !.offsets = 4],
            [Of("a", "a") EXCEPT !.offsets = 0], [Of("a", "a") EXCEPT !.offsets = -1],
            [Of("a", "a") EXCEPT !.asked = {"MULTILINE"}],
            [Of("(a)|(b)", "b") EXCEPT !.offsets = 6]}

Refused0 == {Of(p, "") : p \in {
  "*a", "a{2,1}", "(a", "a)", "[a", "(?#a", "(?<=a+)b", "(?<=a+|b)c", "\\2(a)", "[:a:]", "[[:foo:]]", "[[.a.]]",
  "[b-a]", "(?P>)", "(?<n", "(?<a>a)(?<a>b)", "\\g{1", "\\g{0}", "(?+a)", "(?1a)", "(?-a)",
  "(?<?a)", "(?Px)", "(?(0)a)", "(?()a)", "(?(1a)", "(?(9)a)", "(?(a)b)", "(?(1)a|b|c)(d)",
  "(?(DEFINE)a|b)", "(?(DEFINE)a)+", "\\X", "\\u", "\\", "\\g<a", "\\400", "(?9)", "(?-1)", "(?(+0)a)",
  "(?<aaaaaaaaaaaaaaaaaaaaaaaaaaaaaaaaa>a)", "(?z)", "a**", "a{65536}"}}
  \cup With({"EXTRA"}, {Of("[\\B]", ""), Of("\\j", "")})
  \cup With({"JAVASCRIPT_COMPAT"}, {Of("a]b", ""), Of("[]a", ""), Of("[^]\\1()", "aa")})
  \cup With({"PARTIAL"}, {Of("a", "")}) \cup {[Of("a", "") EXCEPT !.newline = "bad"]}

LanguageItems == Groups0 \cup Verbs0 \cup Callouts0 \cup Calls0 \cup Names0 \cup Escapes0
         \cup Classes0 \cup Ends0 \cup Utf8s0 \cup Limits0 \cup Refused0
=============================================================================
