# A verification development for FSClass and fscript-CLI

The repository holds two Objective-C programs for the F-Script language. **FSClass**
is a bundle that lets a script create Objective-C classes at run time: classes,
instance and class properties, methods given by blocks, calls to `super`.
**fscript-CLI** runs scripts from the command line and adds files, regular
expressions, `sprintf`, `import:`, command execution and an interactive interpreter;
its regular expressions are those of **PCRE 7.8**, whose source is part of it and is
compiled into it. This directory holds TLA+ models of their core, the TLC configurations
that check the models on small instances, and TLAPS proofs for all instances.

Both programs are sequential: one thread, no locks, nothing persisted. Their hard
part is *order*. The same classes made, proxied, given properties and methods in
another order must behave alike; two records of the same fact (the runtime's and
FSClass's) must stay in step; a value that is read lazily, or a text that is read
through a buffer, must be what it would have been without the laziness and the buffer.
In the regular expressions the hard part is that one meaning is computed in many ways: a
pattern is read twice, compiled to one of several forms, its search is cut short by what
the compiler found out, and two matching functions, a partial match and a loop over
matches must all agree with what the pattern means.
The exceptions to "sequential" are outside: other processes append to files, and the
child of `exec:` runs beside its parent.

## 1. Inventory

### FSClass

| part | state | operations | what makes it correct |
|---|---|---|---|
| **class creation and registration** (`FSClassCreation.m`, the init methods of `FSClass.m`, dispatched from `MethodImplementations.m`) | statics `classDefinitions`, `classNamesByPointer`, `classCounter`; per class `parentClass`, `hasIvarDictionary`, `useFastIvars`, `parentAllocImp`, `properties` | `newClass…` in seven forms, `shadowForClass:` (a proxy for a compiled class, made by any introspection message), `addProperty…`, `setDefaultValue:forProperty:`, `subclass` | the chain of `parentClass` pointers agrees with the runtime's superclasses; the allocator has something to call; one dictionary variable per object; nothing registered twice; no name declared twice along a chain |
| **instances and their properties** (`Callbacks.m:25-139`) | per object: the dictionary variable or one variable per fast property | `alloc`, getters, setters | the accessor that runs finds its storage; what is stored stays; a default is taken once, at the first read |
| **methods, blocks, class properties** (`FSClass.m:282-487, 720-794`, `Callbacks.m:150-325`) | the runtime's method tables; `methods`, `classMethods`, `classProperties` | `onMessage:do:`, `onClassMessage:do:`, `addClassProperty:…`, message sends | the two records of methods agree; the nearest block runs; accessors exist; looking never changes anything |
| **super calls** (`Callbacks.m:330-575`) | the stack of running blocks | `doSuperMethod:currentClass:…` with 0 to 5 arguments or an array | a call goes up from the class whose block makes it |
| **trampolines** (`Trampoline.m`, `trampolines/`) | generated machine code per block | `createTrampoline…` | arguments arrive shifted by one, for every number up to the limit (3 on x86-64, 5 elsewhere) |
| **introspection** (`FSClass.m:505-700`) | none of its own | `methods`, `allMethods`, `classMethodNames`, … | lists what there is; its one side effect is the proxy |

`FSClassCreation` calls the runtime (`objc_allocateClassPair`, `class_addMethod`, …);
the runtime calls back (`allocator`, accessors, `runInstanceMethodArgs<N>`), and the
callbacks ask the FSClass objects again. Everything is coupled through two hierarchies:
the runtime's superclasses and FSClass's `parentClass` pointers.

### fscript-CLI

| part | state | operations | hard behaviours, and what would be correct |
|---|---|---|---|
| **files** (`FSFile.m`) | the handle's offset, `sustainBuffer` | `open:`, `open:mode:`, `readln…`, `readlines…`, `print…`, `reset`, wrappers of `NSFileHandle` | lines are put together from a buffer and chunks of 99 bytes, while others append: the text is split at its separators, nothing lost, nil at the end |
| **standard input** (`FSFileStdin.m`) | `buffer` | `readlnWithSeparator:` | whatever pieces the input comes in, the same promise; at the end, nil |
| **script loading** (`Functions.m`, `FSSystemUtility.m:25-118`, `fscript.m`) | `loadedFiles`, `fileModTimes`, `repositoryPaths` | `import:`, `import:force:`, `loadFile`, start-up | a file that did not change is not run again, one that failed or changed is |
| **command execution** (`FSSystemUtility.m:127-195`) | a task and two pipes | `exec:args:input:` | parent and child never wait for each other |
| **interactive interpreter** (`interpreter.m`) | the unfinished input, the stack of open brackets | prompt loop, `findNestings` | a line is complete when its brackets are; any depth of them |
| **regular expressions** (`FSRegex.m`, `StringRegex.m`) | an enumerator's range and the matches found | `findAllInString:`, `matches:`, `captures:`, `split:`, `replace:with:`, `replace:withBlock:` | empty matches advance; each match is found once; the pieces put together are the text |
| **sprintf** (`StringSprintf.m`) | a growing buffer, the index of the next value | one parser loop | widths, precisions, values that run out |
| **small utilities** | none | one-expression wrappers | – |

### PCRE (`fscript-CLI/pcre-7.8`)

| part | state | operations | what makes it correct |
|---|---|---|---|
| **compiling** (`pcre_compile.c`) | the place in the pattern, the code written, a stack of branches and groups, `compile_data` | `pcre_compile2` | two passes agree on the groups; the code means what the pattern says; what is derived (first byte, required byte, possessive repeats) excludes no match |
| **study** (`pcre_study.c`) | none | `pcre_study` | the set of first bytes has every byte a match can begin with |
| **matching** (`pcre_exec.c`) | the start, the place of the required byte, `match_data`, the stack of `match()` | `pcre_exec`, `match` | the preferred match from the first start that has one, with its groups; partial matches are recognised; limits hold; it ends |
| **DFA matching** (`pcre_dfa_exec.c`) | two lists of states, a working space kept by the caller | `pcre_dfa_exec` | all matches from a start, the longest first; a match goes on over segments |
| **information** (`pcre_fullinfo.c`, `pcre_get.c`) | none | number of groups, group by name | a name is found where the compiler has put it |

`FSRegex` compiles a pattern once, asks for the number of groups, and calls `pcre_exec`
once for each match; a name in a replacement string is looked up with
`pcre_get_stringnumber`. It does not call `pcre_study` or `pcre_dfa_exec`; other clients
of the library do, and they are modelled as such.

PCRE's own programs (`pcretest`, `pcregrep`), its POSIX and C++ wrappers, `Installer/` and
`fs-examples/` are nothing `fscript` runs.

The hazards, each at its line and with the properties that would catch it, are listed
in `PROJECT.json`.

## 2. Modules

```
PropertyStore   <-implements-  FSClassInstances --EXTENDS--> FSClassCreation
                               FSClassSuper --> FSClassMethods --EXTENDS--> FSClassCreation
FSClassSuperProofs -> FSClassInstancesProofs    (each also EXTENDS its model; the proofs about
                                                 methods and about creation are in them)
LineSource      <-implements-  FSFile <- FSFileProofs -> RecursionLemmas
ScriptLoading   <- ScriptLoadingProofs

PcreChars <- PcreCode <- PcreTypes, PcreLex, PcreScan, PcreStudy      (operators)
PcreCompile -> PcreLex, PcreScan        PcreExec, PcreDfa -> PcreTypes
Regex     = PcreCompile, PcreStudy (as instances), PcreExec
FSRegex   -> Regex                      RegexDfa -> Regex, PcreDfa
RegexClients -> FSRegex, RegexDfa
SubjectProofs -> MatchProofs -> RegexProofs -> FSRegex, RecursionLemmas
PatternMeaning <- RegexTrees            RegexItems

MCCreation, MCInstances, MCMethods, MCSuper, MCFiles, MCLoading, MCRegex:
  constants and scopes for TLC
```

A definition marked as a *mutant* is a plausible bug. Nothing uses it: it is there to be
substituted for the definition after it, to see a property fail.

### FSClassCreation

A class *is* its name, since the runtime never has two class pairs of one name.
`chain[c]` is the set of `c` and its superclasses, empty while there is no such class;
`fsChain[c]` is `c` and the classes reached through `parentClass`, empty while `c` has
no FSClass object. Sets are enough because a chain is a line (invariant `ChainIsLine`);
`Nearest(c, S)` is the first member of `S` on the way up, which is what the code's
walks and the runtime's dispatch find. The remaining variables are the fields of the
same name; `outcome` reports the last call.

`NewClass`, `NewAnonymousClass`, `NewFastClass` are the creation methods with their
checks in the code's order, errors included; `Reflect` is any message that only makes a
proxy; `AddProperties` is the loop over a list of declarations, which leaves what came
before the failing entry; `RefuseProperties`, `SetDefaultValue` and `Subclass` are the
rest. Names are abstracted to model values, with `IllFormed` names and the case
variants of a name (`LowerFirst`, `UpperFirst`) as far as the checks tell them apart.

### FSClassInstances and PropertyStore

`Alloc`, `GetFast`, `GetFromDict`, `SetFast`, `SetInDict` are the callbacks. Which of
them runs for a message is decided by the runtime, hence by the nearest class that
declared the name (`Owner`), or one of its case variants, since `foo` and `Foo` share
a setter. An object of a class without the allocator has no dictionary, and messages to
a nil dictionary do nothing. Dictionary entries may be `Nil` (none) or `NSNull` (the
value nil).

`PropertyStore` is the documented behaviour (reference.html:140, 148, 198): a new object has
the defaults of its class; a default changed later leaves existing objects as they are; a
property declared later is there for them too, with its default; only a setter changes a value.
It knows no dictionaries and no first reads. The refinement maps an object's slot to what its
getter would return now (`Reading`). The code implements the store only for some scripts, which
`CarefulSpec` describes: their objects are made of classes that have the allocator, inherit no
default from a fast-ivar class, and have a property stored before its default changes. Each of the
three conditions is needed: runs `proxy_parent` and `inherited_defaults`, and for the third the default
that shows in objects not read before (section 3).

### FSClassMethods

`imp[side][c][s]` is the function in the runtime's own table of a class or metaclass:
a trampoline (which holds one block, so it *is* the block), an accessor, a compiled
method, or the function that looks the block up. `methods` is FSClass's record.
`OnMessage` is `onMessage:do:` with the `class_addMethod`-or-replace rule of
`_installMethod`; `Send` is a message whose block is looked up, whose side effect is a
proxy; `CreationStep` is a step of FSClassCreation together with the accessors that the
same call installs.

### FSClassSuper

A message and the blocks it runs, as a stack of the classes the blocks belong to.
`SuperWith` (0 to 5 arguments) sends to the superclass of the class the block names;
`SuperMulti` (an array of arguments) does so for selectors of trampolines, and looks
the block up from the parent of the *receiver's* class for others. Blocks are running
while classes and methods change underneath, as scripts may do.

### FSFile and LineSource

`data` is the file on disk, `offset` the handle's pointer, `sustainBuffer` the text read
and not returned. A `readln` is a call (`Readln`), the search in the buffer
(`SearchBuffer`), chunks (`ReadChunk`), and the end (`EndOfFile`), since other processes
may append (`Grow`) in between; `Readlines` is the loop around it. What
`stringWithCString:` and `strstr` do to zero bytes and to characters cut in two is in
`CString` and `IsUTF8`; that a separator found in a chunk is skipped by as many bytes as it has
characters (FSFile.m:328, 362) is in `Behind`. Opening, printing and the wrapped `NSFileHandle` methods are
actions of their own, between calls. Two things are assumed of the libraries: `strcpy`
within one buffer (FSFile.m:362) copies forward, and the file pointer is not moved by
others.

`LineSource` is the promise of FSFile.h: there is a text left to read; a line is what is
before its next separator. The mapping takes for that text the buffer followed by what
the handle has not read. Moving the file pointer puts the rest at some place of the
file; printing overwrites one piece of what is left.

### ScriptLoading

The loads in progress are a stack, since a script that runs may import another. A load is
in one of the steps of `import:force:` and `loadFile` between which the file system may
change: the date is to be checked, the file to be read, its existence to be checked
again, the script runs. `disk` is the file system, changed by anybody at any time;
`edited` has the paths of files written in place, which keep the date they were created at, the
one the code asks for; `fileModTimes` is import's cache; `loaded` is the file, date and text, that
the interpreter ran last from a path. A script is the list of its imports. It may fail at any point, and `Raise` unwinds the
scripts that wait up to one that catches the exception. Every `loadFile` on the way looks up
the line of the error in its own script, which a 64-bit build may not survive (step
"locate").

Assumed of the outside: a file that replaces another has a later date. That leaves out
files moved over others with a date of long ago, and two replacements within the
resolution of the dates.

### The regular expressions

*Data.* A subject or a pattern is a sequence of bytes, and a position an offset from 0
(`PcreChars`). The compiled code is a sequence of records, one for an opcode with its
operands (`PcreCode`); a link counts instructions where the code counts bytes. The
families of single-item repeats are one opcode each with the kind of repeat as a field.
`PcreTypes` has the tests of the character types in each of the copies the code makes of
them: the single item, and the minimum, lazy and greedy part of a repeat, each for bytes
and for UTF-8. They are *not* the same in the code, so they are not one operator here.

*PcreCompile* is `pcre_compile2` with `compile_regex` and `compile_branch`: a step reads
one item of the pattern. The recursion of `compile_regex` is the stack `outer`;
the variables `branch`, `class` and `group` are the locals of the three functions. Both
passes write code and start with nothing. `PcreLex` is what looks at the pattern only (escapes, counts, POSIX
names, `find_parens`, the look ahead that makes a repeat possessive), `PcreScan` what
looks at code already written (`find_bracket`, `find_fixedlength`, `could_be_empty`,
`is_anchored`, `find_firstassertedchar`, and the adjustment of calls when a group is wrapped).

*PcreExec* makes the recursion of `match()` explicit, as the code itself does when it is
built with `NO_RECURSE`: `frame` holds the locals of the running `match()`, `frames` those
of its callers, `rrc` says whether it is entered, runs, or has returned. A step is one
instruction, or what a caller does on a return, named by the `RM…` number or the place in
the code it returns to. Around it are the loop of `pcre_exec` over the starts (`Scan`,
`MatchReturned`) and the checks of the arguments (`Call`).

*PcreDfa* is a function of a call and its working space, as `pcre_dfa_exec` does nothing
between its calls; *RegexDfa* is its client, which matches a text in segments.
*FSRegex* is the enumerator, a step for each call of `pcre_exec` and each answer, and the
methods built on it. *Regex* puts compiler, study and matcher together, and
*RegexClients* the three clients.

*PatternMeaning* is the abstract specification: a pattern is a tree, and its meaning on a
subject the sequence of its matches in the order a Perl-like engine prefers them. It knows no code, no frames and no shortcuts.
`TextOf` writes the tree as the pattern the compiler gets. `RegexTrees` has the trees of the run, `RegexItems` patterns for the rest of the
language (options, newline conventions, UTF-8, names, verbs, callouts, limits, errors), which
have no tree and are there for the properties that need none.

## 3. What the runs show

| run | question | bounds |
|---|---|---|
| `creation` | do the two hierarchies stay consistent, and properties unique, in every order of creation, proxying and declaration? | two compiled classes, three names; chains of up to five classes without properties; properties in hierarchies of three classes, lists of two |
| `instances` | does every accessor find its storage, and does storage stay? | one object; two names, of which the case variants share a setter, in two created classes, or one name in three |
| `store` | do objects and classes implement `PropertyStore`, for the scripts of `CarefulSpec`? | two objects, two created classes, one property |
| `messages` | do the two records of methods and the accessors agree with what runs, and does a super call go up from every level, while blocks change? | two blocks, a selector with a trampoline, one without, a getter and a setter; up to two created classes with every definition, three with a block each; four frames |
| `imports` | is what is passed over the file that was run (or one edited in place since), is none loaded within itself, and does every load end, while files change in the middle of a load? | a file in one of two libraries or both, another in the first; three dates; imports of each other, forced ones in one direction |
| `files` | is the buffered reader a line source, also when the file grows and the pointer moves, and does every call end? | files of up to five bytes, chunks of two, two separators of one byte |
| `regex` | do compiler, study and both matchers, whole or partial, with all their shortcuts, answer what the pattern means; does every call end within its limits, in the code and in the subject; does the loop over matches find each once? | some 730 trees on six subjects (four with a partial match), segments up to three characters, 181 items of the language, all methods of FSRegex with 12 replacement strings |

Why these bounds are enough: a rule in the class code looks at a class, its parent and
the nearest class above with some trait; a chain of a compiled class, a class with one
treatment, one with the other and one below them has every adjacent pair of cases, and a
fourth created class repeats one. For loads, three dates are the one recorded, the one
read and the one found afterwards; two files that import each other are the shortest
cycle, and a third only lengthens it. Two properties are needed for case variants and for lists that
fail in the middle; two blocks for replacing one. A file of five bytes has two full
chunks and a short one, so a line may begin in the buffer, span a chunk and end in a
third, or end exactly with one. For patterns the trees are made systematically where the
compiler or the matcher compares two neighbours: every kind of item in every repeat (greedy,
lazy, possessive) before every kind of follower, which is what the automatic possessive
repeats and the first and required bytes depend on; every repeat of groups that may match
nothing or the beginning of a later alternative; assertions, atomic groups, references, calls
and conditions around each other. The subjects have each item met, not met, met at the end and
met again. A subject of three bytes has a repeat that gives back twice. A partial match is
compared with every continuation by up to two characters.

The scopes are state constraints (`MCSmall`,
`MCInstancesSmall`, `MCMethodsSmall`, `MCSuperSmall`, `MCMessagesSmall`), each a union of smaller ones; the
comment above each says which combinations it keeps. Names that are alike are taken in
order (`MCInOrder`), which is symmetry reduction by hand. The views leave out the report
of a creation call and, in `MCSuper`, the stack variables while nothing runs: no guard
and no property of states reads them there.

Deadlock is checked in all runs but `imports`, where the system does stop (`fscript` exits
after its script), and `regex`, where it stops when the call has been answered. Fairness
occurs in `FSFile`, `ScriptLoading` and `RegexClients`: a call, a load, or the loop over the
matches that began is carried on (`WF(Reading)`, `WF(Proceed)`, `WF(Execute)`,
`WF(Enumerate)`), which holds as the script's thread does nothing else; nothing is assumed of what scripts do or of other processes. A file that others extend for ever could
keep `readlines` busy for ever; `MaxText` bounds the growth, so `CallsEnd` is about a
file that stops growing. In the same way `MaxDate` makes `LoadsEnd` a statement about
files that are not replaced for ever; and no script of the run forces an import of
itself, which would never end. No other module has something that must eventually happen: each call is
one step.

### Where the code does not do what it says

Five runs end in a counterexample to a sentence of the documentation, a comment or a
test; the findings in `PROJECT.json` quote the sentences.

* `proxy_parent`: once a compiled class has a proxy, classes made below it get no
  allocator, and their instances silently lose every property value.
* `inherited_defaults`: the allocator reads one class's defaults again and again instead
  of walking up, so that an instance of a subclass of a fast class starts with nil.
* `replaced_methods`: a block given for a selector the class has an accessor or compiled
  method for is recorded and never run.
* `super_long`: an inherited block of that many arguments that calls super with an array
  calls itself.
* `string_separators`: a separator of two characters cut by a chunk is missed.

Four more are what properties of the passing runs except, each in its comment; TLC finds a
counterexample when the exception is taken away.

* `ImplementsStore`: a changed default shows in objects that exist and were not read yet
  (Callbacks.m:74), against "existing instances will not be changed" (reference.html:198).
* `NothingNewSkipped`: the date that decides whether a file changed is the one of its creation
  (Functions.m:14), so that a file edited in place is not loaded again, against
  FSSystemUtility.h:44 ("will only reparse it if it has changed", to "reload the file as you
  tweak your code").
* `FindsOccurrences`: the empty match at the very end of a string is found and not returned
  (FSRegex.m:471), of `a*` in `baab` the last, against "all non-overlapping occurrences"
  (FSRegex.h:194).
* `ExecEnds` and `EnumerationEnds`: a `(*SKIP)` that nothing was matched before is tried at the same
  start for ever (pcre_exec.c:4866 ✔), against pcrepattern.3:2194, by which it advances.

Met while modelling, and without a run: `subclass` always throws (or worse, see below)
though reference.html:103 describes it (FSClass.m:73, 260); anonymous names may collide
with given ones, against index.html:1229 (FSClassCreation.m:107); fast classes accept the
case variants of a name that tests/property-names.test:13 refuses (FSClass.m:128); a class
method of more arguments than a trampoline takes is not inherited, against index.html:1477
(FSClass.m:577); a class property of a compiled class does not reach the subclasses made before
the class had a proxy, of which the documentation says nothing (FSClass.m:810); `superMethod5` drops its fifth argument (Callbacks.m:421); the modes
`>`, `>>`, `>+`, `>>+` refuse a file that exists, against the table in FSFile.h
(FSFile.m:148-153); a chunk of a file that ends inside a character of several bytes is
dropped whole (FSFile.m:382). An error in the last line of a script without a final
newline hangs a 64-bit build (Functions.m:95), against FSSystemUtility.h:38; absolute names
are never found, against the comment at FSSystemUtility.m:83; what a library returns is
never thrown, against FSSystemUtility.h:40 (FSSystemUtility.m:114); the main script is not
recorded and is run again when a library imports it (fscript.m:87). The lists of class
methods are read from the dictionary of instance methods (FSClass.m:614).

For standard input, by reading: at the end of the input with text in the buffer the same
text is returned again and again, so that `readlines` does not end (FSFileStdin.m:60); the
buffer is appended to a text that begins with it already (line 74); `NSNotFound` is
narrowed to an int (line 66).

For the regular expressions, by reading and from the model (those marked ✔ were also
tried on the library built from this source):

* FSRegex reads the vector of offsets without regard to the count `pcre_exec` answers
  (FSRegex.m:171, 411), so that a group set on a path that was given up is reported:
  `(?:(?=(a))c|ab)` on `ab` has a group 1, against "nil if it wasn't matched" in FSRegex.h ✔.
  `nextObject` after its end raises; `replace:withBlock:`
  raises when a group took no part; `${unknown}` reads the group of number -7
  (`Undefined` in the model); the cache is given nil for a pattern that does not compile.
* `ExecEnds` and `EnumerationEnds` say that a call ends unless it comes to a `(*SKIP)` in place
  (`SkipsInPlace`); the run `regex` has such a pattern, and others whose SKIP does advance.
* A group made possessive is wrapped after its calls of later groups have been noted, and
  those notes are not moved (pcre_compile.c:4184 ✔): `(?:(?1)(b))++`. `(?1)[a](b)` and
  `(a*)*(?1)` are refused as calls of groups that are not there ✔.
* A `(*PRUNE)`, a `(*SKIP)` or an error that is reached inside a call of a group leaves
  `md->recursive` set (pcre_exec.c:1074-1078), and `pcre_exec` resets it once (line 4498) and
  not for each start: the next start is matched as if inside the call.
* In UTF-8 the minimum of a repeat such as `[^a]{2}` is tested for room in bytes and then reads
  characters (pcre_exec.c:2560), which may take it past the end of the subject.
* The number of groups is that of the first pass, and what `find_parens` counts is neither:
  `(?(n)a|b)(?|(x)|(?<n>y))` has a condition on a group beyond the last, since `find_parens`
  knows no `(?|`. After an option at the start that is kept for the second pass the two passes
  may count differently: `#()`, a newline and `(?-x)a` with `EXTENDED`.
* `\k` before something that cannot begin a name is compiled as an instruction of the number 28,
  the escape's, which is that of a character (pcre_compile.c:5258).
* A greedy `\R*` gives back the LF of a CR LF ✔; groups set in an atomic group stay set after
  it was given up ✔; `\S+\h` on 0xA0, `[\v\s]` on VT, `(?<=\C{2})` ✔.
* `pcre_study` leaves `\h*` and `\R*` out (pcre_study.c:349 ✔), which no match shows as long
  as the next item is not optional.
* `pcre_dfa_exec`: `(?>ab)+c` on `ababc` misses a match (pcre_dfa_exec.c:2368, against
  pcrematching.3 ✔); the jump over an atomic group leaves the length of the character before (✔ `(?>a?)+$`); a callout
  without a function ends the state (✔ `a(?C1)b`); a lookbehind whose alternative begins with
  an option is read at a wrong distance ✔; `DFA_RESTART` without `PARTIAL` looks for
  the required byte in the new segment only (line 2830, against pcrepartial.3 ✔). The runs
  compare it with the meaning of patterns without atomic groups, and restart with `PARTIAL`.

## 4. What is proved

The runs look at a handful of classes, patterns and subjects. The theorems hold for every
set of classes, properties, blocks and selectors, every depth of the hierarchy and every
compiled hierarchy underneath; and for every pattern, subject, call and message.

| module | theorems | properties |
|---|---|---|
| `FSClassInstancesProofs` | `CreationTypeCorrect`, `ChainsAreLines`, `WalksAreComplete`, `AllocatorNeverNull`, `DictionaryIvarUnique`, `NothingRedeclared`, `DefinitionsAreStable` | every property of the run `creation` |
| | `InstancesTypeCorrect`, `GettersFindStorage`, `DictionariesAreThere`, `OwnersAreStable`, `StoredStays`, `ObjectsImplementTheStore` | every property of the runs `instances` and `store` |
| `FSClassSuperProofs` | `MethodsTypeCorrect`, `RecordsAlwaysAgree`, `AccessorsAlwaysInstalled`, `BlocksReachSubclasses`, `ClassPropertiesReachSubclasses`, `DispatchIsDefined`, `MethodsKeepClasses` | the properties of the run `messages` about methods; `WalkIsComplete` also when methods and messages interleave |
| | `SuperTypeCorrect`, `SuperAlwaysGoesUp`, `FirstCallGoesUp` | those about super calls |
| `FSFileProofs` | `FileTypeCorrect`, `ReadersImplementLines`, `ReadlinesIsComplete` | every safety property of the run `files` |
| `ScriptLoadingProofs` | `LoadingTypeCorrect`, `NothingNewIsSkipped`, `NeverLoadedWithinItself` | every safety property of the run `imports` |
| `RegexProofs` | `DepthIsBounded`, `NamesAlwaysHaveGroups`, `MatchesAreInOrder`, `ReplacementsAlwaysAgree` | `DepthBounded`, the part `NamesHaveGroups` of `CompilesSoundly`, and `ReplacementsAgree`, which rests on `MatchesInOrder` |
| `MatchProofs` | `MatchStaysInCode` | the part `StaysInCode` of `StaysInBounds` |
| `SubjectProofs` | `MatchStaysInSubject`, `MatchStaysInBounds` | `StaysInBounds` |

**Assumptions.** `CreationAssumption` says of the compiled classes what the runtime
guarantees: each has itself and its superclasses as its chain, a chain is a line without
cycles, and any of its non-empty parts has a nearest class (true of every finite chain;
stated, because it would take an induction to derive). The names nil and `NSNull` are
not values. `MethodsAssumption` says that getters and setters have few arguments, that
no getter is a setter and that blocks are not functions; `SuperAssumption` that at least
one frame fits; `LoadingAssumption` is about types; `FSFileAssumption` that separators are
not empty and whole characters, as `NSString`s are. `CallsAreLimited` and `MatchLimitIsNatural` say that the limits on the
recursion of `match()`, which an application passes or the library has, are natural
numbers; `PatternsAreText` and `RequestsAreInText` that patterns and the strings of the messages to an FSRegex are
sequences of bytes and the ranges natural numbers. TLC evaluates them all in the runs. Some theorems have
a condition of their own, because they fail without it: `ObjectsImplementTheStore`
(`NoVariants`: no two names share a setter; and `CarefulSpec`, whose three conditions have a
counterexample each, see section 3), `ReadersImplementLines` (`OneByteText`: separators
of one byte, in text without zero bytes and characters of several bytes; section 3 says what
happens to others) and `ReadlinesIsComplete` (`PlainBytes`: the same without a word about
separators, which may be of any length). The two theorems about FSRegex are about what it makes
of the answers of the matcher. Their condition `AnswersInSubject`, that each answer lies in the
subject at or behind the start, is a property of `match()`, and TLC checks it as a part of
`AnswersFirstMatch`; it does not hold of all patterns (section 3: a repeat in UTF-8 that
reads past the end). `BlockAnswersText` says that a block answers a string, and not nil or an
object of another class.

The theorems about `match()` have three conditions. `CodeIsWellFormed` is what `match()` takes
for granted of the code: an END at its end, links that lead where they should, operands that are
numbers. TLC checks it of every pattern of the run (`CompilesSoundly`); it is not proved of the
compiler, and cannot be as it stands, for a lone `\k` is compiled as an instruction of the wrong
kind (section 3; the model leaves that case out). `PlainCall`, a condition of the places in
the subject only, says that the subject is made of bytes, or in UTF-8 of ASCII characters,
and that the start lies in it. With characters of several bytes `MatchStaysInSubject` fails,
as the repeat `[^a]{2}` of section 3 shows.
`CapturesForward`, that no capture ends before it starts, is needed for references: the end of
one is found by adding the length of the capture. TLC checks it as a part of
`AnswersFirstMatch`. It is a condition because an
`(*ACCEPT)` inside a lookbehind that is reached in a call of the whole pattern (`(?R)`) ends
that call and goes on behind it at the place the lookbehind has gone back to, which may lie
before the start of a capture that is still open.

**Class creation.** `CreationInv` is the conjunction of the type invariant, the four
safety invariants and `Shape`. `Shape` is what makes it inductive: a class without a
chain has an empty one, whoever has an FSClass exists in the runtime, whoever FSClass
made has one, compiled classes keep their chains, and a compiled class is at most a
proxy without parents. Without it `WalkIsComplete` is not inductive: a class that FSClass
made but that had no FSClass object would get a proxy with no parents. `StepKinds`
reduces the eight actions to three cases - the hierarchies stay; a proxy is made; a class
is made - and `ShadowHierarchy` and `CreateHierarchy` prove the invariant for the second
and third. The central point of the third: everything a new class takes over from its
parent (chain, parents, allocator, alloc implementation, dictionary) is decided by
whether the parent has an FSClass, and if it has none then it is a compiled class, with
no created class above it. `PropertyKinds` sorts the actions by what they
declare; `NothingRedeclared` and `DefinitionsAreStable` follow from it, since a name
that is free is not a registered class.

**Instances.** A getter is found by the runtime in the nearest class that declared the name,
and its default by a walk along `parentClass`; `GetterServed` shows that they meet in the
same class. It rests on `Declaring`, which is true because a call that declares is sent to an
FSClass: only classes made by FSClass declare names, and a regular name only one whose
instances have a dictionary. `DictionariesMade` says who has a dictionary by what is true of
the class *now*, though it was decided when the object was made: the chain, the allocators and
`hasIvarDictionary` of a created class never change (`CreatedIsStable`). `OwnerStays` follows from
`StepRedeclaresNothing` - a new declarer above or below would share a name with an old one -
and from the chain being a line. For the refinement two facts are added: a dictionary has entries only under names its object
understands (`Kept`), and every object came from the allocator (`Allocated`). A slot is what its getter would
return, so what has to be shown is that nothing but a setter changes that. A read that copies the
default into the dictionary keeps it. A new default keeps it because the objects it concerns
have the property stored (`AllStored`). A name declared while objects exist starts with
its default, since it has no entry yet (`NewNamesAreRegular`: a fast class declares when it is made and
never later, so such a name is kept in the dictionary). An object just made has the defaults
in its variables, or no entry and reads them (`AllocMaps`), which is where the inherited defaults of
fast classes are excluded. An allocation maps to `New`, a getter to `Read`, a setter to `Write`, each
call on classes to `Redefine`.

**Methods.** `MethodsInv` adds `MethodsTypeOK` and `RecordsAgree`, which support each
other: an implementation is replaced only where the FSClass has a block, and then the
class has one of its own. `InstalledRow` states what `_installMethod` does to one row of
a method table. Messages and definitions leave `CreationInv` alone up to a proxy.
`ChainsInv` adds that chains are acyclic and have nearest classes and that only selectors of
many arguments are looked up (`LookupIsLong`); from it alone follows that blocks and class
properties are inherited (`InheritedBlocks`, `InheritedProperties`). That nothing but a
definition changes dispatch is a matter of the two walks: the chain of a class never changes,
and the walk along `parentClass` at most gains a proxy, which has no blocks
(`StepKeepsParents`). `AccessorsInstalled` alone is not inductive: a property declared where
a compiled function is in the way would not get its accessor. `AccessorsInv` therefore adds
that only created classes declare instance properties (`Declaring`) and only compiled ones
have compiled functions (`CompiledBelow`).

**Super.** `SuperInv` adds to `ChainsInv` that the frames are superclasses of
the receiver. `StepKeepsChains` is the reason a stack of frames stays valid while scripts
make classes: a new class changes no chain that was there. `DispatchStarts` finds, for
any dispatch, the class whose block starts; `SuperclassIsAbove` shows that it is above
the caller's. The same steps fail for `SuperReachesSuperclass`, as they must: in
`MultiOK` the block is looked up from the receiver, not from the top frame. For the first
call of a message receiver and top frame are one, and `ParentHasTheRest` shows that
its parent has all the blocks but its own above it; hence `FirstCallGoesUp`.

**Files.** `FileTypeOK` is inductive as it stands. The work is in the text: that what is cut
from whole characters at a separator are whole characters (`CutUTF8`), and that the first
place of a separator exists (`LeastExists`, from the well-foundedness of the natural
numbers). The refinement needs one more fact, `ReaderInv`: a chunk is read only when the
buffer has no separator. Then the first separator of a chunk is the first of all that is left
(`OneFirstOfTwo`), for a separator of one byte cannot lie across the two, and reading a chunk
without one is not to be seen. What is left to read is the buffer and the rest of the file; printing
overwrites one piece of it (`PrintWrites`), and whatever moves the pointer drops the
buffer (`DroppedMoves`).

`ReadlinesIsComplete` is about the loop: the lines it has so far, each with its separator, and
what is left to read are together what there was to read when it began. `ReadlinesInv` says
so of every state; a line that is found, a chunk that is read and the end of the file keep it.
A separator that a chunk cuts in two is missed (section 3), but no text is lost with it, so
this holds of separators of any length. The lines joined are a recursive
function (`FlattenSeq`). `RecursionLemmas` has what that needs: the least of a set of numbers,
induction as a statement about a *set* that has 0 and the successors (`InductionUpTo`), the
existence of a function that is given by its value at 0 and the step from each to the next
(`RecursionUpTo`), and from these that one more text joined comes at the end (`FlattenAppend`).

**Script loading.** What a user sees, that no file is skipped that is newer than what was
loaded and that none is loaded within itself, hangs on dates, so `LoadingInv` says how the
dates lie: a recorded date is at most that of the file there, which is at most the present
(`Dates`); a file just read is not older than the recorded date and not newer than the file
there now (`Fresh`). That the text agrees too is `Copies`: what was run, or read and is about to
be, is the file there now if the date is the same and nobody edited it in place. The loads in progress are described once for all stacks (`StackInv`): all but the innermost run
their script, a load has its file from the moment it is read, the date of a load is
recorded or a later one is, and of two nested loads of one file by `import` the inner has
the later date - for the date is recorded before the script runs (the mutant of the run
records it too late). `PushKeeps` puts a load on scripts that wait, `RaiseKeeps` unwinds
to any of them, `SettledKeeps` and `TopAdvances` move the innermost one on; then there is
one lemma for each action. `import:` loads a file when its date is *later* than
the recorded one, hence the strict order of nested loads, hence `NotLoadedWithinItself`.

**Depth of match().** The limit is tested at the entry of `match()` and nowhere else, while
forty instructions and returns make calls. The bound itself is not inductive: a `match()`
that runs may call, so it must have *fewer* callers than the limit, while one that is
entered may have as many. `DepthInv` says so, and that the frames are a sequence.
`RunningSteps` and `ReturningSteps` sort the 41 steps of a `match()` that was let in by the one thing that
matters here: an instruction keeps its callers or adds one, and then the called `match()`
is at its entry; a return takes one away, and may add one. `EnterKeepsDepth` is where the
limit is used. The rest is that compiling, studying and the loop over matches leave the
frames alone, and that a new call of `pcre_exec` starts without any.

**Links of match().** A place in the code is followed long after it was found: a caller waits with
the instruction it was called for and, for a KET, with the group it came from; a call of a group
keeps the place to go on from. `GoesOn` says for each of the `RM…` numbers what the code must be at
the place of a caller that waits there, e.g. that `RM2` has an alternative after it, for that is the
only case in which the group does not tail-recurse. With it each return goes on in the code
(`ReturnsInCode`), whatever answer it is given. `FramesInv` has this of all
frames, `RecursionsInv` of all calls of groups, also the saved ones; neither is inductive alone, for the
return of a call goes back to the list of calls that its frame has kept. The steps of `match()` have a lemma each
(`…Stays`), which `MatchKeepsCode` puts together; `ExecKeepsCode` and `NextKeepsCode` add
`pcre_exec`, and that nothing but a compilation changes the code, and that not
while it is executed.

**Places in the subject.** `PlacesInv` has every place there is: where each frame is, and where it says that the match began;
what it has kept for a return (`Resumes`: three entries of the vector, for a capture; the whole vector and the calls
before, for a call of a group; the first place of a greedy repeat, below which nothing is
given back); the vector and its copies; and what is to be answered. An entry of the vector is in the
vector only if the group's number has room, hence `OffsetTop` and `RoomForCapture`, which the
length of the vector (three parts for two that are answered) makes true. Then an
item begins in the subject and ends in it, behind its start (`ItemIsForward`, over
all characters, types and classes in the two modes and the three loops); the minimum of a repeat is the hard
part, for its room is tested once and beforehand: `MinimumRuns` keeps, along the
loop, that there is room for the items that are left, each of which takes its width, and only `\R`, which tests for itself, takes more.
`GreedyRuns`, `MinimumRuns` and `BackRuns` are inductions over recursive functions, by `RecursionLemmas`. `MovesOn`
sorts the steps of `match()`: most keep their place and wait for nothing new; the others, captures,
assertions, atomic groups, calls, repeats, have a lemma each (`…Keeps`). Around `match()`,
`StartInSubject` and `NextStartInSubject` are about the starts that the first byte, the line starts, the study's bytes, a
verb or a newline lead to, and `OffsetsInPlace` about what is copied to the caller. That the answer also begins
behind the start that was asked for, and ends behind its beginning (`AnswersInSubject`), does not follow:
`\K` in an assertion may put the beginning anywhere.

**Names.** `NamesHaveGroups` has two halves. A name's number is at most the number of groups in
the end: not inductive as it stands, for `(?|` takes the count of groups back at each
alternative, and so `Opened` says where the number is kept in mind, in the count, in the
highest of the branches before (`max_bracount`), or in that of a group around. And the search by halves finds
it, which hangs on the order of the table: the order is strict and total (`LessGoesOn`,
`LessIsTotal`), and `AddNameInOrder` shows that the place `AddName` takes, before the first later name, keeps it,
also when one name begins with another or is there twice. The search is a recursive function;
that there is one and that it finds what is between its bounds are inductions over the
distance of the bounds (`SearchExists`, `FoundIfThere`).

**Matches and replacements.** The enumerator of FSRegex goes on behind the match it had, or
one further if that was empty; `FindInv` says so, with what the message was and that the last
answer is the last of `found`. Then a new match lies behind all earlier ones (`MatchIsNext`),
which with `AnswersInSubject` is `MatchesInOrder`. One fact has to come from the compiler: an
answer has a group 0 only if the code says how many groups there are, so the number must be a
natural one. `CountsInv` has it for every step of both passes:
`ReadingSteps`, `OpeningSteps` and `ReferringSteps` sort the steps of the compiler by what they
do to the open groups and the counts (read on, fail, open a group), and each kind has one lemma.

`replace:withBlock:` replaces in place in a copy, at places it corrects by how much the copy
has grown or shrunk; `ReplacementsAgree` compares the result with the string cut at the matches
and put together anew (`Renewed`). The proof follows the copy: after `i` replacements it is the
first `i` pieces put together, and then the rest of the string as it was (`Halfway`), and
the correction is the length of the one less that of the other. `SplicedParts` does one
replacement in a text of three parts, `HalfwayGoesOn` one step, and `ReplacedIsRenewed` the
induction over the number of matches. It needs `MatchesInOrder`: a match that began before the
end of the one before it would be replaced in text already replaced. Texts are put together
with `Then`, which is `\o` under a name, for the proofs need only that it is associative
and how long it is.

**Only model-checked.** That the answers of the regular expressions are what the patterns
mean: the meaning is defined by recursion over trees, and an induction over trees is out of the
provers' reach (one over numbers is not, see *Files*). `AnswersInSubject` in general, of which `StaysInSubject` is the half that
is true of every plain call, and `CapturesForward`. The rest of `GroupsAreCounted`, which is false of some patterns outside the run
(section 3), and `CodeIsWellFormed`. `CallsEnd`, `LoadsEnd`, `ExecEnds` and `EnumerationEnds`, as they are liveness under
fairness (as would be anything about `ENABLED`).

## 5. What is not modelled

* `subclass:` (FSClass.m:263) and `setName` (FSClass.m:98) with the nil name that
  `subclass` gives: an FSClass object is passed for a runtime class and its memory read
  as one. What happens is not defined by this code; `Subclass` models the form that is
  (it throws).
* The lists that introspection returns; only its side effect is modelled.
* The machine code of trampolines and the moving of arguments.
* Arguments and results of blocks; hence that `superMethod5` drops one, and the checks
  of the number of arguments of super calls.
* In `FSFile`, the wrappers for background reading and accepting connections, which call
  the handle and nothing else. Characters of several bytes are modelled (`IsUTF8`) but
  the `files` run has none, as a chunk that cuts one loses text (section 3).
* The options `-v` and `-c` of fscript, and the framework directories.
* Of PCRE: Unicode properties (`\p`, `\X`: this build has none), automatic callouts before
  an empty `\E` or comment, the layout of the code in bytes and the errors that come of its
  limits (11, 20, 23, 49, 52), the offset reported with an error, numbers that wrap an int, a
  lone `\k`; `\C` cutting a character in two; patterns saved by a machine of the other byte
  order; that the compiler ends. Error 57 is found at once, where the code goes on to the end
  of the item. Calls of later groups inside a possessive wrap read, in the code, an operand
  that was moved; the model takes the error the code gives for it, and not the cases in which
  the moved operand happens to be the number of a group.
* Of FSRegex: strings that contain NUL (they are cut there), the parsing of a replacement
  string by a pattern of its own (a template is the items it finds), strings changed during
  an enumeration, an enumerator asked again after its end.
* Standard input, command execution, the interpreter and `sprintf`: see the plan.
* The one-expression wrappers, PCRE's own programs and wrappers, installers and examples.

## 6. Plan

The class system came first: it is the core of the repository and everything in it
depends on the order of calls; then the files and scripts, and the regular expressions, the
largest body of code. What is left, in this order:

1. `FSFileStdin`, a second implementation of `LineSource`: where `NSNotFound` narrowed to
   an int is -1, the append of the buffer to a text that begins with it, and the end of
   input with text in the buffer (FSFileStdin.m:38-87).
2. `ExecPipes`: parent and child with two bounded pipes; when do both wait?
3. `Nesting`: `findNestings` as a recursive function against a reference definition of
   balanced brackets, with its buffer of 80 as a constant.
4. `TrampolineShuffle` and `SprintfDirective` as pure algorithms, as far as they are
   worth it.
5. In `PatternMeaning`: atomic groups and calls in the meaning of partial and DFA matches.
6. Proofs: that the compiler makes well-formed code with numbers of groups that exist, for
   the patterns of which that is true, by what each step does to the instructions already written; it would
   take the conditions from the theorems about `match()` one by one.

`store` keeps a run of its own: its scripts are those of `CarefulSpec` and its names have no case
variants, which share a setter. The run `instances` has neither restriction, and there objects do
not implement the documented store.
