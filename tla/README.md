# A verification project for abigen

abigen reads the headers of a library and writes an *ABI library* for McSema: a
header and a source file that mention every function whose prototype can be
lifted safely. A function that takes a function pointer, directly or through
the structures it is given, is left out and reported. This directory holds TLA+
models of that program, the TLC configurations that check them on small
instances, and proofs that TLAPS checks for every instance.

| To do | Command |
|---|---|
| parse a module | `tlasany M.tla` |
| check a configuration | `tlc -workers 2 -config X.cfg M` (modules and configurations are paired in `PROJECT.json`, "runs") |
| check the proofs | `tlapm M.tla`, for the eight modules `*Proofs.tla` |

Line numbers below are those of `src/src/`.

## 1. The system

### 1.1 Components

| Component | Source | State | Operations |
|---|---|---|---|
| AST visitor | `astvisitor.cpp`, `types.h` | the type dependency tree, the list of types already walked, the type locations, the function map, the two result lists; inside `finalize`, the blacklist, two queues and two sets | `initialize`, `VisitFunctionDecl` (one per declaration, with the type walk), `finalize` |
| generate command | `generate_command.cpp` | headers left, list of accepted directives, pass counter, iterator | one handler: search, last compilation, output |
| generate utilities | `generate_utils.cpp` | none (builds values for the others) | `enumerateIncludeFiles`, `generateIncludeDirectives`, `generateSourceBuffer`, `createCompilerInstance`, `createClangCompilerInstance` |
| compiler instance | `compilerinstance.cpp` | its settings; a fresh clang instance per buffer | `create`, `processAST` |
| ABI library writer | `abi_lib_generator.cpp` | two output streams | `generateABILibrary` |
| compile command | `compile_command.cpp` | a clang invocation, an output stream | one handler |
| profile manager | `profilemanager.cpp` | the root folder, the map of profiles | construction, `get`, `profileMap` |
| language manager | `languagemanager.cpp` | a constant table | `parseLanguageDefinition` |
| command line, main | `cmdline.cpp`, `main.cpp` | the map of subcommands | parse, dispatch, exit code |
| list, version | `list_commands.cpp`, `version_command.cpp` | none | print |

### 1.2 How they interact

`main` builds the profile manager, parses the command line and calls the
handler of one subcommand. The generate handler enumerates the headers of the
given folders, then calls `CompilerInstance::processAST` once per candidate
buffer (base includes, accepted directives, one candidate) without a visitor,
in passes over the headers that are left, until a pass accepts nothing. It then
compiles the accepted list once more with an AST visitor: the clang front end
calls `initialize`, visits each function declaration and calls `finalize`. The
results of the visitor go to the writer.

The program is single threaded. What makes it hard to get right, and hard to
test, is elsewhere:

* **order**: every container of the visitor is hashed by pointer and every
  folder is listed in the order of the file system, so each loop runs in an
  order no test controls; the loops erase from, and add to, what they and
  their successors read;
* **shared, growing state**: the tree is shared by the walks of all the
  declarations, so what one walk does depends on which walks came before;
  the list of accepted headers makes earlier refusals stale;
* **cycles**: types refer to one another in circles, and both the descent and
  the upward propagation must end and still cover everything;
* **partial failure**: a compiler, a folder or a file may fail at any step,
  and one unexpected declaration stops the visitor;
* **undefined behaviour**: `front()` of an empty queue (`astvisitor.cpp:500`).

### 1.3 What makes each component correct

* *AST visitor*: the tree is the type graph of the unit; it is complete when
  the traversal ends; a type is blacklisted exactly when a function type can
  be reached from it; each declared name gets exactly one verdict, the one the
  rules give; the causes reported for a rejected function are exactly the
  located types on the way to a function type; the results depend on the
  translation unit only, not on the order of any walk nor on the unit seen
  before; and `finalize` ends.
* *generate command*: what is compiled last compiled before, and is refused
  only for a reason that the search could not see; no header that is
  left could still be added; each header is given to the library once or is
  reported as discarded; headers that need others are included whatever the
  order in which they were found; the passes end; and the library that is
  delivered is the one of the list that it includes.
* *generate utilities*: a directive that is tried resolves to the header it
  stands for; no prefix leads out of the folder that is scanned; a header that
  is discarded was itself refused.
* *compiler instance*: the same buffer gets the same answer each time; the
  settings given on the command line reach clang.
* *writer*: an output file is touched only when there is something to write;
  success means two complete files.
* *compile command*: a failed compilation is a failed command; the include
  folders are used.
* *profile manager*: one profile per name, or an error.
* *main*: the exit code says whether the chosen command succeeded (it does not
  when a compilation fails: `CompileOutcome`).

`PROJECT.json` lists under "hazards" the places where each of these can go
wrong, with the properties that watch them.

## 2. The modules

```
TranslationUnit   what clang gives the visitor (external), queries over it
  AbiRules        which types are bannable, the verdict on each name
    AbiFilter     abstract specification: one unit in, its verdicts out
    ASTVisitor    the visitor, loop by loop; implements AbiFilter
      MCASTVisitor         small translation units for TLC
      ASTVisitorProofs     theorems: tree, blacklist, names, verdicts, refinement
        CausesProofs       theorem: the causes of a rejection
    AbiGenerator  abstract specification: ask the compiler, then deliver or give up
GenerateCommand   the generate handler, with the writer and the compiler
  GenerateCommandProofs    theorems: the search, the lists, the outputs
  HeaderDependencies       what the answers are when headers need one another
    MCGenerateCommand      small instance for TLC, of both
    HeaderDependenciesProofs   theorem: the order of the folders does not matter
IncludePaths      prefixes, directives, and the file a directive names
  IncludePathsProofs       theorems: the directives of a header
  HeaderSearch    GenerateCommand (INSTANCE) over files on a disk
    MCHeaderSearch         a small disk for TLC
    HeaderSearchProofs     theorems: what is imported, what is discarded
GenerateWithVisitor   GenerateCommand and ASTVisitor (INSTANCEs) as one program;
                      implements AbiGenerator
  MCGenerateWithVisitor    three headers for TLC
  GenerateWithVisitorProofs    theorems: the library, the refinement
ProfileManager    the construction of the profile manager
  Main            main(), the command line, the dispatch, the compile handler
    MCMain                 folders, files and command lines for TLC
    MainProofs             theorems: profiles, options, outcome
```

### 2.1 TranslationUnit, AbiRules, AbiFilter

A translation unit is a record: for each type its kind, its pointee, element
or underlying type, its class; for each class its bases, fields and methods;
for each declaration its parameters, its owner, its mangled name and whether
it is variadic or templated. The AST itself is clang's, hence external; the
collection helpers of the visitor (`collectClasses`, `collectClassMemberTypes`,
`collectClassMethods`, `collectFunctionParameterTypes`) become set operators
over that record. `ChildTypes` is the body of the loop of
`enumerateTypeDependencies`, one alternative per branch: pointers and arrays
lead to what they hold, records to the fields and method parameters of the
class and its direct bases, sugar to the desugared type, and references to
nothing.

Types are abstract values; the kind of a type is the one clang's predicates
see through sugar (a typedef of a pointer *is* a pointer, as for
`isPointerType`), so `ASTsAssumption` asks that a type and its desugared form
have one kind. The constant `ASTs` is the set of units a run, or a proof, is
about; the proofs hold for every set of units.

`AbiRules` states the outcome without any loop: `Bannable` is the least set
with the function types that is closed upward under `ChildTypes`, `Verdict`
gives each name its verdict. `AbiFilter` is the promise to the caller: `Begin`
takes a unit, `Decide` publishes `Verdicts(unit)` in one step, `Fail` stops,
which is allowed only on a unit that has a base class clang cannot resolve.

### 2.2 ASTVisitor

The variables have the names of the members of `PrivateData` and of the locals
of `finalize`; `phase` says which loop is running. One action is one turn of a
loop:

| Actions | Code |
|---|---|
| `Initialize` | `initialize`, which clears the tree, the type list and the results |
| `VisitFunctionDecl`, `EnumerateRoot`, `SkipKnownType`, `ExpandType`, `SaveFunction` | `VisitFunctionDecl` and the queue of `enumerateTypeDependencies` |
| `CollectClassesFails` | the assertion of line 95, and the null dereference behind it |
| `BeginFinalize`, `SkipBlacklisted`, `CheckType`, `Propagate` | the first loop of `finalize`: test a node, push the status upward |
| `RemoveDuplicates` | the second: names declared more than once |
| `JudgeFunction`, `RejectFunction`, `DescendBadTypes`, `ReportBadTypes`, `EndFinalize` | the third: a verdict per function, and the search for the causes of a rejection |

Abstractions, and why they are safe:

* a loop over a hashed container takes *any* element left, and so do the two
  queues, which are filled by such loops: every order of the code is allowed,
  and more, so what holds here holds for each of them;
* `CheckType` reads `propagation_queue.front()`. When the type has a function
  child the front is such a child and the test is about it; otherwise the
  queue is empty and the value read is undefined. The constant `StaleFront`
  says what the comparison with it may yield: `{FALSE}` is the build in which
  the word never equals the type under test, `BOOLEAN` is the language
  standard;
* locations are kept as one bit, whether `type_info_map` has the type; the
  friendly names and line numbers are layout;
* `type_index` and the file paths have no influence on control.

### 2.3 GenerateCommand

`pc` follows the handler. `EnumerateIncludeFiles` appends the headers of one
folder in any order; `BeginPass`, `AcceptDirective`, `RejectDirective` and
`EndPass` are the do-while loop with its iterator, including the erasure at
line 81 that leaves the iterator on the next header; `FinalCompilation` is the
compilation with the visitor (one step here, opened up in 2.6);
`OpenHeaderFile`, `OpenImplementationFile` and
`WriteFiles` are the writer, with streams that can fail to open and writes that
are not checked. Each failing call has its way out through `Exit`.

`createClangCompilerInstance` can fail inside `processAST` for want of memory.
The handler takes that for a refusal (line 64 looks at the status only), so
with `OutOfMemory` a list may be refused without having been compiled; `fails`
holds what the compiler refused, and nothing else.

The compiler is an oracle: any list of directives may or may not compile, and
what it answered once (`compiles`, `fails`) it answers again. That a list
decides is what the code shows: every call builds a new clang instance with
the same settings over a buffer that is a function of the list. The profile
name does not change, so the assertion at line 135 cannot fail and is left
out.

The final compilation adds a visitor. It can stop the program, and it can add
errors: `finalize` asks the name mangler for the name of every function,
patterns of function templates included (`astvisitor.cpp:538-540`), the mangler
reports what it cannot mangle to the diagnostics engine of the compilation
(`generate_utils.cpp:373-379`; clang's Microsoft mangler, which `-z` selects,
does so for dependent types), and `processAST` counts the errors afterwards
(`compilerinstance.cpp:101`). The search runs without a visitor, so a list that
it found to compile may be refused in the end. `MangleErrors` says whether that
can happen; `FinalCompilation` then has the outcome "not mangled", which the
handler cannot tell from "not compiled". Both are one refusal in the code, and
differ here only by whether the list parsed.

### 2.4 IncludePaths and HeaderSearch

`GenerateCommand` takes the directives of a header as given. `IncludePaths`
says what they are: a path is the sequence of its names, `PossiblePrefixes` is
the loop of `enumerateIncludeFiles` that puts one more parent folder before the
prefix in each turn, and `IncludeDirectives` puts the name alone first. The
loop ends at the header folder or at the root. Whether it can end at the folder
depends on how the folder was written: `stdfs::absolute` keeps a trailing
slash, `parent_path()` never has one, and the comparison is of the two texts.
Hence a folder is a path and the bit `slash`.

`Resolve` is the file an `#include <...>` names: the first that exists in
`SearchList`, the folders of the profile and then the header folders, which
`createCompilerInstance` passes on as additional include folders. The lookup
is clang's, hence external; that it takes the first folder that has the file is
its documented behaviour. `ResolveFrom` is the same for `#include "..."`, which
looks into the folder of the including file first.

`HeaderSearch` runs `GenerateCommand` over that: a header is a folder and a
path, and the compiler refuses a list with a directive that names no file, and
else answers freely. The disk does not change while the program runs, except
for the output. The file a directive was tried for and the file it names can
then be compared, which is what the properties of this module do.

### 2.5 HeaderDependencies

The reason for which the handler makes passes at all is headers that compile
only after others. `AnsweredByNeeds` picks, among all the ways in which the
oracle of `GenerateCommand` may have answered, the one in which a directive
parses when the headers it needs were included before it, and headers never
conflict. `Importable` is what could be included in
*some* order: the least set closed under "all the needs of one of its
directives are met". `IncludedExact` says that with these answers the passes
find exactly that set, although the order in which the headers come is the file system's.

### 2.6 GenerateWithVisitor and AbiGenerator

The two parts keep their variables and take turns. In the last compilation
clang parses the list and then calls `HandleTranslationUnit`, errors or not,
which initializes the visitor with what that list parses to (`ast`), runs it
and finalizes it; only then does `processAST` count the errors, those of the
parse and those that the name mangler has reported meanwhile.
`FinalCompilation` therefore waits for the visitor to be done, or stops the
program with it when it stops; and it refuses the list when a function that it
declares is `Unmanglable`, a constant that stands for what clang's manglers
report an error for. `GenerateCommand` is instantiated with `MangleErrors`
true if there is such a function. If memory runs out before there is a compiler,
the visitor has not run at all. `WriteFiles` makes the library of the results.

`AbiGenerator` is the promise to whoever runs the command: it asks about lists
of headers, and then either delivers the library for a list that compiles and
whose names can be mangled, with the verdicts of the rules on what that list
declares, or delivers nothing.
`ImplementsAbiGenerator` and `ImplementsGenerateCommand` are two refinements:
the program keeps that promise; and opening up the last compilation touches
nothing else of the handler, and ends it only in ways that `GenerateCommand` has.

### 2.7 ProfileManager and Main

`ProfileManager` is the constructor, step by step: `pm` says where it is.
`disk` says which of the two root folders exist and which `profile.json` files
each has; `content` gives each file the name it states, or `Malformed` for all
the reasons for which `loadProfile` returns false. `LoadProfile` is one turn of
the loop of `enumerateProfiles`, in any order of the files. Its duplicate test
reads `profile_descriptors`, as the code does, which is empty until
`EndEnumeration`; `Insert` is `unordered_map::insert`, which keeps what is
there.

`Main` EXTENDS it and runs `main`: `CreateProfiles` is any step of
`ProfileManager::create`; `ParseSubcommand` checks one subcommand and writes its
options into the one `CommandLineOptions` object; `Dispatch` takes any of the
parsed commands, since the map is hashed by pointer; the compile handler is
`CompileCreatesCompiler`, `SetInvocation`, `ExecuteAction`, `WriteBitcode`. The
generate handler has its first and its last step here only: how it sets up the
compiler and whether it succeeds. What is kept of the compiler's settings is
the language, the GNU extensions, the additional folders, and whether clang
refused the arguments they were made from.

Two libraries are modelled from how they are used. CLI11 runs the checks of an
option before it stores it. In which order the options of several subcommands
are stored is its own business (it depends on how they were declared and
nested, not on the command line alone), so the command line is a *set* of
subcommands and `ParseSubcommand` takes any that is left. It gives a repeated vector option the values of the
last subcommand that has it (an option that is not given is the empty set
here), and sets a flag without ever clearing it. clang's `setLangDefaults`
assigns every language option from the standard it is given, GNU mode included,
which undoes the assignment of `generate_utils.cpp:337`. `CreateFromArgs`, which
reads the arguments of the compile command, knows the standards by their names
(`NamedStandards`): `c94` is none of them, the standard of 1994 is
`iso9899:199409`. An unknown name is an error that it reports; the language is
then clang's default, a GNU dialect. The handler does not look at the result
(`compile_command.cpp:138`), but the error was counted by the client of the
diagnostics engine, so `ExecuteAction` can only fail. The destructor of
`raw_fd_ostream` ends the program with an error when a write error was detected
and not cleared, and the handler clears none: a damaged bitcode file comes with
an exit code other than 0. A write that fails without the system reporting it is
beyond the model. Exit code 1 stands for every code other than 0.

## 3. What is checked

| Run | Instance | Shows |
|---|---|---|
| `visitor_units` | four units with three declarations each (callbacks in a recursive struct, redeclared and variadic functions, a class hierarchy, templates), two with a base class that depends on a template parameter, and 256 type graphs; one visitor given them in any sequence | types, `TreeConsistent`, `EnumerationComplete`, `BlacklistSound`, `BlacklistComplete`, `NamesAccounted`, `VerdictsSound`, `CausesExact`, and that the visitor implements `AbiFilter`, liveness included: it stops on a dependent base only |
| `visitor_stale_front` | all 512 units over a struct, a pointer, a typedef or second pointer, and a last type (function or builtin), with any fields and pointee, and `StaleFront = BOOLEAN` | what the undefined read can cost, in any order of the loops: `VerdictsBounded`, only the verdicts on functions whose every bad dependency is a bare function type given by value; `CausesBounded`, only bare function types among the causes; and `EveryStepAdvances`, no step leaves as much to do as before |
| `generate` | five headers in two folders: one with a prefixed form, two with the same name; every order and every deterministic compiler, with names that may fail to be mangled; as needs, a chain of three and two headers that need each other | the search and the output files; `IncludedExact`; the passes end (`Terminates`), because no step leaves as much to do as before (`EveryStepAdvances`) |
| `header_search` | two header folders, one with a slash; a name that both have, a header two folders down that a folder of the profile hides, a name that is unique | `UniquelyNamedImported`: no prefix makes another file stand for a header; `DiscardedForItsContent`: a header that is left was compiled by its own path; `FilesImportedOnce` |
| `generate_with_visitor` | three headers whose declarations change each other's verdicts: one defines the struct that the other declares, one declares a function again, one holds a class template that stops the visitor and a function template whose name cannot be mangled; memory may run out | `LibraryExact`: the library is the one of the list that it includes; both refinements of 2.6, termination included, hence all that `generate` shows of the passes, but for `NoHeaderLeftOut`, where a header may be refused for want of memory without having been looked at |
| `main` | the twelve states of the two root folders over four files (one malformed, two of one name), fifty command lines of at most two subcommands, stored in any order | `ProfilesExact` and `FirstProfileKept`: no profile is lost to a malformed or a repeated one; `OptionsStayValid`: no handler meets a profile or language that was not checked, even if another subcommand's options replaced its own; `CompileOutcome`: the bitcode file is complete when the exit code is 0, unless the compilation failed, and never comes from arguments that clang refused; `GnuForCompiledCxx`: which dialect the compiler is left with, and that `c94` is what it refuses |

Six more runs end in a violation, on purpose: each checks a sentence of the
source that the code does not keep.

| Run | Claim | What the trace shows |
|---|---|---|
| `visitor_inherited` | `astvisitor.h:38`, "the class itself plus all the base classes" | a callback in the base of a base is not a dependency of the method |
| `visitor_by_reference` | `astvisitor.h:56`, "enumerating all child types" | the walk stops at `T&`: the fields of `T` are not seen, and a function that takes a `T&` is whitelisted although `T` holds a callback |
| `main_include_folders` | `cmdline.h:53`, "Additional include directories" | generate gives the compiler the scanned folders instead (`generate_utils.cpp:107`); compile replaces the invocation that had them (`compile_command.cpp:141`) |
| `header_same_name` | `generate_command.cpp:94`, "the headers we couldn't import" | two folders have an `x.h`: both are tried as `<x.h>`, which is the first one both times; the first is imported twice, the second is neither imported nor in the list of those that were not |
| `header_quoted` | `generate_command.h:32`, `#include "clang/Frontend/Utils.h"` | `<z.h>` was compiled, `"z.h"` is written; when the library itself is called `z.h` it includes itself |
| `generate_mangled` | `cmdline.cpp:126`, "Compiles an ABI library" | in C++ the array names functions by mangled names, as expressions; no header declares them |

Six more sentences of the source are not kept; there the models say what holds
instead, and it is checked and proved:

* `astvisitor.cpp:499`, "Add this type if it's blacklistable": a type without a
  function child is compared with the front of an empty queue, and a function
  type is missed when the stale word equals it. `BlacklistComplete` says that
  no other type can be, `VerdictsBounded` and `CausesBounded` what follows for
  the results. It is a defect of builds in which the slot holds that
  pointer; the model says it is possible, not likely.
* `astvisitor.cpp:95`, `assert(cxx_record_decl != nullptr && ...)`: for
  `template <class T> struct S : T` the class of the base is null.
  `ImplementsAbiFilter` allows the visitor to stop on such a unit, and on no
  other.
* `generate_command.h:28`, "Possible prefixes are "clang/Frontend" and
  "Frontend"": with `-f lib/` the loop never meets the folder, and a header is
  also tried by its path from the root (`LongestDirective`).
  `UniquelyNamedImported` and `DiscardedForItsContent` say that no header is
  mistaken or lost for it.
* `cmdline.h:34`, "gnu extensions will be enabled": they are not in the search,
  nor when a C library is compiled (`GnuForCompiledCxx`).
* `languagemanager.cpp:22`, "the language and version combinations supported by
  abigen": `compile -l c94` passes `-std=c94`, which clang does not know, and can
  only fail, with an exit code of 0. `GnuForCompiledCxx` says that c94 is the one
  language that is refused and in which dialect clang goes on, `CompileOutcome`
  that no file is written.
* `generate_command.cpp:111`, "We now have a list of includes that work fine": a
  name that cannot be mangled is an error that the search never sees.
  `FinalCompilationRepeats` lists what a list that works can be refused for, and
  `LibraryExact` says that no library has such a name in it.

**Bounds.** The walk and the propagation are about paths and cycles in the type
graph: `visitor_stale_front` has every graph in which a struct, a pointer and a
typedef point at each other or at a leaf, hence self loops, two-element cycles,
cycles entered at each of their nodes, unreachable parts, and chains of length
three below a function; `visitor_units` has those in which a function takes the
struct and the typedef. Two declarations are enough for a walk that finds its
types already known, partly or wholly, by an earlier one. The verdicts need
one declaration per reason and one shared name, which the first four units have; two
units in a row, in any order, are enough for state that leaks from one to the
next, and since `finalized` states lead back to `Initialize` the run covers
sequences of any length. For the search, a pass that accepts a header after
another was refused needs two headers, a header with two forms one prefix, and
the erasure needs a header after, before and between: five headers give all of
them. A disk of five files has each relation between two headers that the
code can tell apart: same name in two folders, hidden by the profile, deeper
than one prefix, written with a slash or not; a third folder can only repeat
them. Needs are a matter of chains, circles and of which directive of a header
is the right one, and the five headers of `generate` hold one of each. In `generate_with_visitor`
each of the three headers changes a verdict given by another, so a library
made from another list, or from the visitor before it is done, differs; with
the header that stops the visitor only if the struct is used, there are lists
that parse and are delivered, lists that stop it, and lists refused for a name. In
`main`, two names and four files give a repeated name found before and
after its twin, with and without a malformed file between; two subcommands are
enough for one to overwrite the other's options, and each is given at most
once, as a third can only overwrite again. All of this is what TLC can see; the theorems below do not depend on it.

**Fairness.** abigen is sequential code that waits for nobody. `FairSpec` of the
visitor is weak fairness of `Step`, all the actions except `Initialize`:
started, it runs on, while nothing obliges the caller to hand over a unit.
`FairSpec` of the generate command is weak fairness of `Next`: the compiler
always answers; that of `GenerateWithVisitor` is the same for the two together,
and the liveness it gives is the `<>` of `AbiGenerator`. Fairness only says that
the code runs on. That its loops then end is a property of their variants,
stated on its own as `EveryStepAdvances` of the visitor and of the command, and proved (4.5).

**Deadlock** is checked in every run except where the program really stops: in
those of the generate command (the command returns), of `main` (the program
exits) and in `visitor_units` (a dependent base stops the program).

## 4. What is proved

Everything below holds for all values of the constants that satisfy the named
assumptions of the modules: units are well formed and null values are not real
ones (`TranslationUnit`, `ASTVisitor`); each header has a directive, folders
are finite and disjoint sets of headers (`GenerateCommand`); the disk is
finite (`IncludePaths`). TLC evaluates each assumption on the instances it
checks.

### 4.1 The visitor (`ASTVisitorProofs`, `CausesProofs`)

| Theorem | Statement |
|---|---|
| `TypeCorrect` | `Spec => []TypeOK` |
| `TreeCorrect` | `Spec => []TreeConsistent` |
| `EnumerationCorrect` | `Spec => []EnumerationComplete` |
| `BlacklistSoundness` | `Spec => []BlacklistSound` |
| `BlacklistCompleteness` | `Spec => []BlacklistComplete` |
| `NamesCorrect` | `Spec => []NamesAccounted` |
| `VerdictsBoundedAlways` | `Spec => []VerdictsBounded` |
| `CausesBoundedAlways` | `Spec => []CausesBounded` |
| `VerdictsCorrect` | if `front()` of the empty queue is harmless, `Spec => []VerdictsSound` |
| `CausesCorrect` | under the same condition, `Spec => []CausesExact` |
| `NoCallbackWhitelisted` | under the same condition, no function type is reached from what a whitelisted function is given, and one is for each function rejected for its types |
| `VisitorRefinesFilter` | under the same condition, `Spec` implements `AbiFilter` (safety part) |
| `DirectBasesCollected` | if inheritance is one level deep, `Spec => []AllBaseClassesCollected` |

The argument, in the order of the code:

1. `TypeOK` and `TreeConsistent` are inductive as they stand. The clause that
   matters in the second is that a node that was not expanded is in the queue:
   without it nothing says that a walk that skips known types leaves nothing
   behind.
2. `EnumerationInv` strengthens `EnumerationComplete`: each declaration is
   still to visit, being visited, or saved, and what the current one depends
   on is waiting as a root, is in the queue, or is expanded.
   With `TreeConsistent` it gives closure of the tree when the queue is empty.
3. `PropagationInv` carries both directions of the blacklist. Soundness: all
   that is marked (blacklisted or queued) is bannable. Completeness: a
   blacklisted type that has left the queue has blacklisted parents, and every
   node already tested, if it is a function type or has a function child, is
   marked. When queue and untested nodes run out, the blacklist is closed
   upward within the tree, so it contains the least such set (`BannableLeast`).
   The bare function types that the undefined read can lose are an explicit
   exception throughout, hence the theorem also says how much is lost.
4. `NamesInv` adds to `NamesAccounted` that each function left after
   duplicates are dropped has a name of its own: without it a verdict could
   collide with one given before.
5. `VerdictsSound` then follows step by step: the bad dependencies the filter
   computes are the bannable dependencies of the rules
   (`BadDependenciesExact`, from 2 and 3).
6. For the refinement, all steps but `Initialize`, `EndFinalize` and
   `CollectClassesFails` are invisible (`BusyStep`); at `EndFinalize` nothing
   is pending, so the two result lists are the verdicts on all the names.
7. The causes need two more invariants. `LocationsInv`: the dependencies of
   every saved function have a location, so a bad one among them can be
   reported. `DescentInv`: the types visited and queued are bannable, below
   the dependencies and in the tree, and what the descent relates to those
   visited is visited or queued. When the queue is empty, the types visited,
   with the missed ones below the dependencies, are closed under bannable
   children: a missed type is bare, so nothing lies behind it. They hold the
   least closed set, which is `BannableBelow`.
8. `Bannable` goes up from the function types; what a caller cares about goes
   down from the parameters. `BannableReaches` says that they agree: with it
   `NoCallbackWhitelisted` restates the verdicts as paths.

The undefined read is carried through as an exception, and not assumed away:
`BadDependenciesBounded` gives the filter's bad dependencies as those of the
rules but for bare function types, and from it `VerdictsBounded` and
`CausesBounded` follow for every `StaleFront`. `VerdictsCorrect` and what
rests on it cannot be had without their condition: with `StaleFront = BOOLEAN`
a function that is given a function type by value can be whitelisted.

### 4.2 The search (`GenerateCommandProofs`, `HeaderDependenciesProofs`)

| Theorem | Statement |
|---|---|
| `TypeCorrect` | `Spec => []TypeOK`, with the ranges of the iterator |
| `ActiveCompilesAlways` | `Spec => []ActiveCompiles` |
| `FinalCompilationSafe` | `Spec => []FinalCompilationRepeats`: why the last compilation can be refused |
| `PassRefusedAlways`, `SearchMaximal` | `Spec => []PassRefused`, hence `Spec => []NoHeaderLeftOut` |
| `OutputSafe` | `Spec => []OutputAfterCompilation` |
| `HeadersOnce` | `Spec => []EveryHeaderOnce` |
| `IncludedExactly` | `Spec => []IncludedExact` |
| `StepsAdvance` | `Spec => EveryStepAdvances`, in natural numbers |

`NoHeaderLeftOut` is not inductive: what it says of the end of the last pass
must be said of every moment of every pass, for the part the iterator has been
through and while nothing has been accepted; that is `PassRefused`.
`OutputInv` adds at which point of the handler each file has which state.
`HeadersInv` adds that the headers still in the list were enumerated, each
once, so that the erased one can be added to the bijection between the
included headers and the positions of the list. For `IncludedExactly`,
`NeedsInv` says that only importable headers are included as long as the answers
go by the needs (an answer is never forgotten, so they did before if they do
now); that none is missing follows from maximality: what was
refused after the final list has an unmet need, so the included set is closed,
and contains the least closed set.

### 4.3 Paths and files (`IncludePathsProofs`, `HeaderSearchProofs`)

| Theorem | Statement |
|---|---|
| `DirectivesExact` | the i-th directive of a header is the last i names of its path |
| `RelativePathTried` | the path from the header folder is among the directives, slash or not |
| `LongestDirective` | the last one is the path from the folder, or, with a slash, from the root |
| `DirectivesEndInName` | each directive ends in the name of the header |
| `UniquelyNamedSafe` | `Spec => []UniquelyNamedImported` |
| `DiscardedSafe` | `Spec => []DiscardedForItsContent` |
| `ImportedOnceSafe` | `Spec => []FilesImportedOnce` |
| `ImportedWhenUnique` | if every header has its name for itself, `Spec => []HeadersImported` |
| `WrittenApart` | if neither the library nor a file below its folder has the name of a header, `Spec => []WrittenAsCompiled` |

`HeaderSearchProofs` cites the theorems on the search through an instance of
`GenerateCommandProofs`; the assumptions of the instance are proved from those
of `IncludePaths` (`DirectivesAssumed`, `FoldersAssumed`). To them it adds
`SearchInv` (every accepted list names files only) and the theorems on
directives: a directive ends in the name of its header, so the file it names
has that name, and if only one file has it, that is the one.

The last two are about the claims that `header_same_name` and `header_quoted`
refute. For the second, what a quoted directive finds below the output folder
would be a file there with the name of a header (`JoinedPath`), which there is
not, so it is looked up in the list of folders as when it was compiled (`ResolvesAlike`).

### 4.4 Search and visitor together (`GenerateWithVisitorProofs`)

| Theorem | Statement |
|---|---|
| `GenerateImplemented` | `Spec` implements `GenerateCommand` (safety part), with `MangleErrors` if some function is `Unmanglable` |
| `LibraryBoundedAlways` | `Spec => []LibraryBounded`: the library is that of the list that it includes, but for functions whose every bad dependency is a bare function type given by value |
| `LibraryCorrect` | if `front()` of the empty queue is harmless, `Spec => []LibraryExact` |
| `GeneratorRefined` | under the same condition, `Spec` implements `AbiGenerator` (safety part) |
| `ExternsDeclaredInC` | under the same condition, and if mangled names are identifiers, `Spec => []ExternsDeclared` |

The proof composes the theorems of the parts instead of repeating them. A step
of the program is a step of the generate command or leaves it alone
(`StepOfGenerate`), and the same of the visitor (`StepOfSpec`), so the
invariants of both hold; the lists that are compiled are bounded by the number
of headers, because each header is given once (`ListLength`), hence the visitor
is only given units there are. `CompositionInv` ties the two together: no
visitor before the last compilation, the unit it works on is that of the list,
it is done, and could mangle every name, when the files are opened, nothing
follows the library. It needs
no condition on `StaleFront`: which lists are compiled and when does not depend
on the verdicts. When the
files are written nothing is pending in the visitor, so its two lists are the
verdicts on all the names of the unit (`ResultsExact`).

### 4.5 Why it ends

| Theorem | Statement |
|---|---|
| `StepsAdvance` | each step of the search and the output leaves less to do |
| `VisitorAdvances` | each step of the visitor does, until its results are there |
| `VisitorCountsDown` | the same in twelve natural numbers, if types and functions are finitely many |
| `ProgramAdvances` | each step of the two together does |

Liveness is beyond the prover, but what makes it true is not: an order in which
every step goes down. In the command it is lexicographic in five natural
numbers (`Remaining`): stages, headers in the list, whether another pass is
due, headers ahead of the iterator, directives ahead. A pass that includes
nothing makes no other due, and one that includes a header has a shorter list.
In the visitor it is lexicographic in the stage and eleven sets that the loops
empty, or whose complements they fill. The propagation goes around cycles, but
puts each type into `propagated_types` once; the descent in turn adds to
`visited_types` or shrinks its queue. With finitely many types and functions,
as in every unit that clang has read, their cardinalities go down in its place
(`RemainingFinite`). That an order of natural numbers cannot go down for ever,
and that fairness makes the step be taken, is the part
that is left to TLC (`Terminates`, `ImplementsAbiFilter`, `ImplementsAbiGenerator`).

### 4.6 Main (`MainProofs`)

| Theorem | Statement |
|---|---|
| `TypeCorrect` | `Spec => []TypeOK` |
| `ProfilesCorrect`, `FirstProfileStays` | `Spec => []ProfilesExact`, `Spec => FirstProfileKept` |
| `OptionsValid` | `Spec => []OptionsStayValid` |
| `CompileOutcomeCorrect` | `Spec => []CompileOutcome` |
| `DialectCorrect` | `Spec => []GnuForCompiledCxx` |

`ProfilesInv` says what the files read so far have given; `OptionsInv` says
that once a subcommand with options was parsed the shared object is valid,
whichever was parsed last, and that no error names an option (the map of
profiles does not change after the checks); `OutcomeInv` adds that the bitcode
file is untouched until the handler returns, and that nothing is executed that
was refused; `DialectInv` follows the settings from the defaults to the
invocation that replaces them, which is refused for `c94` only
(`UnnamedStandard`).

### 4.7 Only model-checked

Liveness under fairness, which is out of the prover's reach: that `finalize` ends (the
liveness of `ImplementsAbiFilter`), that the passes end (`Terminates`), that
the command comes to an end (`ImplementsAbiGenerator`), and
`ImplementsGenerateCommand`, whose safety part is `GenerateImplemented`.
The variants from which they follow are proved. Every invariant and action
property of a passing run is stated by a theorem. Of the six claims that the
code does not keep, four are proved under the condition that is missing in the
code; references (`visitor_by_reference`) have no such condition but that there are
none, and the folders of `-i` (`main_include_folders`) are never searched.
No module has a RECURSIVE operator, and no theorem is by induction over data.

## 5. What is not modelled, and why

* The text of the output files, friendly names, line numbers: layout.
* What `list_profiles`, `list_languages` and `version` print (that they run and
  succeed is in `Main`).
* On the command line: `--help`, and the options that only name outputs and base
  includes, which reach the text of a buffer. The mangling flag is not an option
  of `Main`: it chooses clang's mangler, and what that changes for the program,
  that some names cannot be mangled, is a constant of `GenerateCommand`.
* A second translation unit for one visitor: the program makes a visitor for one
  compilation. `ASTVisitor` allows more because the class does (`initialize`
  clears what a unit left behind), and `visitor_units` checks it.
* `istatus.h` and `std_filesystem.h`: a result record and an include.
* By far the largest part of the repository is vendored: the headers of whole
  platforms under `data/platforms`, which are input of the program and not part
  of it, next to the profiles, the build scripts and one end-to-end test driven
  by CMake. The models cover abigen's own sources, `src/src/`, and there is
  nothing in the rest that has a behaviour to model.

## 6. What is left

1. *Headers that conflict.* The search is greedy: an early header can exclude
   several others, and the library then depends on the order of the directory
   iterator. What is stated is that nothing can be added (`NoHeaderLeftOut`)
   and, without conflicts, that the order does not matter (`IncludedExact`);
   how far a greedy list can be from the best one is not.
2. *Two runs in a row.* `generate` and `compile` meet in the two files of the
   library. `generate_mangled` and `header_quoted` show where the second may
   not accept what the first wrote; a module that runs one after the other on
   one disk would say when it does.
