--------------------------- MODULE GenerateCommand ---------------------------
(***************************************************************************)
(* The generate command (src/src/generate_command.cpp and what it calls):  *)
(* enumerate the headers of the given folders, add them one by one to a    *)
(* source buffer for as long as the buffer compiles, compile it once more  *)
(* with the AST visitor, and write the two files of the ABI library.       *)
(*                                                                         *)
(* The compiler is external.  The buffer is the base includes followed by  *)
(* one directive per accepted header, and whether it compiles depends on   *)
(* the list of directives alone, but nothing else is known: each list that *)
(* is tried is accepted or refused freely the first time, and the answer   *)
(* is remembered.                                                          *)
(***************************************************************************)
EXTENDS Naturals, Sequences, FiniteSets, SequencesExt, Functions

CONSTANTS
    Header,      \* the headers found on disk, one per folder and path
    Directive,   \* the texts an #include may take
    directives,  \* generateIncludeDirectives: the name, then the prefixed forms
    folders,     \* cmdline_options.header_folders: the headers of each, in order
    OutOfMemory, \* whether a compilation may fail for want of memory
    MangleErrors \* whether the name mangler may report an error

ASSUME DirectivesAssumption == directives \in [Header -> Seq(Directive) \ {<<>>}]
ASSUME FoldersAssumption ==
    /\ folders \in Seq(SUBSET Header)
    /\ \A i \in 1 .. Len(folders) : IsFiniteSet(folders[i])
    /\ \A i, j \in 1 .. Len(folders) : i # j => folders[i] \cap folders[j] = {}
ASSUME FailuresAssumption == OutOfMemory \in BOOLEAN /\ MangleErrors \in BOOLEAN

VARIABLES
    pc,
    folder,                        \* the folder enumerated next
    header_files,                  \* the headers that are not included yet
    header_desc_it,                \* the iterator over header_files
    include_directive,             \* the directive of that header tried next
    active_include_headers,
    previous_active_header_count,
    compiles, fails,               \* the lists the compiler accepted, and refused
    header_file, cpp_file,         \* the two output files
    outcome                        \* what the handler returned, and why

searchVars == <<header_desc_it, include_directive, active_include_headers,
                previous_active_header_count>>
oracleVars == <<compiles, fails>>
outputVars == <<header_file, cpp_file>>
vars == <<pc, folder, header_files, searchVars, oracleVars, outputVars, outcome>>

FileState == {"previous", "empty", "complete", "damaged"}
Outcome == {"running", "success", "not enumerated", "no compiler", "no visitor", "crashed",
            "not compiled", "not mangled", "no header file", "no implementation file"}

-----------------------------------------------------------------------------
Init ==
    /\ pc = "enumerate" /\ folder = 1 /\ header_files = <<>>
    /\ header_desc_it = 1 /\ include_directive = 1 /\ active_include_headers = <<>>
    /\ previous_active_header_count = 0
    /\ compiles = {} /\ fails = {}
    /\ header_file = "previous" /\ cpp_file = "previous" /\ outcome = "running"

Exit(why) == pc' = "exit" /\ outcome' = why

(* One folder: its headers come in the order of the directory iterator,    *)
(* which is unspecified.                                                   *)
EnumerateIncludeFiles ==
    /\ pc = "enumerate" /\ folder <= Len(folders)
    /\ \E found \in SetToSeqs(folders[folder]) : header_files' = header_files \o found
    /\ folder' = folder + 1
    /\ UNCHANGED <<pc, searchVars, oracleVars, outputVars, outcome>>

(* The folder does not exist, or cannot be read to the end.                *)
EnumerationFails ==
    /\ pc = "enumerate" /\ folder <= Len(folders)
    /\ Exit("not enumerated")
    /\ UNCHANGED <<folder, header_files, searchVars, oracleVars, outputVars>>

(* The profile may be unknown, the language undefined, or memory short.    *)
CreateCompilerInstance ==
    /\ pc = "enumerate" /\ folder > Len(folders)
    /\ \/ pc' = "pass" /\ UNCHANGED outcome
       \/ Exit("no compiler")
    /\ UNCHANGED <<folder, header_files, searchVars, oracleVars, outputVars>>

-----------------------------------------------------------------------------
(* A plausible bug: the status of the compilation is not looked at.        *)
ProcessASTUnchecked(list, succeeded) == UNCHANGED oracleVars

(* processAST: the answer of the compiler on a list of directives.  When   *)
(* createClangCompilerInstance fails, the list was not compiled at all;    *)
(* the handler sees no difference.                                         *)
ProcessAST(list, succeeded) ==
    \/ /\ succeeded /\ list \notin fails
       /\ compiles' = compiles \cup {list} /\ UNCHANGED fails
    \/ /\ ~succeeded /\ list \notin compiles
       /\ fails' = fails \cup {list} /\ UNCHANGED compiles
    \/ ~succeeded /\ OutOfMemory /\ UNCHANGED oracleVars

AtEnd == header_desc_it > Len(header_files)

NewIncludeHeaders ==
    Append(active_include_headers,
           directives[header_files[header_desc_it]][include_directive])

(* A plausible bug: the header stays in the list.                          *)
NotErased == header_files

(* A plausible bug: the iterator has moved on when the header is erased.   *)
ErasedNext ==
    IF header_desc_it = Len(header_files) THEN header_files
    ELSE RemoveAt(header_files, header_desc_it + 1)

Erased == RemoveAt(header_files, header_desc_it)

(* A plausible bug: one prefix too many, or the name alone.                *)
BeyondLastDirective == include_directive > Len(directives[header_files[header_desc_it]])
FirstDirectiveOnly == TRUE

LastDirective == include_directive = Len(directives[header_files[header_desc_it]])

(* A plausible bug: a single pass; passes until every header is included.  *)
SinglePass == TRUE
UntilAllIncluded == header_files = <<>>

NoProgress == previous_active_header_count = Len(active_include_headers)

BeginPass ==
    /\ pc = "pass"
    /\ pc' = "try"
    /\ previous_active_header_count' = Len(active_include_headers)
    /\ header_desc_it' = 1 /\ include_directive' = 1
    /\ UNCHANGED <<folder, header_files, active_include_headers, oracleVars, outputVars,
                   outcome>>

(* The header is erased from the list, and the iterator stays on the one   *)
(* that follows it.                                                        *)
AcceptDirective ==
    /\ pc = "try" /\ ~AtEnd
    /\ ProcessAST(NewIncludeHeaders, TRUE)
    /\ active_include_headers' = NewIncludeHeaders
    /\ header_files' = Erased
    /\ include_directive' = 1
    /\ UNCHANGED <<pc, folder, header_desc_it, previous_active_header_count, outputVars,
                   outcome>>

(* On to the next directive of the header, or to the next header.          *)
RejectDirective ==
    /\ pc = "try" /\ ~AtEnd
    /\ ProcessAST(NewIncludeHeaders, FALSE)
    /\ IF LastDirective
         THEN include_directive' = 1 /\ header_desc_it' = header_desc_it + 1
         ELSE include_directive' = include_directive + 1 /\ UNCHANGED header_desc_it
    /\ UNCHANGED <<pc, folder, header_files, active_include_headers,
                   previous_active_header_count, outputVars, outcome>>

EndPass ==
    /\ pc = "try" /\ AtEnd
    /\ pc' = IF NoProgress THEN "visit" ELSE "pass"
    /\ UNCHANGED <<folder, header_files, searchVars, oracleVars, outputVars, outcome>>

-----------------------------------------------------------------------------
(* A plausible bug: the final buffer includes the headers in another order. *)
FinalListReversed == Reverse(active_include_headers)

(* What stands between the search and the last compilation.                *)
CreateVisitor ==
    /\ pc = "visit"
    /\ \/ pc' = "compile" /\ UNCHANGED outcome
       \/ Exit("no visitor")
    /\ UNCHANGED <<folder, header_files, searchVars, oracleVars, outputVars>>

FinalList == active_include_headers

(* The last compilation, with the visitor enabled.  Each list was compiled *)
(* before, but for the empty one.  The errors are counted when the visitor *)
(* has run, and the name mangler it calls reports to the same engine: a    *)
(* list that parses is refused when a name cannot be mangled.  The visitor *)
(* itself may stop the program (ASTVisitor, phase "crashed").              *)
FinalCompilation ==
    /\ pc = "compile"
    /\ \/ ProcessAST(FinalList, TRUE) /\ pc' = "render" /\ UNCHANGED outcome
       \/ MangleErrors /\ ProcessAST(FinalList, TRUE) /\ Exit("not mangled")
       \/ ProcessAST(FinalList, FALSE) /\ Exit("not compiled")
       \/ Exit("crashed") /\ UNCHANGED oracleVars
    /\ UNCHANGED <<folder, header_files, searchVars, outputVars>>

-----------------------------------------------------------------------------
(* generateABILibrary: both files are opened, which truncates them, before *)
(* either is written.  The streams are not checked again: a failed write   *)
(* leaves a damaged file and no error.                                     *)
OpenHeaderFile ==
    /\ pc = "render"
    /\ \/ header_file' = "empty" /\ pc' = "open" /\ UNCHANGED outcome
       \/ Exit("no header file") /\ UNCHANGED header_file
    /\ UNCHANGED <<folder, header_files, searchVars, oracleVars, cpp_file>>

(* A plausible bug: the implementation file is opened for good, or not,    *)
(* and the result is not tested.                                           *)
OpenUnchecked ==
    /\ pc = "open"
    /\ cpp_file' = "empty"
    /\ \/ pc' = "write" /\ UNCHANGED outcome
       \/ Exit("no implementation file")
    /\ UNCHANGED <<folder, header_files, searchVars, oracleVars, header_file>>

OpenImplementationFile ==
    /\ pc = "open"
    /\ \/ cpp_file' = "empty" /\ pc' = "write" /\ UNCHANGED outcome
       \/ Exit("no implementation file") /\ UNCHANGED cpp_file
    /\ UNCHANGED <<folder, header_files, searchVars, oracleVars, header_file>>

WriteFiles ==
    /\ pc = "write"
    /\ header_file' \in {"complete", "damaged"} /\ cpp_file' \in {"complete", "damaged"}
    /\ Exit("success")
    /\ UNCHANGED <<folder, header_files, searchVars, oracleVars>>

-----------------------------------------------------------------------------
Next ==
    \/ EnumerateIncludeFiles \/ EnumerationFails \/ CreateCompilerInstance
    \/ BeginPass \/ AcceptDirective \/ RejectDirective \/ EndPass
    \/ CreateVisitor \/ FinalCompilation
    \/ OpenHeaderFile \/ OpenImplementationFile \/ WriteFiles

Spec == Init /\ [][Next]_vars

(* Sequential code, and a compiler that always answers.                    *)
FairSpec == Spec /\ WF_vars(Next)

-----------------------------------------------------------------------------
(* Type correctness, with the ranges of the iterator and of the directive. *)
TypeOK ==
    /\ pc \in {"enumerate", "pass", "try", "visit", "compile", "render", "open", "write",
               "exit"}
    /\ folder \in 1 .. Len(folders) + 1
    /\ header_files \in Seq(Header)
    /\ header_desc_it \in Nat \ {0} /\ include_directive \in Nat \ {0}
    /\ pc = "try" => header_desc_it <= Len(header_files) + 1
    /\ pc = "try" /\ ~AtEnd =>
          include_directive <= Len(directives[header_files[header_desc_it]])
    /\ active_include_headers \in Seq(Directive)
    /\ previous_active_header_count \in Nat
    /\ compiles \subseteq Seq(Directive) /\ fails \subseteq Seq(Directive)
    /\ header_file \in FileState /\ cpp_file \in FileState
    /\ outcome \in Outcome /\ (pc = "exit" <=> outcome # "running")

(* The headers of the ABI library compile together, in the order in which  *)
(* the library includes them; and the compiler answered consistently.      *)
ActiveCompiles ==
    /\ active_include_headers # <<>> => active_include_headers \in compiles
    /\ compiles \cap fails = {}

(* When the passes stop, none of the headers that are left could still be  *)
(* added: each of its directives was refused after the final list, and not *)
(* only after a shorter one.  A compilation that failed for want of memory *)
(* counts as a refusal and is not repeated in the pass.                    *)
Refused(h) ==
    \A i \in 1 .. Len(directives[h]) :
        Append(active_include_headers, directives[h][i]) \in fails

NoHeaderLeftOut ==
    ~OutOfMemory /\ pc \in {"visit", "compile", "render", "open", "write"} =>
        \A j \in 1 .. Len(header_files) : Refused(header_files[j])

(* While a pass runs and has accepted nothing, the headers it has passed   *)
(* over, and the directives of the current one, were refused after the     *)
(* list as it stands; a header it accepted makes another pass follow.      *)
PassRefused ==
    /\ pc = "try" =>
          /\ previous_active_header_count <= Len(active_include_headers)
          /\ ~OutOfMemory /\ previous_active_header_count = Len(active_include_headers) =>
                /\ \A j \in 1 .. header_desc_it - 1 : Refused(header_files[j])
                /\ ~AtEnd => \A i \in 1 .. include_directive - 1 :
                      Append(active_include_headers,
                             directives[header_files[header_desc_it]][i]) \in fails
    /\ NoHeaderLeftOut

(* Every header that was enumerated is either still in the list, once, or  *)
(* gave exactly one of its directives to the library.                      *)
Enumerated == UNION {folders[i] : i \in 1 .. folder - 1}
Included == Enumerated \ ToSet(header_files)

EveryHeaderOnce ==
    /\ IsInjective(header_files)
    /\ \E given \in Bijection(Included, DOMAIN active_include_headers) :
          \A h \in Included : active_include_headers[given[h]] \in ToSet(directives[h])

(* What the comment "We now have a list of includes that work fine" before *)
(* the last compilation is worth.  The list that was found parses again:   *)
(* it is refused only when no header was included, and the base includes   *)
(* alone do not compile; when memory runs out; or, although it parses, for *)
(* the sake of a name that the visitor could not mangle.                   *)
FinalCompilationRepeats ==
    /\ outcome = "not compiled" => active_include_headers = <<>> \/ OutOfMemory
    /\ outcome = "not mangled" => MangleErrors /\ active_include_headers \in compiles

(* The output files are touched only by a run that compiled, and the       *)
(* implementation file only by a run that succeeds; of a library that is   *)
(* refused the header file alone may be left, empty.                       *)
OutputAfterCompilation ==
    /\ header_file # "previous" => active_include_headers \in compiles
    /\ cpp_file # "previous" => header_file # "previous" /\ outcome \in {"running", "success"}
    /\ outcome # "success" =>
          header_file \in {"previous", "empty"} /\ cpp_file \in {"previous", "empty"}
    /\ outcome = "success" => "empty" \notin {header_file, cpp_file}

(* What is left to do, the part that counts most first: the stages of the  *)
(* handler; the folders, or the headers, that are left; whether another    *)
(* pass is due; the headers, and the directives, that are left in it.      *)
StagesLeft ==
    CASE pc = "enumerate" -> 7 [] pc \in {"pass", "try"} -> 6 [] pc = "visit" -> 5
      [] pc = "compile" -> 4   [] pc = "render" -> 3          [] pc = "open" -> 2
      [] pc = "write" -> 1     [] OTHER -> 0

ItemsLeft ==
    IF pc = "enumerate" THEN Len(folders) + 1 - folder ELSE Len(header_files)

PassesDue ==
    IF pc = "pass" \/ previous_active_header_count # Len(active_include_headers) THEN 1 ELSE 0

HeadersAhead == IF pc = "try" THEN Len(header_files) + 2 - header_desc_it ELSE 0

DirectivesAhead ==
    IF pc = "try" /\ ~AtEnd
      THEN Len(directives[header_files[header_desc_it]]) - include_directive ELSE 0

Remaining == <<StagesLeft, ItemsLeft, PassesDue, HeadersAhead, DirectivesAhead>>

Below(a, b) == \E i \in 1 .. 5 : a[i] < b[i] /\ \A j \in 1 .. i - 1 : a[j] = b[j]

(* No step of the command leaves it with as much to do as before: the list *)
(* of headers shrinks, or the pass moves on, or the pass that follows is   *)
(* paid for by a header that was included.  So there is no way to repeat   *)
(* passes for ever, whatever the compiler answers.                         *)
EveryStepAdvances == [][Below(Remaining', Remaining)]_vars

(* The passes come to an end: the command returns, or stops.               *)
Terminates == <>(pc = "exit")
=============================================================================
