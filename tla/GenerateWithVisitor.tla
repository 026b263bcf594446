------------------------- MODULE GenerateWithVisitor -------------------------
(***************************************************************************)
(* The generate command and its AST visitor as one program: the search and *)
(* the output of GenerateCommand, with the last compilation opened up into *)
(* the run of ASTVisitor over what the list of headers parses to           *)
(* (ASTConsumer::HandleTranslationUnit), and the library that the writer   *)
(* makes of the results.                                                   *)
(*                                                                         *)
(* The two components keep their own variables; a step is a step of one of *)
(* them.  The visitor is not there during the search.                      *)
(***************************************************************************)
EXTENDS AbiRules, SequencesExt

CONSTANTS
    Header, Directive, directives, folders, OutOfMemory,   \* of GenerateCommand
    NoFunction, StaleFront,                                \* of ASTVisitor
    Unmanglable,  \* the functions whose name the mangler reports an error for
    ast,          \* the translation unit that a list of directives parses to
    Identifier,   \* the names that a declaration has in the source as well
    NoLibrary

(* A header gives one directive to a list, at most.                        *)
List == BoundedSeq(Directive, Cardinality(Header))

ASSUME GenerateAssumption ==
    /\ IsFiniteSet(Header)
    /\ directives \in [Header -> Seq(Directive) \ {<<>>}]
    /\ folders \in Seq(SUBSET Header)
    /\ \A i, j \in 1 .. Len(folders) : i # j => folders[i] \cap folders[j] = {}
    /\ OutOfMemory \in BOOLEAN
ASSUME VisitorAssumption ==
    /\ NoFunction \notin Function /\ Unmanglable \subseteq Function
    /\ StaleFront # {} /\ StaleFront \subseteq BOOLEAN
ASSUME AstAssumption == ast \in [List -> ASTs]
ASSUME IdentifierAssumption == Identifier \subseteq Name

VARIABLES
    pc, folder, header_files, header_desc_it, include_directive, active_include_headers,
    previous_active_header_count, compiles, fails, header_file, cpp_file, outcome,
    phase, ast_context, unvisited, decl, roots, queue, enumerated_type_list,
    type_dependency_tree, children, parents, type_info_map, function_map, unchecked,
    blacklisted_type_list, propagation_queue, propagated_types, unfiltered, bad_type_queue,
    visited_types, blacklisted_function_list, whitelisted_function_list,
    library       \* what the two output files say

Generate == INSTANCE GenerateCommand WITH MangleErrors <- Unmanglable # {}
Visitor == INSTANCE ASTVisitor

generateVars ==
    <<pc, folder, header_files, header_desc_it, include_directive, active_include_headers,
      previous_active_header_count, compiles, fails, header_file, cpp_file, outcome>>
visitorVars ==
    <<phase, ast_context, unvisited, decl, roots, queue, enumerated_type_list,
      type_dependency_tree, children, parents, type_info_map, function_map, unchecked,
      blacklisted_type_list, propagation_queue, propagated_types, unfiltered,
      bad_type_queue, visited_types, blacklisted_function_list, whitelisted_function_list>>
vars == <<generateVars, visitorVars, library>>

-----------------------------------------------------------------------------
Init == Generate!Init /\ Visitor!Init /\ library = NoLibrary

(* A plausible bug: the results are read before the visitor is done.       *)
VisitorRunning == phase # "created"

VisitorDone == phase \in {"finalized", "crashed"}

(* The visitor starts when clang has parsed the buffer, errors or not.     *)
HandleTranslationUnit ==
    /\ pc = "compile" /\ phase = "created"
    /\ Visitor!Initialize(ast[active_include_headers])
    /\ UNCHANGED <<generateVars, library>>

VisitorStep ==
    /\ pc = "compile" /\ Visitor!Step
    /\ UNCHANGED <<generateVars, library>>

(* finalize() asks for the name of every function, of patterns of function *)
(* templates too, whatever becomes of the function.                        *)
CannotMangle(tu) == tu.decls \cap Unmanglable # {}

(* processAST returns after the visitor, with the errors of the parse and  *)
(* those of the name mangler; or there was no memory for the compiler, and *)
(* the visitor did not run.                                                *)
FinalCompilation ==
    /\ Generate!FinalCompilation
    /\ \/ /\ VisitorDone
          /\ outcome' = "crashed" <=> phase = "crashed"
          /\ outcome' = "not compiled" => active_include_headers \in fails'
          /\ outcome' = "not mangled" => CannotMangle(ast_context)
          /\ outcome' = "running" => ~CannotMangle(ast_context)
       \/ OutOfMemory /\ phase = "created" /\ outcome' = "not compiled"
          /\ compiles' = compiles /\ fails' = fails
    /\ UNCHANGED <<visitorVars, library>>

(* The blacklisted functions go to a comment of the header, with their     *)
(* reasons; the whitelisted ones to the array of the implementation file.  *)
ABILibrary ==
    [header_list |-> active_include_headers,
     whitelisted |-> whitelisted_function_list,
     blacklisted |-> {<<e.mangled_name, e.reason>> : e \in blacklisted_function_list}]

WriteFiles ==
    /\ Generate!WriteFiles
    /\ library' = ABILibrary
    /\ UNCHANGED visitorVars

OtherStep ==
    /\ pc \notin {"compile", "write"} /\ Generate!Next
    /\ UNCHANGED <<visitorVars, library>>

Next ==
    \/ OtherStep
    \/ HandleTranslationUnit \/ VisitorStep \/ FinalCompilation
    \/ WriteFiles

Spec == Init /\ [][Next]_vars

(* Sequential code, and a compiler that always answers.                    *)
FairSpec == Spec /\ WF_vars(Next)

-----------------------------------------------------------------------------
(* A library is written for the list that was compiled last, which did     *)
(* compile; the visitor ran on what that very list declares, and on        *)
(* nothing else; and each function the list declares is in the library, or *)
(* left out of it, with the verdict of the rules, and under a name that    *)
(* the mangler did not complain of.                                        *)
LibraryExact ==
    library # NoLibrary =>
        /\ library.header_list \in compiles
        /\ ~CannotMangle(ast[library.header_list])
        /\ library.whitelisted \cap {v[1] : v \in library.blacklisted} = {}
        /\ {<<n, "Whitelisted">> : n \in library.whitelisted} \cup library.blacklisted
              = Verdicts(ast[library.header_list])

stage == CASE outcome = "running" -> "working"
           [] outcome = "success" -> "delivered"
           [] OTHER               -> "failed"

Generator == INSTANCE AbiGenerator

(* The command keeps the promise of AbiGenerator, and comes to an end.     *)
ImplementsAbiGenerator == Generator!GenSpec

(* GenerateCommand says the truth about the last compilation, which it     *)
(* takes for one step: the visitor always comes to an end, or stops the    *)
(* program, and changes nothing of the search; and where every name can be *)
(* mangled, what it does makes the handler refuse no list.                 *)
ImplementsGenerateCommand == Generate!FairSpec

-----------------------------------------------------------------------------
(* cmdline.cpp:126: "Compiles an ABI library".  The array of the library   *)
(* names each function by its mangled name, as an expression of the        *)
(* source; only a name that the headers declare can stand there.           *)
ExternsDeclared == library # NoLibrary => library.whitelisted \subseteq Identifier
==============================================================================
