-------------------------------- MODULE Main --------------------------------
(***************************************************************************)
(* The program from main() to its exit code: the profile manager, the      *)
(* command line, the dispatch to one handler, and the compile handler.     *)
(* The generate handler is reduced to how it sets up the compiler and to   *)
(* whether it succeeds (GenerateCommand has the rest).                     *)
(*                                                                         *)
(* The command line is a set of subcommands with their options.  All of    *)
(* them write to one CommandLineOptions object: what one subcommand gives  *)
(* replaces what another gave, and a flag stays set.  CLI11 chooses the    *)
(* order in which they do; every order is considered here.                 *)
(***************************************************************************)
EXTENDS ProfileManager, Naturals

CONSTANTS
    Folder,        \* the folders that options name
    Definition,    \* the words given as a language
    CommandLines   \* the command lines the program may be given

Command == {"version", "generate", "compile", "list_profiles", "list_languages"}

(* language_descriptors, with the family and the standard of each entry.   *)
language_descriptors ==
    [c89 |-> <<"C", 89>>, c94 |-> <<"C", 94>>, c99 |-> <<"C", 99>>, c11 |-> <<"C", 11>>,
     cxx98 |-> <<"CXX", 98>>, cxx11 |-> <<"CXX", 11>>, cxx14 |-> <<"CXX", 14>>]

Subcommand ==
    [command : Command, profile_name : ProfileName, language : Definition, gnu : BOOLEAN,
     include_folders : SUBSET Folder, header_folders : SUBSET Folder]

ASSUME CommandLinesAssumption == CommandLines \subseteq SUBSET Subcommand

NotGiven == "not given"
NoCommand == "no command"
NoCompiler == [language |-> "none", gnu |-> FALSE, folders |-> {}, refused |-> FALSE]

VARIABLES
    pc,
    args,             \* the subcommands whose options are not stored yet
    got_subcommand,   \* the commands parsed so far
    cmdline_options,
    handler,          \* the command whose handler runs
    compiler,         \* the settings of the clang instance
    bitcode,          \* the file the compile command writes
    error,            \* why the program, or the handler, gave up
    exit_code

mainVars == <<pc, args, got_subcommand, cmdline_options, handler, compiler, bitcode, error,
              exit_code>>
vars == <<pmVars, mainVars>>

-----------------------------------------------------------------------------
Init ==
    /\ PMInit
    /\ pc = "profiles" /\ args \in CommandLines /\ got_subcommand = {}
    /\ cmdline_options = [profile_name |-> NotGiven, language |-> NotGiven, gnu |-> FALSE,
                          include_folders |-> {}, header_folders |-> {}]
    /\ handler = NoCommand /\ compiler = NoCompiler /\ bitcode = "previous"
    /\ error = "none" /\ exit_code = 0

(* Exit code 1 stands for every code other than 0.                         *)
Exit(code, why) == pc' = "exit" /\ exit_code' = code /\ error' = why

(* ProfileManager::create, one step of it at a time.                       *)
CreateProfiles == pc = "profiles" /\ PMNext /\ UNCHANGED mainVars

(* An exception that main() does not catch ends the program as well.       *)
ProfilesFail ==
    /\ pc = "profiles" /\ pm \in {"failed", "crashed"}
    /\ Exit(1, IF pm = "failed" THEN status ELSE "uncaught exception")
    /\ UNCHANGED <<pmVars, args, got_subcommand, cmdline_options, handler, compiler, bitcode>>

ProfilesReady ==
    /\ pc = "profiles" /\ pm = "created"
    /\ pc' = "parsing"
    /\ UNCHANGED <<pmVars, args, got_subcommand, cmdline_options, handler, compiler, bitcode,
                   error, exit_code>>

-----------------------------------------------------------------------------
HasOptions(c) == c \in {"generate", "compile"}

(* A plausible bug: only the generate command checks its options.          *)
CheckedByGenerate(given) ==
    given.command = "generate" =>
        /\ given.profile_name \in DOMAIN profile_descriptors
        /\ given.language \in DOMAIN language_descriptors

(* The checks on the profile and on the language.                          *)
OptionsAreValid(given) ==
    HasOptions(given.command) =>
        /\ given.profile_name \in DOMAIN profile_descriptors
        /\ given.language \in DOMAIN language_descriptors

OptionsWith(given) ==
    IF ~HasOptions(given.command) THEN cmdline_options
    ELSE [profile_name |-> given.profile_name, language |-> given.language,
          gnu |-> cmdline_options.gnu \/ given.gnu,
          include_folders |-> IF given.include_folders = {} THEN cmdline_options.include_folders
                              ELSE given.include_folders,
          header_folders |-> IF given.command = "generate" THEN given.header_folders
                             ELSE cmdline_options.header_folders]

ParseSubcommand ==
    /\ pc = "parsing"
    /\ \E given \in args :
          /\ OptionsAreValid(given)
          /\ args' = args \ {given}
          /\ got_subcommand' = got_subcommand \cup {given.command}
          /\ cmdline_options' = OptionsWith(given)
    /\ UNCHANGED <<pmVars, pc, handler, compiler, bitcode, error, exit_code>>

(* An option is refused, or no subcommand was given.                       *)
ParseFails ==
    /\ pc = "parsing"
    /\ \/ \E given \in args : ~OptionsAreValid(given)
       \/ args = {} /\ got_subcommand = {}
    /\ Exit(1, "command line")
    /\ UNCHANGED <<pmVars, args, got_subcommand, cmdline_options, handler, compiler, bitcode>>

(* The first command of the map that was given, in hash order.             *)
Dispatch ==
    /\ pc = "parsing" /\ args = {}
    /\ \E c \in got_subcommand : handler' = c /\ pc' = "handler"
    /\ UNCHANGED <<pmVars, args, got_subcommand, cmdline_options, compiler, bitcode, error,
                   exit_code>>

(* version, list_profiles, list_languages: they print, and succeed.        *)
PrintHandler ==
    /\ pc = "handler" /\ ~HasOptions(handler)
    /\ Exit(0, "none")
    /\ UNCHANGED <<pmVars, args, got_subcommand, cmdline_options, handler, compiler, bitcode>>

-----------------------------------------------------------------------------
(* The two tests that open both handlers.                                  *)
KnownOptions ==
    /\ cmdline_options.profile_name \in DOMAIN profile_descriptors
    /\ cmdline_options.language \in DOMAIN language_descriptors

Family == language_descriptors[cmdline_options.language][1]

(* The standards that createClangCompilerInstance has a case for.          *)
ClangStandards ==
    {<<"CXX", 98>>, <<"CXX", 11>>, <<"CXX", 14>>,
     <<"C", 89>>, <<"C", 94>>, <<"C", 99>>, <<"C", 11>>}

(* setLangDefaults sets every language option from the standard, and none  *)
(* of these standards has the GNU extensions.                              *)
SetLangDefaults(settings) == [settings EXCEPT !.gnu = FALSE]

(* A plausible bug: the flag is looked at after the defaults are set.      *)
GnuSetLast(folders) ==
    [SetLangDefaults([language |-> Family, gnu |-> FALSE, folders |-> folders,
                      refused |-> FALSE])
        EXCEPT !.gnu = cmdline_options.gnu]

CompilerSettings(folders) ==
    SetLangDefaults([language |-> Family, gnu |-> cmdline_options.gnu, folders |-> folders,
                     refused |-> FALSE])

CreateClangCompilerInstance(folders) ==
    IF KnownOptions /\ language_descriptors[cmdline_options.language] \in ClangStandards
      THEN \/ /\ compiler' = CompilerSettings(folders)
              /\ pc' = "compiler ready" /\ UNCHANGED <<error, exit_code>>
           \/ Exit(1, "MemoryAllocationFailure") /\ UNCHANGED compiler
      ELSE /\ Exit(1, IF KnownOptions THEN "InvalidLanguageStandard" ELSE "unknown option")
           /\ UNCHANGED compiler

(* The folders that are scanned become the additional include folders.     *)
(* The clang instance is made anew in each processAST; were it refused the *)
(* first time, it would be every time, and the handler would fail as well. *)
GenerateCreatesCompiler ==
    /\ pc = "handler" /\ handler = "generate"
    /\ CreateClangCompilerInstance(cmdline_options.header_folders)
    /\ UNCHANGED <<pmVars, args, got_subcommand, cmdline_options, handler, bitcode>>

GenerateSucceeds ==
    /\ pc = "compiler ready" /\ handler = "generate"
    /\ Exit(0, "none")
    /\ UNCHANGED <<pmVars, args, got_subcommand, cmdline_options, handler, compiler, bitcode>>

(* Before there is a compiler (the folders are enumerated first) or after. *)
GenerateFails ==
    /\ pc \in {"handler", "compiler ready"} /\ handler = "generate"
    /\ Exit(1, "generate")
    /\ UNCHANGED <<pmVars, args, got_subcommand, cmdline_options, handler, compiler, bitcode>>

CompileCreatesCompiler ==
    /\ pc = "handler" /\ handler = "compile"
    /\ CreateClangCompilerInstance(cmdline_options.include_folders)
    /\ UNCHANGED <<pmVars, args, got_subcommand, cmdline_options, handler, bitcode>>

(* The standards that have a name made of the language and of the year,    *)
(* which is what -std= is given: that of 1994 goes by iso9899:199409.      *)
NamedStandards == ClangStandards \ {<<"C", 94>>}

(* The invocation built from clang_arguments replaces the settings; it has *)
(* the folders of the profile, and GNU extensions for C++ only.  An        *)
(* unknown -std= is an error that CreateFromArgs reports and the handler   *)
(* does not look at: the language falls back to clang's default, which is  *)
(* a GNU dialect, and the error stays counted.                             *)
SetInvocation ==
    /\ pc = "compiler ready" /\ handler = "compile"
    /\ LET named == language_descriptors[cmdline_options.language] \in NamedStandards
       IN  compiler' = [language |-> Family, folders |-> {}, refused |-> ~named,
                        gnu |-> named => Family = "CXX" /\ cmdline_options.gnu]
    /\ pc' = "invocation set"
    /\ UNCHANGED <<pmVars, args, got_subcommand, cmdline_options, handler, bitcode, error,
                   exit_code>>

(* A plausible bug: the module is written whether or not it compiled.      *)
ExecuteUnchecked ==
    /\ pc = "invocation set"
    /\ pc' = "executed" /\ error' \in {"none", "compilation"} /\ UNCHANGED exit_code
    /\ UNCHANGED <<pmVars, args, got_subcommand, cmdline_options, handler, compiler, bitcode>>

(* The compilation fails on any error, those of the invocation included.   *)
(* Then the handler returns 1, which converts to true: main() exits with 0. *)
ExecuteAction ==
    /\ pc = "invocation set"
    /\ \/ ~compiler.refused /\ pc' = "executed" /\ UNCHANGED <<error, exit_code>>
       \/ Exit(0, "compilation")
    /\ UNCHANGED <<pmVars, args, got_subcommand, cmdline_options, handler, compiler, bitcode>>

(* The file may fail to open, which is reported.  A failed write is not    *)
(* looked at, but the destructor of the stream stops the program over it.  *)
WriteBitcode ==
    /\ pc = "executed"
    /\ \/ bitcode' = "complete" /\ Exit(0, error)
       \/ bitcode' = "damaged" /\ Exit(1, "write")
       \/ Exit(1, "open") /\ UNCHANGED bitcode
    /\ UNCHANGED <<pmVars, args, got_subcommand, cmdline_options, handler, compiler>>

-----------------------------------------------------------------------------
Next ==
    \/ CreateProfiles \/ ProfilesFail \/ ProfilesReady
    \/ ParseSubcommand \/ ParseFails \/ Dispatch \/ PrintHandler
    \/ GenerateCreatesCompiler \/ GenerateSucceeds \/ GenerateFails
    \/ CompileCreatesCompiler \/ SetInvocation \/ ExecuteAction \/ WriteBitcode

Spec == Init /\ [][Next]_vars

-----------------------------------------------------------------------------
(* Type correctness.                                                       *)
TypeOK ==
    /\ disk \in Disks
    /\ pm \in {"locating", "enumerating", "created", "failed", "crashed"}
    /\ profiles_root \in Root \cup {NoRoot}
    /\ pm \in {"enumerating", "created"} => profiles_root \in Root
    /\ unread \subseteq File
    /\ \A map \in {output, profile_descriptors} :
          /\ DOMAIN map \subseteq ProfileName
          /\ map \in [DOMAIN map -> File]
    /\ pc \in {"profiles", "parsing", "handler", "compiler ready", "invocation set",
               "executed", "exit"}
    /\ args \subseteq Subcommand /\ got_subcommand \subseteq Command
    /\ cmdline_options.gnu \in BOOLEAN
    /\ cmdline_options.include_folders \subseteq Folder
    /\ cmdline_options.header_folders \subseteq Folder
    /\ handler \in Command \cup {NoCommand}
    /\ pc \in {"handler", "compiler ready", "invocation set", "executed"} => handler \in Command
    /\ compiler \in [language : {"C", "CXX", "none"}, gnu : BOOLEAN, folders : SUBSET Folder,
                     refused : BOOLEAN]
    /\ bitcode \in {"previous", "complete", "damaged"}
    /\ exit_code \in {0, 1}

(* Whatever subcommands are given, in whatever order they overwrite the    *)
(* one CommandLineOptions object, and whichever of them is dispatched: a   *)
(* handler that needs a profile and a language finds ones that exist, and  *)
(* createClangCompilerInstance has a case for every language of the table. *)
(* (It does not follow that it can be compiled: see CompileOutcome.)       *)
OptionsStayValid ==
    /\ pc \in {"handler", "compiler ready", "invocation set", "executed"} =>
          (HasOptions(handler) => KnownOptions)
    /\ error \notin {"unknown option", "InvalidLanguageStandard"}

(* The bitcode file is written by a compile command whose compilation      *)
(* succeeded, never from arguments that clang refused, and so never for    *)
(* c94.  An exit code of 0 means that the file is complete, a write error  *)
(* that the system reports included, or that the compilation failed: that  *)
(* leaves the old file and an exit code of 0.                              *)
CompileOutcome ==
    /\ bitcode # "previous" =>
          handler = "compile" /\ error # "compilation" /\ ~compiler.refused
    /\ pc = "exit" /\ handler = "compile" /\ exit_code = 0 =>
          bitcode = "complete" \/ error = "compilation"
    /\ pc = "exit" /\ error = "compilation" => bitcode = "previous" /\ exit_code = 0

(* When the compiler parses, GNU extensions are on for a C++ library that  *)
(* is compiled with the flag, and off in every other case but one,         *)
(* whatever the subcommands gave: the search itself never has them, so a   *)
(* library may be compiled in another dialect than the one its headers     *)
(* were accepted in.  The one case is that of compile -l c94, which clang  *)
(* refuses: then they are on, and nothing can come of the compilation.     *)
Compiling ==
    \/ pc = "compiler ready" /\ handler = "generate"
    \/ pc = "invocation set"

GnuForCompiledCxx ==
    Compiling =>
        /\ compiler.refused <=> handler = "compile" /\ cmdline_options.language = "c94"
        /\ compiler.gnu <=>
              \/ handler = "compile" /\ Family = "CXX" /\ cmdline_options.gnu
              \/ compiler.refused

-----------------------------------------------------------------------------
(* A claim of the comments of the command line options, which is not kept. *)

(* cmdline.h:53: "Additional include directories"; the compiler is given   *)
(* the folders of -i.                                                      *)
AdditionalFoldersSearched ==
    Compiling => cmdline_options.include_folders \subseteq compiler.folders
=============================================================================
