------------------------------ MODULE MainProofs ------------------------------
(***************************************************************************)
(* Theorems about the profile manager and the program around the handlers, *)
(* for every set of profile files, every state of the two root folders and *)
(* every command line.                                                     *)
(***************************************************************************)
EXTENDS Main, TLAPS

Status == {"none", "succeeded", "MissingProfilesRoot", "MemoryAllocationFailure",
           "ProfileEnumerationError", "ProfilesMissing"}

-----------------------------------------------------------------------------
(* The steps of main() after the profiles leave the profile manager alone. *)
LEMMA ProfileSteps == [Next]_vars => PMNext \/ UNCHANGED pmVars
BY DEF Next, vars, CreateProfiles, ProfilesFail, ProfilesReady, ParseSubcommand, ParseFails,
       Dispatch, PrintHandler, GenerateCreatesCompiler, GenerateSucceeds, GenerateFails,
       CompileCreatesCompiler, SetInvocation, ExecuteAction, WriteBitcode

(* What the files read so far have given.                                  *)
ReadFrom(files) ==
    /\ DOMAIN output = {content[f] : f \in files} \ {Malformed}
    /\ \A n \in DOMAIN output : output[n] \in files /\ content[output[n]] = n

ProfilesInv ==
    /\ disk \in Disks /\ status \in Status
    /\ pm \in {"locating", "enumerating"} => profile_descriptors = NoProfiles /\ status = "none"
    /\ pm = "locating" => output = NoProfiles /\ unread = {}
    /\ pm = "enumerating" =>
          /\ profiles_root \in Root
          /\ unread \subseteq disk.files[profiles_root]
          /\ ReadFrom(disk.files[profiles_root] \ unread)
          /\ profiles_root = "working" \/ "working" \notin disk.exists
    /\ status = "ProfilesMissing" => pm = "failed"
    /\ ProfilesExact

LEMMA LoadProfileKeeps ==
    ASSUME ProfilesInv, NEW f \in File, LoadProfile(f) PROVE ProfilesInv'
<1> DEFINE all == disk.files[profiles_root]
<1>1. /\ pm = "enumerating" /\ f \in unread /\ UNCHANGED <<disk, profiles_root,
                                                           profile_descriptors>>
      /\ unread \subseteq all /\ ReadFrom(all \ unread)
      /\ profile_descriptors = NoProfiles /\ status = "none"
  BY DEF LoadProfile, ProfilesInv
<1>2. DOMAIN profile_descriptors = {}
  BY <1>1 DEF NoProfiles
<1>3. /\ unread' = unread \ {f} /\ pm' = pm /\ status' = status
      /\ output' = IF content[f] = Malformed THEN output ELSE Insert(f)
  BY <1>2 DEF LoadProfile
<1>4. all \ unread' = (all \ unread) \cup {f}
  BY <1>1, <1>3
<1> HIDE DEF all
<1>5. ReadFrom(all \ unread)'
  <2>1. all' = all
    BY <1>1 DEF all
  <2>2. {content[g] : g \in all \ unread'} = {content[g] : g \in all \ unread} \cup {content[f]}
    BY <1>4
  <2>3. CASE content[f] = Malformed
    BY <1>1, <1>3, <1>4, <2>1, <2>2, <2>3 DEF ReadFrom
  <2>4. CASE content[f] # Malformed
    <3>1. /\ DOMAIN output' = DOMAIN output \cup {content[f]}
          /\ \A n \in DOMAIN output' :
                output'[n] = IF n \in DOMAIN output THEN output[n] ELSE f
      BY <1>3, <2>4 DEF Insert
    <3>2. DOMAIN output' = {content[g] : g \in all \ unread'} \ {Malformed}
      BY <1>1, <2>2, <2>4, <3>1 DEF ReadFrom
    <3>3. ASSUME NEW n \in DOMAIN output'
          PROVE  output'[n] \in all \ unread' /\ content[output'[n]] = n
      BY <1>1, <1>4, <3>1 DEF ReadFrom
    <3> QED
      BY <2>1, <3>2, <3>3 DEF ReadFrom
  <2> QED
    BY <2>3, <2>4
<1> QED
  BY <1>1, <1>3, <1>5 DEF ProfilesInv, ProfilesExact, all

LEMMA ProfilesNext == ProfilesInv /\ [Next]_vars => ProfilesInv'
<1> SUFFICES ASSUME ProfilesInv, PMNext \/ UNCHANGED pmVars PROVE ProfilesInv'
  BY ProfileSteps
<1>1. CASE GetProfilesRootPath
  <2>1. PICK r \in disk.exists :
          /\ r = "install" => "working" \notin disk.exists
          /\ profiles_root' = r /\ unread' = disk.files[r]
    BY <1>1 DEF GetProfilesRootPath
  <2>2. /\ pm' = "enumerating" /\ UNCHANGED <<disk, output, profile_descriptors, status>>
        /\ output = NoProfiles /\ profile_descriptors = NoProfiles /\ status = "none"
        /\ disk \in Disks
    BY <1>1 DEF GetProfilesRootPath, ProfilesInv
  <2>3. r \in Root
    BY <2>2, DisksAssumption
  <2>4. ReadFrom(disk.files[profiles_root] \ unread)'
    <3>1. disk'.files[profiles_root'] \ unread' = {}
      BY <2>1, <2>2
    <3>2. DOMAIN output' = {}
      BY <2>2 DEF NoProfiles
    <3> QED
      BY <3>1, <3>2 DEF ReadFrom
  <2> QED
    BY <2>1, <2>2, <2>3, <2>4 DEF ProfilesInv, ProfilesExact, Root, Status
<1>2. CASE MissingProfilesRoot
  BY <1>2 DEF MissingProfilesRoot, CreateFails, ProfilesInv, ProfilesExact, Status
<1>3. CASE AllocationFails
  BY <1>3 DEF AllocationFails, CreateFails, ProfilesInv, ProfilesExact, Status
<1>4. CASE CurrentPathThrows
  BY <1>4 DEF CurrentPathThrows, ProfilesInv, ProfilesExact, Status
<1>5. CASE \E f \in File : LoadProfile(f)
  BY <1>5, LoadProfileKeeps
<1>6. CASE EnumerationThrows
  BY <1>6 DEF EnumerationThrows, CreateFails, ProfilesInv, ProfilesExact, Status
<1>7. CASE EndEnumeration
  <2>1. /\ pm = "enumerating" /\ unread = {} /\ profile_descriptors' = output
        /\ UNCHANGED <<disk, profiles_root>> /\ ReadFrom(disk.files[profiles_root])
        /\ profiles_root = "working" \/ "working" \notin disk.exists
        /\ disk \in Disks
    BY <1>7 DEF EndEnumeration, ProfilesInv
  <2>2. CASE output = NoProfiles
    <3>1. DOMAIN output = {}
      BY <2>2 DEF NoProfiles
    <3>2. {content[f] : f \in disk.files[profiles_root]} \subseteq {Malformed}
      BY <2>1, <3>1 DEF ReadFrom
    <3> QED
      BY <1>7, <2>1, <2>2, <3>2
         DEF EndEnumeration, CreateFails, ProfilesInv, ProfilesExact, Status
  <2>3. CASE output # NoProfiles
    BY <1>7, <2>1, <2>3 DEF EndEnumeration, ReadFrom, ProfilesInv, ProfilesExact, Status
  <2> QED
    BY <2>2, <2>3
<1>8. CASE UNCHANGED pmVars
  BY <1>8 DEF pmVars, ProfilesInv, ProfilesExact, ReadFrom
<1> QED
  BY <1>1, <1>2, <1>3, <1>4, <1>5, <1>6, <1>7, <1>8 DEF PMNext

LEMMA ProfilesInvAlways == Spec => []ProfilesInv
<1>1. Init => ProfilesInv
  BY DEF Init, PMInit, ProfilesInv, ProfilesExact, Status
<1> QED
  BY <1>1, ProfilesNext, PTL DEF Spec

(* A manager that was created knows the profiles of the files it read, all *)
(* of them and nothing else, in whatever order they were read.             *)
THEOREM ProfilesCorrect == Spec => []ProfilesExact
<1>1. ProfilesInv => ProfilesExact
  BY DEF ProfilesInv
<1> QED
  BY <1>1, ProfilesInvAlways, PTL

(* The profile that was read first stands for its name to the end.         *)
THEOREM FirstProfileStays == Spec => FirstProfileKept
<1> DEFINE Kept ==
      \A n \in DOMAIN output :
          /\ pm' = "enumerating" => n \in DOMAIN output' /\ output'[n] = output[n]
          /\ pm' = "created" => profile_descriptors'[n] = output[n]
<1>1. [Next]_vars => [Kept]_pmVars
  <2> SUFFICES ASSUME PMNext PROVE Kept
    BY ProfileSteps
  <2>1. CASE \E f \in File : LoadProfile(f)
    BY <2>1 DEF LoadProfile, Insert, CreateFails
  <2>2. CASE ~\E f \in File : LoadProfile(f)
    BY <2>2 DEF PMNext, GetProfilesRootPath, MissingProfilesRoot, AllocationFails,
                CurrentPathThrows, EnumerationThrows, EndEnumeration, CreateFails
  <2> QED
    BY <2>1, <2>2
<1> QED
  BY <1>1, PTL DEF Spec, FirstProfileKept

-----------------------------------------------------------------------------
(* The options of the handler that runs.                                   *)

LEMMA DescriptorsKnown ==
    ASSUME KnownOptions
    PROVE  /\ language_descriptors[cmdline_options.language] \in ClangStandards
           /\ Family \in {"C", "CXX"}
BY DEF KnownOptions, language_descriptors, ClangStandards, Family

(* Every command that was parsed and has options left the options checked, *)
(* whichever of them was parsed last; and no error names an option that    *)
(* the checks had let through.                                             *)
OptionsInv ==
    /\ pc = "profiles" => got_subcommand = {}
    /\ pc = "parsing" => ((\E c \in got_subcommand : HasOptions(c)) => KnownOptions)
    /\ pc = "compiler ready" => HasOptions(handler)
    /\ pc \in {"invocation set", "executed"} => handler = "compile"
    /\ pc \notin {"exit"} => error = "none"
    /\ OptionsStayValid

LEMMA OptionsNext == ProfilesInv /\ OptionsInv /\ [Next]_vars => OptionsInv'
<1> SUFFICES ASSUME ProfilesInv, OptionsInv, [Next]_vars PROVE OptionsInv'
  OBVIOUS
<1> USE DEF OptionsInv, OptionsStayValid
<1>1. CASE CreateProfiles
  BY <1>1 DEF CreateProfiles, mainVars
<1>2. CASE ProfilesFail
  <2>1. status \in Status
    BY DEF ProfilesInv
  <2> QED
    BY <1>2, <2>1 DEF ProfilesFail, Exit, Status
<1>3. CASE ProfilesReady
  BY <1>3 DEF ProfilesReady
<1>4. CASE ParseSubcommand
  <2>1. PICK given \in args :
          /\ OptionsAreValid(given)
          /\ got_subcommand' = got_subcommand \cup {given.command}
          /\ cmdline_options' = OptionsWith(given)
    BY <1>4 DEF ParseSubcommand
  <2>0. /\ pc = "parsing" /\ pc' = "parsing"
        /\ profile_descriptors' = profile_descriptors /\ error' = error
    BY <1>4 DEF ParseSubcommand, pmVars
  <2>2. CASE HasOptions(given.command)
    <3>1. /\ cmdline_options'.profile_name = given.profile_name
          /\ cmdline_options'.language = given.language
      BY <2>1, <2>2 DEF OptionsWith
    <3>2. KnownOptions'
      BY <2>0, <2>1, <2>2, <3>1 DEF OptionsAreValid, KnownOptions
    <3> QED
      BY <2>0, <2>1, <3>2
  <2>3. CASE ~HasOptions(given.command)
    <3>1. cmdline_options' = cmdline_options
      BY <2>1, <2>3 DEF OptionsWith
    <3> QED
      BY <2>0, <2>1, <2>3, <3>1 DEF KnownOptions, HasOptions
  <2> QED
    BY <2>2, <2>3
<1>5. CASE ParseFails
  BY <1>5 DEF ParseFails, Exit
<1>6. CASE Dispatch
  BY <1>6 DEF Dispatch, pmVars, KnownOptions, HasOptions
<1>7. CASE PrintHandler
  BY <1>7 DEF PrintHandler, Exit
<1>8. CASE GenerateCreatesCompiler
  <2>1. HasOptions(handler) /\ KnownOptions
    BY <1>8 DEF GenerateCreatesCompiler, HasOptions
  <2> QED
    BY <1>8, <2>1, DescriptorsKnown
       DEF GenerateCreatesCompiler, CreateClangCompilerInstance, Exit, pmVars, KnownOptions,
           HasOptions
<1>9. CASE GenerateSucceeds
  BY <1>9 DEF GenerateSucceeds, Exit
<1>10. CASE GenerateFails
  BY <1>10 DEF GenerateFails, Exit
<1>11. CASE CompileCreatesCompiler
  <2>1. HasOptions(handler) /\ KnownOptions
    BY <1>11 DEF CompileCreatesCompiler, HasOptions
  <2> QED
    BY <1>11, <2>1, DescriptorsKnown
       DEF CompileCreatesCompiler, CreateClangCompilerInstance, Exit, pmVars, KnownOptions,
           HasOptions
<1>12. CASE SetInvocation
  BY <1>12 DEF SetInvocation, pmVars, KnownOptions, HasOptions
<1>13. CASE ExecuteAction
  BY <1>13 DEF ExecuteAction, Exit, pmVars, KnownOptions, HasOptions
<1>14. CASE WriteBitcode
  BY <1>14 DEF WriteBitcode, Exit
<1>15. CASE UNCHANGED vars
  BY <1>15 DEF vars, mainVars, pmVars, KnownOptions, HasOptions
<1> QED
  BY <1>1, <1>2, <1>3, <1>4, <1>5, <1>6, <1>7, <1>8, <1>9, <1>10, <1>11, <1>12, <1>13,
     <1>14, <1>15 DEF Next

LEMMA OptionsInvAlways == Spec => []OptionsInv
<1>1. Init => OptionsInv
  BY DEF Init, OptionsInv, OptionsStayValid
<1> QED
  BY <1>1, OptionsNext, ProfilesInvAlways, PTL DEF Spec

(* Whatever subcommands share the command line, and whichever is           *)
(* dispatched: its handler finds the profile and the language it is given, *)
(* and the compiler can be set up for that language.                       *)
THEOREM OptionsValid == Spec => []OptionsStayValid
<1>1. OptionsInv => OptionsStayValid
  BY DEF OptionsInv
<1> QED
  BY <1>1, OptionsInvAlways, PTL

-----------------------------------------------------------------------------
(* The outcome of the compile command.                                     *)
OutcomeInv ==
    /\ pc # "exit" => bitcode = "previous"
    /\ pc \in {"profiles", "parsing"} => handler = NoCommand
    /\ pc = "executed" => ~compiler.refused
    /\ CompileOutcome

(* A handler that fails, and says so, has not touched the bitcode file.    *)
LEMMA FailureOutcome ==
    ASSUME pc' = "exit", exit_code' = 1, error' # "compilation", bitcode' = "previous"
    PROVE  OutcomeInv'
BY DEF OutcomeInv, CompileOutcome

LEMMA OutcomeNext ==
    ProfilesInv /\ OptionsInv /\ OutcomeInv /\ [Next]_vars => OutcomeInv'
<1> SUFFICES ASSUME ProfilesInv, OptionsInv, OutcomeInv, [Next]_vars PROVE OutcomeInv'
  OBVIOUS
<1>0. /\ pc \in {"invocation set", "executed"} => handler = "compile"
      /\ pc # "exit" => error = "none"
      /\ status \in Status
  BY DEF OptionsInv, ProfilesInv
<1> USE DEF OutcomeInv, CompileOutcome, NoCommand
<1>1. CASE CreateProfiles
  BY <1>1 DEF CreateProfiles, mainVars
<1>2. CASE ProfilesFail
  BY <1>0, <1>2 DEF ProfilesFail, Exit, Status
<1>3. CASE ProfilesReady
  BY <1>3 DEF ProfilesReady
<1>4. CASE ParseSubcommand
  BY <1>4 DEF ParseSubcommand
<1>5. CASE ParseFails
  BY <1>5 DEF ParseFails, Exit
<1>6. CASE Dispatch
  BY <1>6 DEF Dispatch
<1>7. CASE PrintHandler
  BY <1>7 DEF PrintHandler, Exit, HasOptions
<1>8. CASE GenerateCreatesCompiler
  BY <1>8 DEF GenerateCreatesCompiler, CreateClangCompilerInstance, Exit
<1>9. CASE GenerateSucceeds
  BY <1>9 DEF GenerateSucceeds, Exit
<1>10. CASE GenerateFails
  BY <1>10 DEF GenerateFails, Exit
<1>11. CASE CompileCreatesCompiler
  <2>1. pc = "handler" /\ handler = "compile" /\ UNCHANGED <<handler, bitcode>>
    BY <1>11 DEF CompileCreatesCompiler
  <2>2. \/ pc' = "compiler ready" /\ UNCHANGED <<error, exit_code>>
        \/ pc' = "exit" /\ exit_code' = 1 /\ error' # "compilation"
    <3>1. CreateClangCompilerInstance(cmdline_options.include_folders)
      BY <1>11 DEF CompileCreatesCompiler
    <3> QED
      BY <3>1 DEF CreateClangCompilerInstance, Exit
  <2>3. bitcode' = "previous"
    BY <2>1
  <2>4. CASE pc' = "compiler ready"
    BY <2>3, <2>4
  <2> QED
    BY <2>2, <2>3, <2>4, FailureOutcome
<1>12. CASE SetInvocation
  BY <1>12 DEF SetInvocation
<1>13. CASE ExecuteAction
  BY <1>0, <1>13 DEF ExecuteAction, Exit
<1>14. CASE WriteBitcode
  BY <1>0, <1>14 DEF WriteBitcode, Exit
<1>15. CASE UNCHANGED vars
  BY <1>15 DEF vars, mainVars
<1> QED
  BY <1>1, <1>2, <1>3, <1>4, <1>5, <1>6, <1>7, <1>8, <1>9, <1>10, <1>11, <1>12, <1>13,
     <1>14, <1>15 DEF Next

(* The bitcode file is touched by a compile command whose compilation      *)
(* succeeded, and by nothing else; a compilation that fails leaves the old *)
(* file, and an exit code that does not tell.                              *)
THEOREM CompileOutcomeCorrect == Spec => []CompileOutcome
<1>1. Init => OutcomeInv
  BY DEF Init, OutcomeInv, CompileOutcome
<1>2. OutcomeInv => CompileOutcome
  BY DEF OutcomeInv
<1> QED
  BY <1>1, <1>2, OutcomeNext, OptionsInvAlways, ProfilesInvAlways, PTL DEF Spec

-----------------------------------------------------------------------------
(* The settings are made without extensions and replaced once, by the      *)
(* compile command.                                                        *)
DialectInv ==
    /\ pc = "compiler ready" => ~compiler.gnu /\ ~compiler.refused
    /\ pc = "invocation set" =>
          /\ handler = "compile"
          /\ compiler.refused <=> cmdline_options.language = "c94"
          /\ compiler.gnu <=> (Family = "CXX" /\ cmdline_options.gnu) \/ compiler.refused

(* setLangDefaults turns the extensions off, and nothing is refused yet.   *)
LEMMA CreatedWithoutGnu ==
    ASSUME NEW folders, CreateClangCompilerInstance(folders), pc' = "compiler ready"
    PROVE  ~compiler'.gnu /\ ~compiler'.refused
<1>1. ~CompilerSettings(folders).gnu /\ ~CompilerSettings(folders).refused
  BY DEF CompilerSettings, SetLangDefaults
<1>2. compiler' = CompilerSettings(folders)
  BY DEF CreateClangCompilerInstance, Exit
<1> QED
  BY <1>1, <1>2

(* The year 1994 is the one of which clang has no name of the form that    *)
(* the handler builds, and c94 the only language of that year.             *)
LEMMA UnnamedStandard ==
    ASSUME KnownOptions
    PROVE  /\ language_descriptors[cmdline_options.language] \notin NamedStandards
                 <=> cmdline_options.language = "c94"
           /\ cmdline_options.language = "c94" => Family = "C"
BY DEF KnownOptions, language_descriptors, NamedStandards, ClangStandards, Family

LEMMA DialectNext == OptionsInv /\ DialectInv /\ [Next]_vars => DialectInv'
<1> SUFFICES ASSUME OptionsInv, DialectInv, [Next]_vars PROVE DialectInv'
  OBVIOUS
<1> USE DEF DialectInv
<1>1. CASE GenerateCreatesCompiler
  <2>1. pc' # "invocation set"
    BY <1>1 DEF GenerateCreatesCompiler, CreateClangCompilerInstance, Exit
  <2> QED
    BY <1>1, <2>1, CreatedWithoutGnu DEF GenerateCreatesCompiler
<1>2. CASE CompileCreatesCompiler
  <2>1. pc' # "invocation set"
    BY <1>2 DEF CompileCreatesCompiler, CreateClangCompilerInstance, Exit
  <2> QED
    BY <1>2, <2>1, CreatedWithoutGnu DEF CompileCreatesCompiler
<1>3. CASE SetInvocation
  <2>0. KnownOptions
    BY <1>3 DEF SetInvocation, OptionsInv, OptionsStayValid, HasOptions
  <2> DEFINE named == language_descriptors[cmdline_options.language] \in NamedStandards
  <2>1. /\ pc' = "invocation set" /\ handler' = "compile"
        /\ compiler'.gnu = (named => Family = "CXX" /\ cmdline_options.gnu)
        /\ compiler'.refused = ~named
    BY <1>3 DEF SetInvocation
  <2>2. cmdline_options' = cmdline_options /\ Family' = Family
    BY <1>3 DEF SetInvocation, Family
  <2>3. named <=> cmdline_options.language # "c94"
    BY <2>0, UnnamedStandard
  <2> HIDE DEF named
  <2>4. /\ compiler'.refused <=> cmdline_options.language = "c94"
        /\ compiler'.gnu <=> (Family = "CXX" /\ cmdline_options.gnu) \/ compiler'.refused
    BY <2>1, <2>3, Zenon
  <2> QED
    BY <2>1, <2>2, <2>4
<1>4. CASE ExecuteAction \/ WriteBitcode \/ GenerateSucceeds \/ GenerateFails \/ PrintHandler
           \/ ParseFails \/ ProfilesFail \/ ProfilesReady \/ Dispatch
  BY <1>4 DEF ExecuteAction, WriteBitcode, GenerateSucceeds, GenerateFails, PrintHandler,
      ParseFails, ProfilesFail, ProfilesReady, Dispatch, Exit
<1>5. CASE CreateProfiles \/ ParseSubcommand \/ UNCHANGED vars
  <2>1. pc' \in {"compiler ready", "invocation set"} =>
            /\ pc' = pc /\ handler' = handler /\ compiler' = compiler
            /\ cmdline_options' = cmdline_options
    BY <1>5 DEF CreateProfiles, ParseSubcommand, vars, mainVars
  <2>2. cmdline_options' = cmdline_options => Family' = Family
    BY DEF Family
  <2> QED
    BY <2>1, <2>2
<1> QED
  BY <1>1, <1>2, <1>3, <1>4, <1>5 DEF Next

(* The dialect in which headers are accepted, and libraries compiled: with *)
(* the GNU extensions for a C++ library that asks for them and, by clang's *)
(* default, for the language c94, which the compile command cannot compile *)
(* (CompileOutcome); without them for all others, and in every search.     *)
THEOREM DialectCorrect == Spec => []GnuForCompiledCxx
<1>1. Init => DialectInv
  BY DEF Init, DialectInv
<1>2. DialectInv => GnuForCompiledCxx
  BY DEF DialectInv, GnuForCompiledCxx, Compiling
<1> QED
  BY <1>1, <1>2, DialectNext, OptionsInvAlways, PTL DEF Spec

-----------------------------------------------------------------------------
(* Type correctness.  The language of the compiler settings is a family    *)
(* only because the options were checked.                                  *)
ProfileTypeOK ==
    /\ disk \in Disks
    /\ pm \in {"locating", "enumerating", "created", "failed", "crashed"}
    /\ profiles_root \in Root \cup {NoRoot}
    /\ pm \in {"enumerating", "created"} => profiles_root \in Root
    /\ unread \subseteq File
    /\ \A map \in {output, profile_descriptors} :
          /\ DOMAIN map \subseteq ProfileName
          /\ map \in [DOMAIN map -> File]

LEMMA ProfileTypeNext == ProfileTypeOK /\ [Next]_vars => ProfileTypeOK'
<1> SUFFICES ASSUME ProfileTypeOK, PMNext \/ UNCHANGED pmVars PROVE ProfileTypeOK'
  BY ProfileSteps
<1> USE DEF ProfileTypeOK
<1>1. CASE GetProfilesRootPath
  <2>1. PICK r \in disk.exists : profiles_root' = r /\ unread' = disk.files[r]
    BY <1>1 DEF GetProfilesRootPath
  <2>2. r \in Root /\ disk.files[r] \subseteq File
    BY <2>1, DisksAssumption
  <2> QED
    BY <1>1, <2>1, <2>2 DEF GetProfilesRootPath
<1>2. CASE MissingProfilesRoot \/ AllocationFails \/ CurrentPathThrows
  BY <1>2 DEF MissingProfilesRoot, AllocationFails, CurrentPathThrows, CreateFails
<1>3. ASSUME NEW f \in File, LoadProfile(f) PROVE ProfileTypeOK'
  <2>1. /\ DOMAIN output' \subseteq ProfileName /\ output' \in [DOMAIN output' -> File]
    <3>1. CASE output' = output
      BY <3>1
    <3>2. CASE content[f] # Malformed /\ output' = Insert(f)
      <4>1. content[f] \in ProfileName
        BY <3>2, ContentAssumption
      <4> QED
        BY <3>2, <4>1 DEF Insert
    <3> QED
      BY <1>3, <3>1, <3>2 DEF LoadProfile
  <2> QED
    BY <1>3, <2>1 DEF LoadProfile, CreateFails
<1>4. CASE EnumerationThrows
  BY <1>4 DEF EnumerationThrows, CreateFails, NoProfiles
<1>5. CASE EndEnumeration
  BY <1>5 DEF EndEnumeration, CreateFails, NoProfiles
<1>6. CASE UNCHANGED pmVars
  BY <1>6 DEF pmVars
<1> QED
  BY <1>1, <1>2, <1>3, <1>4, <1>5, <1>6 DEF PMNext

MainTypeOK ==
    /\ pc \in {"profiles", "parsing", "handler", "compiler ready", "invocation set",
               "executed", "exit"}
    /\ args \subseteq Subcommand /\ got_subcommand \subseteq Command
    /\ cmdline_options.gnu \in BOOLEAN
    /\ cmdline_options.include_folders \subseteq Folder
    /\ cmdline_options.header_folders \subseteq Folder
    /\ handler \in Command \cup {NoCommand}
    /\ pc \in {"handler", "compiler ready", "invocation set", "executed"} => handler \in Command
    /\ compiler \in [language : {"C", "CXX", "none"}, gnu : BOOLEAN, folders : SUBSET Folder,
                     refused : BOOLEAN]
    /\ bitcode \in {"previous", "complete", "damaged"}
    /\ exit_code \in {0, 1}

LEMMA DefaultsRecord ==
    ASSUME NEW language \in {"C", "CXX"}, NEW gnu \in BOOLEAN, NEW folders \in SUBSET Folder
    PROVE  SetLangDefaults([language |-> language, gnu |-> gnu, folders |-> folders,
                            refused |-> FALSE])
              \in [language : {"C", "CXX", "none"}, gnu : BOOLEAN, folders : SUBSET Folder,
                   refused : BOOLEAN]
<1> DEFINE Settings == [language : {"C", "CXX", "none"}, gnu : BOOLEAN,
                        folders : SUBSET Folder, refused : BOOLEAN]
<1>1. [language |-> language, gnu |-> gnu, folders |-> folders, refused |-> FALSE] \in Settings
  OBVIOUS
<1>2. \A settings \in Settings : [settings EXCEPT !.gnu = FALSE] \in Settings
  OBVIOUS
<1> QED
  BY <1>1, <1>2 DEF SetLangDefaults

LEMMA CreatedSettings ==
    ASSUME MainTypeOK, NEW folders \in SUBSET Folder, CreateClangCompilerInstance(folders)
    PROVE  /\ compiler' \in [language : {"C", "CXX", "none"}, gnu : BOOLEAN,
                             folders : SUBSET Folder, refused : BOOLEAN]
           /\ pc' \in {"compiler ready", "exit"}
           /\ exit_code' \in {0, 1}
<1>1. ASSUME KnownOptions
      PROVE  CompilerSettings(folders) \in [language : {"C", "CXX", "none"}, gnu : BOOLEAN,
                                            folders : SUBSET Folder, refused : BOOLEAN]
  <2>1. Family \in {"C", "CXX"} /\ cmdline_options.gnu \in BOOLEAN
    BY <1>1, DescriptorsKnown DEF MainTypeOK
  <2> QED
    BY <2>1, DefaultsRecord DEF CompilerSettings
<1>2. compiler' = compiler \/ (KnownOptions /\ compiler' = CompilerSettings(folders))
  <2>1. CASE KnownOptions /\ language_descriptors[cmdline_options.language] \in ClangStandards
    BY <2>1, Zenon DEF CreateClangCompilerInstance
  <2>2. CASE ~(KnownOptions /\ language_descriptors[cmdline_options.language] \in ClangStandards)
    BY <2>2, Zenon DEF CreateClangCompilerInstance
  <2> QED
    BY <2>1, <2>2
<1>3. compiler' \in [language : {"C", "CXX", "none"}, gnu : BOOLEAN, folders : SUBSET Folder,
                     refused : BOOLEAN]
  BY <1>1, <1>2 DEF MainTypeOK
<1>4. /\ pc' \in {"compiler ready", "exit"}
      /\ exit_code' = exit_code \/ exit_code' = 1
  BY DEF CreateClangCompilerInstance, Exit
<1>5. exit_code' \in {0, 1}
  BY <1>4 DEF MainTypeOK
<1> QED
  BY <1>3, <1>4, <1>5

LEMMA MainTypeNext == OptionsInv /\ MainTypeOK /\ [Next]_vars => MainTypeOK'
<1> SUFFICES ASSUME OptionsInv, MainTypeOK, [Next]_vars PROVE MainTypeOK'
  OBVIOUS
<1> USE DEF MainTypeOK
<1>1. CASE CreateProfiles
  BY <1>1 DEF CreateProfiles, mainVars
<1>2. CASE ProfilesFail
  BY <1>2 DEF ProfilesFail, Exit
<1>3. CASE ProfilesReady
  BY <1>3 DEF ProfilesReady
<1>4. CASE ParseSubcommand
  <2>1. PICK given \in args :
          /\ args' = args \ {given}
          /\ got_subcommand' = got_subcommand \cup {given.command}
          /\ cmdline_options' = OptionsWith(given)
    BY <1>4 DEF ParseSubcommand
  <2>2. /\ given.command \in Command /\ given.gnu \in BOOLEAN
        /\ given.include_folders \subseteq Folder
        /\ given.header_folders \subseteq Folder
    BY <2>1 DEF Subcommand
  <2>3. /\ cmdline_options'.gnu \in BOOLEAN
        /\ cmdline_options'.include_folders \subseteq Folder
        /\ cmdline_options'.header_folders \subseteq Folder
    BY <2>1, <2>2 DEF OptionsWith
  <2> QED
    BY <1>4, <2>1, <2>2, <2>3 DEF ParseSubcommand
<1>5. CASE ParseFails
  BY <1>5 DEF ParseFails, Exit
<1>6. CASE Dispatch
  BY <1>6 DEF Dispatch
<1>7. CASE PrintHandler
  BY <1>7 DEF PrintHandler, Exit
<1>8. CASE GenerateCreatesCompiler
  BY <1>8, CreatedSettings DEF GenerateCreatesCompiler
<1>9. CASE GenerateSucceeds
  BY <1>9 DEF GenerateSucceeds, Exit
<1>10. CASE GenerateFails
  BY <1>10 DEF GenerateFails, Exit
<1>11. CASE CompileCreatesCompiler
  BY <1>11, CreatedSettings DEF CompileCreatesCompiler
<1>12. CASE SetInvocation
  <2>1. Family \in {"C", "CXX"}
    BY <1>12, DescriptorsKnown DEF SetInvocation, OptionsInv, OptionsStayValid, HasOptions
  <2> QED
    BY <1>12, <2>1 DEF SetInvocation
<1>13. CASE ExecuteAction
  BY <1>13 DEF ExecuteAction, Exit
<1>14. CASE WriteBitcode
  BY <1>14 DEF WriteBitcode, Exit
<1>15. CASE UNCHANGED vars
  BY <1>15 DEF vars, mainVars
<1> QED
  BY <1>1, <1>2, <1>3, <1>4, <1>5, <1>6, <1>7, <1>8, <1>9, <1>10, <1>11, <1>12, <1>13,
     <1>14, <1>15 DEF Next

(* The values of every variable, from the files to the compiler settings.  *)
THEOREM TypeCorrect == Spec => []TypeOK
<1>1. Init => ProfileTypeOK
  BY DEF Init, PMInit, ProfileTypeOK, NoProfiles
<1>2. Init => MainTypeOK
  BY CommandLinesAssumption DEF Init, MainTypeOK, NoCompiler
<1>3. ProfileTypeOK /\ MainTypeOK => TypeOK
  BY DEF ProfileTypeOK, MainTypeOK, TypeOK
<1> QED
  BY <1>1, <1>2, <1>3, ProfileTypeNext, MainTypeNext, OptionsInvAlways, PTL DEF Spec
===============================================================================
