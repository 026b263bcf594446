------------------------- MODULE HeaderSearchProofs -------------------------
(***************************************************************************)
(* What the theorems on the generate command and those on the include      *)
(* paths say together: which file is imported for a header, for every      *)
(* disk, every choice of header folders and every compiler.                *)
(***************************************************************************)
EXTENDS HeaderSearch, IncludePathsProofs, FiniteSetTheorems

Folders == [i \in DOMAIN header_folders |-> HeadersOf(i)]

(* GenerateCommand with its theorems.                                      *)
GP == INSTANCE GenerateCommandProofs WITH
    Directive <- Path, directives <- Directives,
    folders <- [i \in DOMAIN header_folders |-> HeadersOf(i)], OutOfMemory <- FALSE,
    MangleErrors <- TRUE

-----------------------------------------------------------------------------
(* The headers on a disk are headers as GenerateCommand assumes them.      *)

LEMMA HeaderType ==
    ASSUME NEW h \in Header
    PROVE  /\ h[1] \in DOMAIN header_folders /\ h \in HeadersOf(h[1])
           /\ FolderOf(h) \in Folder /\ PathOf(h) \in Found(FolderOf(h))
<1>1. PICK i \in DOMAIN header_folders : h \in HeadersOf(i)
  BY DEF Header
<1>2. PICK path \in Found(header_folders[i]) : h = <<i, path>>
  BY <1>1 DEF HeadersOf
<1>3. header_folders[i] \in Folder
  BY PathsAssumption, ElementOfSeq, LenProperties
<1> QED
  BY <1>1, <1>2, <1>3 DEF FolderOf, PathOf

LEMMA DirectivesAssumed == Directives \in [Header -> Seq(Path) \ {<<>>}]
<1> SUFFICES ASSUME NEW h \in Header
             PROVE  /\ IncludeDirectives(FolderOf(h), PathOf(h)) \in Seq(Path)
                    /\ IncludeDirectives(FolderOf(h), PathOf(h)) # <<>>
  BY DEF Directives
<1>1. FolderOf(h) \in Folder /\ PathOf(h) \in Found(FolderOf(h))
  BY HeaderType
<1> DEFINE d == IncludeDirectives(FolderOf(h), PathOf(h))
<1>2. d \in Seq(Path) /\ Len(d) = LastTurn(FolderOf(h), PathOf(h)) + 1
  BY <1>1, DirectivesExact
<1>3. LastTurn(FolderOf(h), PathOf(h)) \in Nat
  BY <1>1, FoundType
<1>4. Len(d) # 0
  BY <1>2, <1>3
<1> HIDE DEF d
<1>5. d # <<>>
  BY <1>4
<1> QED
  BY <1>2, <1>5 DEF d

LEMMA FoldersAssumed ==
    /\ Folders \in Seq(SUBSET Header)
    /\ \A i \in 1 .. Len(Folders) : GP!IsFiniteSet(Folders[i])
    /\ \A i, j \in 1 .. Len(Folders) : i # j => Folders[i] \cap Folders[j] = {}
<1>1. Len(header_folders) \in Nat /\ DOMAIN header_folders = 1 .. Len(header_folders)
  BY PathsAssumption, LenProperties
<1>2. \A i \in DOMAIN header_folders : HeadersOf(i) \subseteq Header
  BY DEF Header
<1>3. Folders \in Seq(SUBSET Header) /\ Len(Folders) = Len(header_folders)
  BY <1>1, <1>2 DEF Folders
<1>4. ASSUME NEW i \in DOMAIN header_folders PROVE IsFiniteSet(HeadersOf(i))
  <2> DEFINE S == Found(header_folders[i])
  <2>1. S \subseteq files /\ IsFiniteSet(files)
    BY PathsAssumption DEF Found
  <2>2. IsFiniteSet(S)
    BY <2>1, FS_Subset
  <2> HIDE DEF S
  <2> DEFINE f == [path \in S |-> <<i, path>>]
  <2>3. f \in Surjection(S, {<<i, path>> : path \in S})
    BY DEF Surjection
  <2>4. IsFiniteSet({<<i, path>> : path \in S})
    BY <2>2, <2>3, FS_Surjection
  <2> QED
    BY <2>4 DEF HeadersOf, S
<1>5. \A S : IsFiniteSet(S) => GP!IsFiniteSet(S)
  BY DEF IsFiniteSet, GP!IsFiniteSet
<1>6. ASSUME NEW i \in DOMAIN header_folders, NEW j \in DOMAIN header_folders, i # j
      PROVE  HeadersOf(i) \cap HeadersOf(j) = {}
  BY <1>6 DEF HeadersOf
<1> QED
  BY <1>1, <1>3, <1>4, <1>5, <1>6 DEF Folders

-----------------------------------------------------------------------------
(* A step of this specification is a step of that instance: its operators  *)
(* are those of the instance of HeaderSearch.                              *)
LEMMA SameOperators ==
    /\ \A S : Generate!SetToSeqs(S) = GP!SetToSeqs(S)
    /\ \A s, i : Generate!RemoveAt(s, i) = GP!RemoveAt(s, i)
<1>1. \A S : Generate!Cardinality(S) = GP!Cardinality(S)
  BY DEF Generate!Cardinality, GP!Cardinality, Generate!IsFiniteSet, GP!IsFiniteSet
<1>2. \A f : Generate!IsInjective(f) <=> GP!IsInjective(f)
  BY DEF Generate!IsInjective, GP!IsInjective
<1>3. \A S : Generate!SetToSeqs(S) = GP!SetToSeqs(S)
  BY <1>1, <1>2 DEF Generate!SetToSeqs, GP!SetToSeqs
<1>4. \A s, i : Generate!RemoveAt(s, i) = GP!RemoveAt(s, i)
  BY DEF Generate!RemoveAt, GP!RemoveAt
<1> QED
  BY <1>3, <1>4

LEMMA StepOfGenerate == [Next]_vars => [GP!Next]_(GP!vars)
<1> USE DEF Generate!Exit, GP!Exit, Generate!searchVars, GP!searchVars,
            Generate!oracleVars, GP!oracleVars, Generate!outputVars, GP!outputVars
<1>1. Generate!EnumerateIncludeFiles => GP!EnumerateIncludeFiles
  BY SameOperators DEF Generate!EnumerateIncludeFiles, GP!EnumerateIncludeFiles
<1>2. Generate!EnumerationFails => GP!EnumerationFails
  BY DEF Generate!EnumerationFails, GP!EnumerationFails
<1>3. Generate!CreateCompilerInstance => GP!CreateCompilerInstance
  BY DEF Generate!CreateCompilerInstance, GP!CreateCompilerInstance
<1>4. Generate!BeginPass => GP!BeginPass
  BY DEF Generate!BeginPass, GP!BeginPass
<1>5. Generate!AtEnd <=> GP!AtEnd
  BY DEF Generate!AtEnd, GP!AtEnd
<1>6. Generate!NewIncludeHeaders = GP!NewIncludeHeaders
  BY DEF Generate!NewIncludeHeaders, GP!NewIncludeHeaders
<1>7. Generate!AcceptDirective => GP!AcceptDirective
  <2>1. Generate!ProcessAST(Generate!NewIncludeHeaders, TRUE)
           => GP!ProcessAST(GP!NewIncludeHeaders, TRUE)
    BY <1>6 DEF Generate!ProcessAST, GP!ProcessAST
  <2>2. Generate!Erased = GP!Erased
    BY SameOperators DEF Generate!Erased, GP!Erased
  <2> QED
    BY <1>5, <1>6, <2>1, <2>2 DEF Generate!AcceptDirective, GP!AcceptDirective
<1>8. Generate!RejectDirective => GP!RejectDirective
  <2>1. Generate!ProcessAST(Generate!NewIncludeHeaders, FALSE)
           => GP!ProcessAST(GP!NewIncludeHeaders, FALSE)
    BY <1>6 DEF Generate!ProcessAST, GP!ProcessAST
  <2>2. Generate!LastDirective <=> GP!LastDirective
    BY DEF Generate!LastDirective, GP!LastDirective
  <2> QED
    BY <1>5, <2>1, <2>2 DEF Generate!RejectDirective, GP!RejectDirective
<1>9. Generate!EndPass => GP!EndPass
  <2>1. Generate!NoProgress <=> GP!NoProgress
    BY DEF Generate!NoProgress, GP!NoProgress
  <2> QED
    BY <1>5, <2>1 DEF Generate!EndPass, GP!EndPass
<1>10. Generate!CreateVisitor => GP!CreateVisitor
  BY DEF Generate!CreateVisitor, GP!CreateVisitor
<1>11. Generate!FinalCompilation => GP!FinalCompilation
  BY DEF Generate!FinalCompilation, GP!FinalCompilation, Generate!FinalList, GP!FinalList,
         Generate!ProcessAST, GP!ProcessAST
<1>12. Generate!OpenHeaderFile => GP!OpenHeaderFile
  BY DEF Generate!OpenHeaderFile, GP!OpenHeaderFile
<1>13. Generate!OpenImplementationFile => GP!OpenImplementationFile
  BY DEF Generate!OpenImplementationFile, GP!OpenImplementationFile
<1>14. Generate!WriteFiles => GP!WriteFiles
  BY DEF Generate!WriteFiles, GP!WriteFiles
<1>15. UNCHANGED vars => UNCHANGED GP!vars
  BY DEF vars, GP!vars
<1> QED
  BY <1>1, <1>2, <1>3, <1>4, <1>7, <1>8, <1>9, <1>10, <1>11, <1>12, <1>13, <1>14, <1>15
     DEF Next, Generate!Next, GP!Next

LEMMA GenerateSpec == Spec => GP!Spec
<1>1. Init => GP!Init
  BY DEF Init, Generate!Init, GP!Init
<1> QED
  BY <1>1, StepOfGenerate, PTL DEF Spec, GP!Spec

(* What was proved of the generate command holds here.                     *)
GenerateInv ==
    /\ GP!TypeOK /\ GP!ActiveCompiles /\ GP!NoHeaderLeftOut /\ GP!EveryHeaderOnce

LEMMA GenerateInvAlways == Spec => []GenerateInv
<1>1. Spec => []GP!TypeOK
  BY GenerateSpec, GP!TypeCorrect, DirectivesAssumed, FoldersAssumed DEF Folders
<1>2. Spec => []GP!ActiveCompiles
  BY GenerateSpec, GP!ActiveCompilesAlways, DirectivesAssumed, FoldersAssumed DEF Folders
<1>3. Spec => []GP!NoHeaderLeftOut
  BY GenerateSpec, GP!SearchMaximal, DirectivesAssumed, FoldersAssumed DEF Folders
<1>4. Spec => []GP!EveryHeaderOnce
  BY GenerateSpec, GP!HeadersOnce, DirectivesAssumed, FoldersAssumed DEF Folders
<1> QED
  BY <1>1, <1>2, <1>3, <1>4, PTL DEF GenerateInv

-----------------------------------------------------------------------------
(* Every list that was accepted resolves, and the search begins when all   *)
(* the folders are enumerated.                                             *)
SearchInv ==
    /\ \A list \in compiles : AllResolve(list)
    /\ pc \in {"pass", "try"} \/ Searched => folder = Len(header_folders) + 1

LEMMA SearchNext == GenerateInv /\ SearchInv /\ [Next]_vars => SearchInv'
<1> SUFFICES ASSUME GenerateInv, SearchInv, [Next]_vars PROVE SearchInv'
  OBVIOUS
<1>1. \A list \in compiles' : AllResolve(list)
  BY DEF SearchInv, Next, vars
<1>2. pc' \in {"pass", "try"} \/ Searched' => folder' = Len(header_folders) + 1
  <2>1. Len(Folders) = Len(header_folders) /\ Len(Folders) \in Nat
    <3>1. Len(header_folders) \in Nat /\ DOMAIN header_folders = 1 .. Len(header_folders)
      BY PathsAssumption, LenProperties
    <3> QED
      BY <3>1 DEF Folders
  <2>2. folder \in 1 .. Len(Folders) + 1
    BY DEF GenerateInv, GP!TypeOK, Folders
  <2> USE DEF SearchInv, Searched
  <2>3. CASE Generate!EnumerateIncludeFiles
    BY <2>3 DEF Generate!EnumerateIncludeFiles
  <2>4. CASE Generate!EnumerationFails
    BY <2>4 DEF Generate!EnumerationFails, Generate!Exit
  <2>5. CASE Generate!CreateCompilerInstance
    <3>1. folder > Len(Folders) /\ folder' = folder
      BY <2>5 DEF Generate!CreateCompilerInstance, Folders
    <3> QED
      BY <2>1, <2>2, <3>1
  <2>6. CASE Generate!BeginPass
    BY <2>6 DEF Generate!BeginPass
  <2>7. CASE Generate!AcceptDirective
    BY <2>7 DEF Generate!AcceptDirective
  <2>8. CASE Generate!RejectDirective
    BY <2>8 DEF Generate!RejectDirective
  <2>9. CASE Generate!EndPass
    BY <2>9 DEF Generate!EndPass
  <2>10. CASE Generate!CreateVisitor
    BY <2>10 DEF Generate!CreateVisitor, Generate!Exit
  <2>11. CASE Generate!FinalCompilation
    BY <2>11 DEF Generate!FinalCompilation, Generate!Exit
  <2>12. CASE Generate!OpenHeaderFile
    BY <2>12 DEF Generate!OpenHeaderFile, Generate!Exit
  <2>13. CASE Generate!OpenImplementationFile
    BY <2>13 DEF Generate!OpenImplementationFile, Generate!Exit
  <2>14. CASE Generate!WriteFiles
    BY <2>14 DEF Generate!WriteFiles, Generate!Exit
  <2>15. CASE UNCHANGED vars
    BY <2>15 DEF vars
  <2> QED
    BY <2>3, <2>4, <2>5, <2>6, <2>7, <2>8, <2>9, <2>10, <2>11, <2>12, <2>13, <2>14, <2>15
       DEF Next, Generate!Next
<1> QED
  BY <1>1, <1>2 DEF SearchInv, AllResolve

LEMMA SearchInvAlways == Spec => []SearchInv
<1>1. Init => SearchInv
  BY DEF Init, Generate!Init, SearchInv, Searched
<1> QED
  BY <1>1, SearchNext, GenerateInvAlways, PTL DEF Spec

-----------------------------------------------------------------------------
LEMMA SearchListType == SearchList \in Seq(Seq(FileName))
<1>1. \A j \in DOMAIN header_folders : header_folders[j].path \in Seq(FileName)
  <2> SUFFICES ASSUME NEW j \in DOMAIN header_folders
               PROVE  header_folders[j].path \in Seq(FileName)
    OBVIOUS
  <2>1. header_folders[j] \in Folder
    BY PathsAssumption, ElementOfSeq, LenProperties
  <2> QED
    BY <2>1 DEF Folder
<1> DEFINE paths == [j \in DOMAIN header_folders |-> header_folders[j].path]
<1>2. paths \in Seq(Seq(FileName))
  BY <1>1, PathsAssumption, LenProperties
<1> HIDE DEF paths
<1>3. profile_folders \o paths \in Seq(Seq(FileName))
  BY <1>2, PathsAssumption, ConcatProperties
<1> QED
  BY <1>3 DEF SearchList, paths

(* The file that a directive names has the name that the directive ends in. *)
LEMMA ResolvedName ==
    ASSUME NEW d \in Path, Resolve(d) # NoFile
    PROVE  Resolve(d) \in files /\ NameOf(Resolve(d)) = NameOf(d)
<1> DEFINE candidates == [i \in DOMAIN SearchList |-> SearchList[i] \o d]
<1>1. PICK i \in DOMAIN candidates : IsFirst(i, candidates, files)
  BY DEF Resolve, FirstFile
<1>2. Resolve(d) = candidates[CHOOSE k \in DOMAIN candidates : IsFirst(k, candidates, files)]
  BY <1>1 DEF Resolve, FirstFile
<1>3. PICK k \in DOMAIN SearchList :
          IsFirst(k, candidates, files) /\ Resolve(d) = SearchList[k] \o d
  BY <1>1, <1>2
<1>4. Resolve(d) \in files
  BY <1>3 DEF IsFirst
<1>5. SearchList \in Seq(Seq(FileName))
  BY SearchListType
<1>6. SearchList[k] \in Seq(FileName)
  BY <1>3, <1>5, ElementOfSeq, LenProperties
<1>7. d \in Seq(FileName) /\ Len(d) \in Nat \ {0} /\ Len(SearchList[k]) \in Nat
  BY <1>6, EmptySeq, LenProperties DEF Path
<1>8. /\ Len(SearchList[k] \o d) = Len(SearchList[k]) + Len(d)
      /\ (SearchList[k] \o d)[Len(SearchList[k]) + Len(d)] = d[Len(d)]
  BY <1>6, <1>7
<1> QED
  BY <1>3, <1>4, <1>8 DEF NameOf

(* The directives of the headers that are included, in terms of one map.   *)
LEMMA Given ==
    ASSUME GenerateInv
    PROVE  \E given :
              /\ DOMAIN given = GP!Included /\ GP!Included \subseteq Erased
              /\ \A j \in DOMAIN active_include_headers : \E h \in GP!Included : given[h] = j
              /\ \A h \in GP!Included :
                    /\ given[h] \in DOMAIN active_include_headers
                    /\ active_include_headers[given[h]] \in ToSet(Directives[h])
<1>1. PICK given \in GP!Bijection(GP!Included, DOMAIN active_include_headers) :
          \A h \in GP!Included : active_include_headers[given[h]] \in GP!ToSet(Directives[h])
  BY DEF GenerateInv, GP!EveryHeaderOnce
<1>2. /\ given \in [GP!Included -> DOMAIN active_include_headers]
      /\ \A j \in DOMAIN active_include_headers : \E h \in GP!Included : given[h] = j
  BY <1>1 DEF GP!Bijection, GP!Injection, GP!Surjection
<1>3. GP!Included \subseteq Erased
  <2> SUFFICES ASSUME NEW h \in GP!Included PROVE h \in Erased
    OBVIOUS
  <2>1. h \in GP!Enumerated /\ h \notin GP!ToSet(header_files)
    BY DEF GP!Included
  <2>2. PICK i \in 1 .. folder - 1 : h \in Folders[i]
    BY <2>1 DEF GP!Enumerated, Folders
  <2>3. Folders[i] \subseteq Header
    <3>1. i \in 1 .. Len(Folders)
      <4>1. folder \in 1 .. Len(Folders) + 1
        BY DEF GenerateInv, GP!TypeOK, Folders
      <4>2. Len(Folders) \in Nat
        BY FoldersAssumed, LenProperties
      <4> QED
        BY <4>1, <4>2
    <3> QED
      BY <3>1, FoldersAssumed, ElementOfSeq
  <2> QED
    BY <2>1, <2>2, <2>3 DEF Erased, ToSet, GP!ToSet
<1> QED
  BY <1>1, <1>2, <1>3 DEF ToSet, GP!ToSet

LEMMA DirectiveName ==
    ASSUME NEW h \in Header, NEW d \in ToSet(Directives[h])
    PROVE  d \in Path /\ NameOf(d) = NameOf(PathOf(h))
<1>1. FolderOf(h) \in Folder /\ PathOf(h) \in Found(FolderOf(h))
  BY HeaderType
<1> DEFINE ds == IncludeDirectives(FolderOf(h), PathOf(h))
<1>2. Directives[h] = ds /\ ds \in Seq(Path)
  BY <1>1, DirectivesExact DEF Directives
<1>3. PICK i \in 1 .. Len(ds) : ds[i] = d
  BY <1>2, LenProperties DEF ToSet
<1> QED
  BY <1>1, <1>2, <1>3, DirectivesEndInName, ElementOfSeq

(* An #include of the list names a file, and the file has its name.        *)
LEMMA IncludeResolves ==
    ASSUME GenerateInv, SearchInv, NEW j \in DOMAIN active_include_headers,
           NEW h \in Header, active_include_headers[j] \in ToSet(Directives[h])
    PROVE  /\ Resolve(active_include_headers[j]) \in files
           /\ NameOf(Resolve(active_include_headers[j])) = NameOf(PathOf(h))
<1>1. active_include_headers \in compiles
  BY DEF GenerateInv, GP!ActiveCompiles
<1>2. Resolve(active_include_headers[j]) # NoFile
  BY <1>1 DEF SearchInv, AllResolve
<1> QED
  BY <1>2, DirectiveName, ResolvedName

-----------------------------------------------------------------------------
(* A header whose name no other file on the disk has is imported when it   *)
(* is taken off the list, for every disk and every way to write the header *)
(* folders: trying prefixes can never make another file stand for it.      *)
THEOREM UniquelyNamedSafe == Spec => []UniquelyNamedImported
<1>1. GenerateInv /\ SearchInv => UniquelyNamedImported
  <2> SUFFICES ASSUME GenerateInv, SearchInv, Searched,
                      NEW h \in Erased, UniquelyNamed(h)
               PROVE  Imported(h)
    BY DEF UniquelyNamedImported
  <2>1. PICK given :
           \A g \in GP!Included :
              /\ given[g] \in DOMAIN active_include_headers
              /\ active_include_headers[given[g]] \in ToSet(Directives[g])
    BY Given
  <2>2. h \in Header /\ h[1] \in DOMAIN header_folders /\ h \in HeadersOf(h[1])
    BY HeaderType DEF Erased
  <2>3. h \in GP!Included
    <3>1. folder = Len(header_folders) + 1
      BY DEF SearchInv
    <3>2. h[1] \in 1 .. folder - 1
      BY <2>2, <3>1, PathsAssumption, LenProperties
    <3>3. h \in GP!Enumerated
      BY <2>2, <3>2 DEF GP!Enumerated
    <3> QED
      BY <3>3 DEF GP!Included, Erased, ToSet, GP!ToSet
  <2>4. /\ Resolve(active_include_headers[given[h]]) \in files
        /\ NameOf(Resolve(active_include_headers[given[h]])) = NameOf(PathOf(h))
    BY <2>1, <2>2, <2>3, IncludeResolves
  <2> QED
    BY <2>1, <2>3, <2>4 DEF Imported, UniquelyNamed
<1> QED
  BY <1>1, GenerateInvAlways, SearchInvAlways, PTL

(* A header that stays in the list, and that no other file hides, was      *)
(* itself compiled after the final list, and refused.                      *)
THEOREM DiscardedSafe == Spec => []DiscardedForItsContent
<1>1. GenerateInv => DiscardedForItsContent
  <2> SUFFICES ASSUME GenerateInv, Searched, NEW h \in ToSet(header_files), ~Hidden(h)
               PROVE  \E directive \in ToSet(Directives[h]) :
                         /\ Resolve(directive) = PathOf(h)
                         /\ Append(active_include_headers, directive) \in fails
    BY DEF DiscardedForItsContent
  <2>1. header_files \in Seq(Header)
    BY DEF GenerateInv, GP!TypeOK
  <2>2. PICK j \in 1 .. Len(header_files) : header_files[j] = h
    BY <2>1, LenProperties DEF ToSet
  <2>3. h \in Header
    BY <2>1, <2>2, ElementOfSeq
  <2>4. GP!Refused(h)
    BY <2>2 DEF GenerateInv, GP!NoHeaderLeftOut, Searched
  <2>5. FolderOf(h) \in Folder /\ PathOf(h) \in Found(FolderOf(h))
    BY <2>3, HeaderType
  <2> DEFINE ds == IncludeDirectives(FolderOf(h), PathOf(h))
  <2>6. Directives[h] = ds /\ ds \in Seq(Path)
    BY <2>3, <2>5, DirectivesExact DEF Directives
  <2>7. PICK i \in 1 .. Len(ds) : ds[i] = RelativePath(FolderOf(h), PathOf(h))
    BY <2>5, RelativePathTried
  <2>8. Resolve(ds[i]) = PathOf(h)
    BY <2>7 DEF Hidden
  <2>9. Append(active_include_headers, ds[i]) \in fails
    BY <2>4, <2>6, <2>7 DEF GP!Refused
  <2>10. ds[i] \in ToSet(Directives[h])
    BY <2>6, <2>7, LenProperties DEF ToSet
  <2> QED
    BY <2>8, <2>9, <2>10
<1> QED
  BY <1>1, GenerateInvAlways, PTL

(* A file can be imported twice only for two headers of the same name.     *)
THEOREM ImportedOnceSafe == Spec => []FilesImportedOnce
<1>1. GenerateInv /\ SearchInv => FilesImportedOnce
  <2> SUFFICES ASSUME GenerateInv, SearchInv,
                      NEW j \in DOMAIN active_include_headers,
                      NEW k \in DOMAIN active_include_headers,
                      j # k,
                      Resolve(active_include_headers[j]) = Resolve(active_include_headers[k])
               PROVE  \E g, h \in NamesakesOf(Resolve(active_include_headers[j])) : g # h
    BY DEF FilesImportedOnce
  <2>1. PICK given :
           /\ GP!Included \subseteq Erased
           /\ \A i \in DOMAIN active_include_headers : \E h \in GP!Included : given[h] = i
           /\ \A h \in GP!Included :
                 active_include_headers[given[h]] \in ToSet(Directives[h])
    BY Given
  <2>2. PICK g \in GP!Included : given[g] = j
    BY <2>1
  <2>3. PICK h \in GP!Included : given[h] = k
    BY <2>1
  <2>4. g \in Erased /\ h \in Erased /\ g \in Header /\ h \in Header
    BY <2>1, <2>2, <2>3 DEF Erased
  <2>5. NameOf(Resolve(active_include_headers[j])) = NameOf(PathOf(g))
    BY <2>1, <2>2, <2>4, IncludeResolves
  <2>6. NameOf(Resolve(active_include_headers[k])) = NameOf(PathOf(h))
    BY <2>1, <2>3, <2>4, IncludeResolves
  <2> QED
    <3>1. g # h
      BY <2>2, <2>3
    <3>2. /\ g \in NamesakesOf(Resolve(active_include_headers[j]))
          /\ h \in NamesakesOf(Resolve(active_include_headers[j]))
      BY <2>4, <2>5, <2>6 DEF NamesakesOf
    <3> QED
      BY <3>1, <3>2
<1> QED
  BY <1>1, GenerateInvAlways, SearchInvAlways, PTL

(* The claim of the comment holds of a disk where no two files that could  *)
(* be meant have the same name: then each header that is not listed as     *)
(* left out was imported.                                                  *)
THEOREM ImportedWhenUnique == (\A h \in Header : UniquelyNamed(h)) => (Spec => []HeadersImported)
<1> SUFFICES ASSUME \A h \in Header : UniquelyNamed(h)
             PROVE  Spec => []HeadersImported
  OBVIOUS
<1>1. UniquelyNamedImported => HeadersImported
  BY DEF UniquelyNamedImported, HeadersImported, Erased
<1>2. Spec => []UniquelyNamedImported
  BY UniquelyNamedSafe
<1> QED
  BY <1>1, <1>2, PTL

-----------------------------------------------------------------------------
(* The library that is written includes the files that were compiled.      *)

OutputFolder == SubSeq(output, 1, Len(output) - 1)

(* No header has the name of the output, or of a file below its folder.    *)
OutputApart ==
    \A h \in Header :
        /\ NameOf(PathOf(h)) # NameOf(output)
        /\ \A path \in files : Below(path, OutputFolder) => NameOf(path) # NameOf(PathOf(h))

LEMMA JoinedPath ==
    ASSUME NEW f \in Seq(FileName), NEW d \in Path
    PROVE  NameOf(f \o d) = NameOf(d) /\ Below(f \o d, f)
<1>1. d \in Seq(FileName) /\ Len(d) \in Nat \ {0} /\ Len(f) \in Nat
  BY EmptySeq, LenProperties DEF Path
<1>2. /\ f \o d \in Seq(FileName) /\ Len(f \o d) = Len(f) + Len(d)
      /\ (f \o d)[Len(f) + Len(d)] = d[Len(d)]
      /\ \A i \in 1 .. Len(f) : (f \o d)[i] = f[i]
  BY <1>1, ConcatProperties
<1>3. SubSeq(f \o d, 1, Len(f)) = f
  <2> DEFINE part == SubSeq(f \o d, 1, Len(f))
  <2>1. /\ part \in Seq(FileName) /\ Len(part) = Len(f)
        /\ \A i \in 1 .. Len(f) : part[i] = (f \o d)[i]
    BY <1>1, <1>2
  <2> HIDE DEF part
  <2> QED
    BY <1>1, <1>2, <2>1, SeqEqual DEF part
<1> QED
  BY <1>1, <1>2, <1>3 DEF NameOf, Below

LEMMA FirstFileUnique ==
    ASSUME NEW c, NEW disk, NEW i \in 1 .. Len(c), DOMAIN c = 1 .. Len(c), Len(c) \in Nat,
           IsFirst(i, c, disk)
    PROVE  FirstFile(c, disk) = c[i]
<1>1. ASSUME NEW k \in 1 .. Len(c), IsFirst(k, c, disk) PROVE k = i
  <2>1. ~(k < i) /\ ~(i < k)
    BY <1>1 DEF IsFirst
  <2> QED
    BY <2>1
<1> QED
  BY <1>1 DEF FirstFile

(* A directive that the output folder cannot answer means the same there.  *)
LEMMA ResolvesAlike ==
    ASSUME NEW d \in Path, NameOf(d) # NameOf(output),
           \A path \in files : Below(path, OutputFolder) => NameOf(path) # NameOf(d)
    PROVE  ResolveFrom(OutputFolder, d, files \cup {output}) = Resolve(d)
<1> DEFINE c == [i \in DOMAIN SearchList |-> SearchList[i] \o d]
           first == OutputFolder \o d
           e == <<first>> \o c
           disk == files \cup {output}
           n == Len(SearchList)
<1>1. DOMAIN SearchList = 1 .. n /\ n \in Nat
  BY SearchListType, LenProperties
<1>2. /\ DOMAIN c = 1 .. n /\ Len(c) = n
      /\ DOMAIN e = 1 .. n + 1 /\ Len(e) = n + 1 /\ e[1] = first
      /\ \A i \in 1 .. n : e[i + 1] = c[i]
  BY <1>1
<1>3. OutputFolder \in Seq(FileName)
  BY OutputAssumption, LenProperties, EmptySeq DEF OutputFolder, Path
<1>4. first \notin disk
  BY <1>3, JoinedPath
<1>5. \A i \in 1 .. n : c[i] # output
  <2> SUFFICES ASSUME NEW i \in 1 .. n PROVE c[i] # output
    OBVIOUS
  <2>1. SearchList[i] \in Seq(FileName)
    BY <1>1, SearchListType, ElementOfSeq
  <2> QED
    BY <1>1, <2>1, JoinedPath
<1>6. ResolveFrom(OutputFolder, d, disk) = FirstFile(e, disk) /\ Resolve(d) = FirstFile(c, files)
  BY DEF ResolveFrom, Resolve
<1> HIDE DEF c, e, first, disk, n
<1>7. \A i \in 1 .. n : c[i] \in disk <=> c[i] \in files
  BY <1>5 DEF disk
<1>8. CASE \E i \in 1 .. n : IsFirst(i, c, files)
  <2>1. PICK i \in 1 .. n : IsFirst(i, c, files)
    BY <1>8
  <2>2. IsFirst(i + 1, e, disk)
    <3>1. e[i + 1] \in disk
      BY <1>2, <1>7, <2>1 DEF IsFirst
    <3>2. ASSUME NEW j \in 1 .. i PROVE e[j] \notin disk
      <4>1. CASE j = 1
        BY <1>2, <1>4, <4>1
      <4>2. CASE j # 1
        <5>1. j - 1 \in 1 .. i - 1 /\ j - 1 \in 1 .. n /\ e[j] = c[j - 1]
          BY <1>1, <1>2, <4>2
        <5> QED
          BY <1>7, <2>1, <5>1 DEF IsFirst
      <4> QED
        BY <4>1, <4>2
    <3> QED
      BY <1>1, <3>1, <3>2 DEF IsFirst
  <2>3. FirstFile(c, files) = c[i]
    BY <1>1, <1>2, <2>1, FirstFileUnique
  <2>4. FirstFile(e, disk) = e[i + 1]
    BY <1>1, <1>2, <2>2, FirstFileUnique
  <2> QED
    BY <1>2, <1>6, <2>3, <2>4 DEF disk
<1>9. CASE ~\E i \in 1 .. n : IsFirst(i, c, files)
  <2>1. ASSUME NEW k \in 1 .. n + 1, IsFirst(k, e, disk) PROVE FALSE
    <3>1. k # 1
      BY <1>2, <1>4, <2>1 DEF IsFirst
    <3>2. k - 1 \in 1 .. n /\ e[k] = c[k - 1]
      BY <1>1, <1>2, <3>1
    <3>3. c[k - 1] \in files
      BY <1>7, <2>1, <3>2 DEF IsFirst
    <3>4. ASSUME NEW j \in 1 .. (k - 1) - 1 PROVE c[j] \notin files
      <4>1. j \in 1 .. n /\ j + 1 \in 1 .. k - 1 /\ e[j + 1] = c[j]
        BY <1>1, <1>2, <3>2
      <4> QED
        BY <1>7, <2>1, <4>1 DEF IsFirst
    <3> QED
      BY <1>9, <3>2, <3>3, <3>4 DEF IsFirst
  <2> QED
    BY <1>2, <1>6, <1>9, <2>1 DEF FirstFile, disk
<1> QED
  BY <1>8, <1>9

(* Written where no header found, and no file there, can be mistaken for   *)
(* the other, the library includes by each of its names the very file that *)
(* was compiled.                                                           *)
THEOREM WrittenApart == OutputApart => (Spec => []WrittenAsCompiled)
<1> SUFFICES ASSUME OutputApart PROVE Spec => []WrittenAsCompiled
  OBVIOUS
<1>1. GenerateInv => WrittenAsCompiled
  <2> SUFFICES ASSUME GenerateInv, NEW j \in DOMAIN active_include_headers
               PROVE  ResolveFrom(OutputFolder, active_include_headers[j], files \cup {output})
                         = Resolve(active_include_headers[j])
    BY DEF WrittenAsCompiled, OutputFolder
  <2>1. PICK h \in Erased : active_include_headers[j] \in ToSet(Directives[h])
    <3>1. PICK given :
             /\ GP!Included \subseteq Erased
             /\ \A i \in DOMAIN active_include_headers : \E h \in GP!Included : given[h] = i
             /\ \A h \in GP!Included :
                   active_include_headers[given[h]] \in ToSet(Directives[h])
      BY Given
    <3> QED
      BY <3>1
  <2>2. h \in Header
    BY DEF Erased
  <2>3. /\ active_include_headers[j] \in Path
        /\ NameOf(active_include_headers[j]) = NameOf(PathOf(h))
    BY <2>1, <2>2, DirectiveName
  <2> QED
    BY <2>2, <2>3, ResolvesAlike DEF OutputApart
<1> QED
  BY <1>1, GenerateInvAlways, PTL
=============================================================================
