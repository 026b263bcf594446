----------------------- MODULE HeaderDependenciesProofs -----------------------
(***************************************************************************)
(* The passes of the generate command find every header that can be        *)
(* included, for all folders, directives and needs.                        *)
(***************************************************************************)
EXTENDS HeaderDependencies, GenerateCommandProofs

(* The search runs over all the headers; and as long as the compiler goes  *)
(* by the needs, what the list brings in can be included.                  *)
NeedsInv ==
    /\ AnsweredByNeeds =>
          Provided(active_include_headers, Len(active_include_headers)) \subseteq Importable
    /\ pc \notin {"enumerate", "exit"} => folder = Len(folders) + 1

(* No answer is forgotten.                                                 *)
LEMMA AnswersKept ==
    ASSUME [Next]_vars
    PROVE  /\ compiles \subseteq compiles' /\ fails \subseteq fails'
           /\ AnsweredByNeeds' => AnsweredByNeeds
<1>1. compiles \subseteq compiles' /\ fails \subseteq fails'
  BY DEF Next, vars, oracleVars, EnumerateIncludeFiles, EnumerationFails,
      CreateCompilerInstance, BeginPass, AcceptDirective, RejectDirective, EndPass,
      CreateVisitor, FinalCompilation, ProcessAST, OpenHeaderFile, OpenImplementationFile,
      WriteFiles
<1> QED
  BY <1>1 DEF AnsweredByNeeds, Parses, Provided

-----------------------------------------------------------------------------
(* A header with a directive whose needs can be met can be included.       *)
LEMMA ImportableClosed == Closed(Importable)
<1> SUFFICES ASSUME NEW h \in Header, NEW d \in ToSet(directives[h]),
                    d \in good, needs[d] \subseteq Importable,
                    NEW S \in SUBSET Header, Closed(S)
             PROVE  h \in S
  BY DEF Closed, Importable
<1>1. needs[d] \subseteq S
  BY DEF Importable
<1> QED
  BY <1>1 DEF Closed

(* The directive that is accepted has its needs met by those before it.    *)
LEMMA AcceptKeepsImportable ==
    ASSUME TypeOK, NeedsInv, AcceptDirective, AnsweredByNeeds, AnsweredByNeeds'
    PROVE  Provided(active_include_headers', Len(active_include_headers')) \subseteq Importable
<1> DEFINE n == Len(active_include_headers)
           d == directives[header_files[header_desc_it]][include_directive]
<1>1. /\ pc = "try" /\ ~AtEnd
      /\ active_include_headers' = NewIncludeHeaders
      /\ ProcessAST(NewIncludeHeaders, TRUE)
  BY DEF AcceptDirective
<1>2. Parses(NewIncludeHeaders)
  <2>1. NewIncludeHeaders \in compiles'
    BY <1>1 DEF ProcessAST
  <2> QED
    BY <2>1 DEF AnsweredByNeeds, Parses, Provided
<1>3. active_include_headers \in Seq(Directive) /\ n \in Nat
  BY LenProperties DEF TypeOK
<1>4. /\ Len(NewIncludeHeaders) = n + 1 /\ NewIncludeHeaders[n + 1] = d
      /\ \A i \in 1 .. n : NewIncludeHeaders[i] = active_include_headers[i]
  <2>1. header_desc_it \in 1 .. Len(header_files)
        /\ header_files[header_desc_it] \in Header
    BY <1>1, NewIncludeHeadersType
  <2>2. d \in Directive
    <3>1. include_directive \in 1 .. Len(directives[header_files[header_desc_it]])
      BY <1>1, <2>1, DirectivesType DEF TypeOK
    <3> QED
      BY <2>1, <3>1, DirectivesType, ElementOfSeq
  <2>3. NewIncludeHeaders = Append(active_include_headers, d)
    BY DEF NewIncludeHeaders
  <2> HIDE DEF d
  <2> QED
    BY <1>3, <2>2, <2>3, AppendProperties
<1> HIDE DEF n, d
<1>5. d \in good /\ needs[d] \subseteq Provided(NewIncludeHeaders, n)
  <2>1. n + 1 \in 1 .. Len(NewIncludeHeaders) /\ (n + 1) - 1 = n
    BY <1>3, <1>4
  <2> QED
    BY <1>2, <1>4, <2>1 DEF Parses
<1>6. Provided(NewIncludeHeaders, n) \subseteq Importable
  <2>1. Provided(NewIncludeHeaders, n) = Provided(active_include_headers, n)
    BY <1>4 DEF Provided
  <2> QED
    BY <2>1 DEF NeedsInv, n
<1>7. ASSUME NEW h \in Provided(NewIncludeHeaders, n + 1) PROVE h \in Importable
  <2>1. PICK i \in 1 .. n + 1 : NewIncludeHeaders[i] \in ToSet(directives[h])
    BY <1>7 DEF Provided
  <2>2. CASE i \in 1 .. n
    BY <1>6, <1>7, <2>1, <2>2 DEF Provided
  <2>3. CASE i = n + 1
    <3>1. h \in Header /\ d \in ToSet(directives[h])
      BY <1>4, <1>7, <2>1, <2>3 DEF Provided
    <3> QED
      BY <1>5, <1>6, <3>1, ImportableClosed DEF Closed
  <2> QED
    BY <1>3, <2>1, <2>2, <2>3
<1> QED
  BY <1>1, <1>4, <1>7

LEMMA NeedsNext == TypeOK /\ NeedsInv /\ [Next]_vars => NeedsInv'
<1> SUFFICES ASSUME TypeOK, NeedsInv, [Next]_vars PROVE NeedsInv'
  OBVIOUS
<1>1. AnsweredByNeeds' => AnsweredByNeeds
  BY AnswersKept
<1>2. ASSUME AnsweredByNeeds'
      PROVE  Provided(active_include_headers', Len(active_include_headers')) \subseteq Importable
  <2>1. CASE AcceptDirective
    BY <1>1, <1>2, <2>1, AcceptKeepsImportable
  <2>2. CASE ~AcceptDirective
    <3>1. active_include_headers' = active_include_headers
      BY <2>2 DEF Next, vars, searchVars, EnumerateIncludeFiles, EnumerationFails,
            CreateCompilerInstance, BeginPass, RejectDirective, EndPass, CreateVisitor,
            FinalCompilation, OpenHeaderFile, OpenImplementationFile, WriteFiles
    <3> QED
      BY <1>1, <1>2, <3>1 DEF NeedsInv
  <2> QED
    BY <2>1, <2>2
<1>3. pc' \notin {"enumerate", "exit"} => folder' = Len(folders) + 1
  <2>1. Len(folders) \in Nat /\ folder \in 1 .. Len(folders) + 1
    BY FoldersAssumption, LenProperties DEF TypeOK
  <2>2. CASE CreateCompilerInstance
    <3>1. folder > Len(folders) /\ folder' = folder
      BY <2>2 DEF CreateCompilerInstance
    <3>2. folder = Len(folders) + 1
      <4> HIDE DEF TypeOK
      <4> QED
        BY <2>1, <3>1
    <3> QED
      BY <3>1, <3>2
  <2>3. CASE EnumerateIncludeFiles \/ EnumerationFails
    BY <2>3 DEF EnumerateIncludeFiles, EnumerationFails, Exit
  <2>4. CASE ~(CreateCompilerInstance \/ EnumerateIncludeFiles \/ EnumerationFails)
    <3>1. folder' = folder /\ (pc = "enumerate" => pc' = "enumerate")
      BY <2>4 DEF Next, vars, BeginPass, AcceptDirective, RejectDirective, EndPass,
            CreateVisitor, FinalCompilation, OpenHeaderFile, OpenImplementationFile, WriteFiles
    <3>2. pc = "exit" => pc' = "exit"
      BY <2>4 DEF Next, vars, BeginPass, AcceptDirective, RejectDirective, EndPass,
            CreateVisitor, FinalCompilation, OpenHeaderFile, OpenImplementationFile, WriteFiles
    <3> QED
      BY <3>1, <3>2 DEF NeedsInv
  <2> QED
    BY <2>2, <2>3, <2>4
<1> QED
  BY <1>2, <1>3 DEF NeedsInv, Provided, Importable, Closed

-----------------------------------------------------------------------------
(* What was included can be, and is among what the list brings in.         *)
LEMMA IncludedProvided ==
    ASSUME TypeOK, EveryHeaderOnce, NEW h \in Included, h \in Header
    PROVE  h \in Provided(active_include_headers, Len(active_include_headers))
<1>1. PICK given \in Bijection(Included, DOMAIN active_include_headers) :
          \A g \in Included : active_include_headers[given[g]] \in ToSet(directives[g])
  BY DEF EveryHeaderOnce
<1>2. given[h] \in DOMAIN active_include_headers
  BY <1>1 DEF Bijection, Injection, Surjection
<1>3. DOMAIN active_include_headers = 1 .. Len(active_include_headers)
  BY ToSetElements DEF TypeOK
<1> QED
  BY <1>1, <1>2, <1>3 DEF Provided

(* When the passes stop, every header whose needs are met is included.     *)
LEMMA IncludedClosed ==
    ASSUME TypeOK, ActiveCompiles, NoHeaderLeftOut, EveryHeaderOnce, NeedsInv, AnsweredByNeeds,
           ~OutOfMemory, pc \in {"visit", "compile", "render", "open", "write"}
    PROVE  Included \subseteq Header /\ Closed(Included)
<1> DEFINE n == Len(active_include_headers)
<1>1. Enumerated = Header
  <2>1. folder = Len(folders) + 1 /\ Len(folders) \in Nat
    BY FoldersAssumption, LenProperties DEF NeedsInv
  <2>2. 1 .. folder - 1 = 1 .. Len(folders)
    BY <2>1
  <2> QED
    BY <2>2, FoundAssumption DEF Enumerated
<1>2. active_include_headers \in Seq(Directive) /\ n \in Nat /\ header_files \in Seq(Header)
  BY LenProperties DEF TypeOK
<1>3. Parses(active_include_headers)
  <2>1. CASE active_include_headers = <<>>
    <3>1. n = 0
      BY <1>2, <2>1, EmptySeq
    <3> QED
      BY <3>1 DEF Parses
  <2>2. CASE active_include_headers # <<>>
    BY <2>2 DEF ActiveCompiles, AnsweredByNeeds
  <2> QED
    BY <2>1, <2>2
<1>4. ASSUME NEW h \in Header, NEW d \in ToSet(directives[h]), d \in good,
             needs[d] \subseteq Included, h \notin Included
      PROVE  FALSE
  <2> DEFINE tried == Append(active_include_headers, d)
  <2>1. PICK j \in 1 .. Len(header_files) : header_files[j] = h
    BY <1>1, <1>2, <1>4, ToSetElements DEF Included
  <2>2. PICK i \in 1 .. Len(directives[h]) : directives[h][i] = d
    BY <1>4, DirectivesType, ToSetElements
  <2>3. tried \in fails
    BY <2>1, <2>2 DEF NoHeaderLeftOut, Refused
  <2>4. d \in Directive
    BY <2>2, DirectivesType, ElementOfSeq
  <2>5. /\ Len(tried) = n + 1 /\ tried[n + 1] = d
        /\ \A k \in 1 .. n : tried[k] = active_include_headers[k]
    BY <1>2, <2>4, AppendProperties
  <2> HIDE DEF tried, n
  <2>6. needs[d] \subseteq Provided(active_include_headers, n)
    <3>1. needs[d] \subseteq Header
      BY <2>4, NeedsAssumption
    <3> QED
      BY <1>4, <3>1, IncludedProvided DEF n
  <2>7. \A k \in 0 .. n : Provided(tried, k) = Provided(active_include_headers, k)
    BY <1>2, <2>5 DEF Provided
  <2>8. ASSUME NEW k \in 1 .. n + 1
        PROVE  tried[k] \in good /\ needs[tried[k]] \subseteq Provided(tried, k - 1)
    <3>1. k - 1 \in 0 .. n
      BY <1>2
    <3>2. CASE k \in 1 .. n
      BY <1>3, <2>5, <2>7, <3>1, <3>2 DEF Parses, n
    <3>3. CASE k = n + 1
      <4>1. k - 1 = n
        BY <1>2, <3>3
      <4> QED
        BY <1>4, <2>5, <2>6, <2>7, <3>1, <3>3, <4>1
    <3> QED
      BY <1>2, <3>2, <3>3
  <2> QED
    BY <2>3, <2>5, <2>8 DEF Parses, AnsweredByNeeds
<1> QED
  BY <1>1, <1>4 DEF Included, Closed

(* The library gets every header that can be included and no other, in     *)
(* whatever order the folders list them.                                   *)
THEOREM IncludedExactly == Spec => []IncludedExact
<1>1. Init => NeedsInv
  <2> SUFFICES ASSUME Init PROVE NeedsInv
    OBVIOUS
  <2>1. active_include_headers = <<>> /\ Len(active_include_headers) = 0
    BY EmptySeq DEF Init
  <2> QED
    BY <2>1 DEF Init, NeedsInv, Provided
<1>2. /\ TypeOK /\ ActiveCompiles /\ NoHeaderLeftOut /\ EveryHeaderOnce /\ NeedsInv
      => IncludedExact
  <2> SUFFICES ASSUME TypeOK, ActiveCompiles, NoHeaderLeftOut, EveryHeaderOnce, NeedsInv,
                      ~OutOfMemory, AnsweredByNeeds,
                      pc \in {"visit", "compile", "render", "open", "write"}
               PROVE  Included = Importable
    BY DEF IncludedExact
  <2>1. Included \subseteq Header /\ Closed(Included)
    BY IncludedClosed
  <2>2. Importable \subseteq Included
    BY <2>1 DEF Importable
  <2>3. Included \subseteq Importable
    BY <2>1, IncludedProvided DEF NeedsInv
  <2> QED
    BY <2>2, <2>3
<1> QED
  BY <1>1, <1>2, NeedsNext, TypeCorrect, ActiveCompilesAlways, SearchMaximal, HeadersOnce, PTL
     DEF Spec
===============================================================================
