------------------------ MODULE GenerateCommandProofs ------------------------
(***************************************************************************)
(* Theorems about the generate command, for every set of headers, every    *)
(* choice of directives and folders, and every compiler.                   *)
(***************************************************************************)
EXTENDS GenerateCommand, SequenceTheorems, FiniteSetTheorems, TLAPS

-----------------------------------------------------------------------------
(* Sequences without one element, and with two kinds of elements.          *)

LEMMA RemoveAtProperties ==
    ASSUME NEW S, NEW s \in Seq(S), NEW i \in 1 .. Len(s)
    PROVE  /\ RemoveAt(s, i) \in Seq(S)
           /\ Len(RemoveAt(s, i)) = Len(s) - 1
           /\ \A j \in 1 .. Len(s) - 1 :
                 RemoveAt(s, i)[j] = IF j < i THEN s[j] ELSE s[j + 1]
<1> DEFINE front == SubSeq(s, 1, i - 1)
           back == SubSeq(s, i + 1, Len(s))
<1>1. Len(s) \in Nat /\ i \in Nat /\ 1 <= i /\ i <= Len(s)
  BY LenProperties
<1>2. \A j \in 1 .. Len(s) : s[j] \in S
  BY ElementOfSeq
<1>3. /\ front \in Seq(S) /\ Len(front) = i - 1
      /\ \A j \in 1 .. i - 1 : front[j] = s[j]
  <2>1. \A j \in 1 .. i - 1 : s[j] \in S
    BY <1>1, <1>2
  <2>2. /\ front \in Seq(S) /\ Len(front) = IF 1 <= i - 1 THEN i - 1 - 1 + 1 ELSE 0
        /\ \A j \in 1 .. i - 1 - 1 + 1 : front[j] = s[1 + j - 1]
    BY <1>1, <2>1, SubSeqProperties
  <2> QED
    BY <1>1, <2>2
<1>4. /\ back \in Seq(S) /\ Len(back) = Len(s) - i
      /\ \A j \in 1 .. Len(s) - i : back[j] = s[i + j]
  <2>1. \A j \in i + 1 .. Len(s) : s[j] \in S
    BY <1>1, <1>2
  <2>2. /\ back \in Seq(S) /\ Len(back) = IF i + 1 <= Len(s) THEN Len(s) - (i + 1) + 1 ELSE 0
        /\ \A j \in 1 .. Len(s) - (i + 1) + 1 : back[j] = s[i + 1 + j - 1]
    BY <1>1, <2>1, SubSeqProperties
  <2> QED
    BY <1>1, <2>2
<1> HIDE DEF front, back
<1>5. /\ front \o back \in Seq(S) /\ Len(front \o back) = Len(s) - 1
      /\ \A j \in 1 .. Len(s) - 1 :
            (front \o back)[j] = IF j <= i - 1 THEN front[j] ELSE back[j - (i - 1)]
  <2>1. Len(front) + Len(back) = Len(s) - 1
    BY <1>1, <1>3, <1>4
  <2>2. /\ front \o back \in Seq(S) /\ Len(front \o back) = Len(front) + Len(back)
        /\ \A j \in 1 .. Len(front) + Len(back) :
              (front \o back)[j] = IF j <= Len(front) THEN front[j] ELSE back[j - Len(front)]
    BY <1>3, <1>4, ConcatProperties
  <2>3. Len(front) = i - 1
    BY <1>3
  <2> QED
    BY <2>1, <2>2, <2>3
<1>6. RemoveAt(s, i) = front \o back
  BY DEF RemoveAt, front, back
<1>7. ASSUME NEW j \in 1 .. Len(s) - 1
      PROVE  (front \o back)[j] = IF j < i THEN s[j] ELSE s[j + 1]
  <2>1. CASE j < i
    <3>1. j <= i - 1 /\ j \in 1 .. i - 1
      BY <1>1, <2>1
    <3> QED
      BY <1>3, <1>5, <2>1, <3>1
  <2>2. CASE ~(j < i)
    <3>1. ~(j <= i - 1) /\ j - (i - 1) \in 1 .. Len(s) - i /\ i + (j - (i - 1)) = j + 1
      BY <1>1, <2>2
    <3> QED
      BY <1>4, <1>5, <2>2, <3>1
  <2> QED
    BY <2>1, <2>2
<1> QED
  BY <1>5, <1>6, <1>7

(* An order of a finite set: a sequence of its elements, each of them once. *)
LEMMA SetToSeqsProperties ==
    ASSUME NEW S, IsFiniteSet(S), NEW s \in SetToSeqs(S)
    PROVE  /\ s \in Seq(S) /\ ToSet(s) = S
           /\ \A i, j \in 1 .. Len(s) : s[i] = s[j] => i = j
<1> DEFINE n == Cardinality(S)
<1>1. n \in Nat
  BY FS_CardinalityType
<1>2. s \in [1 .. n -> S] /\ \A i, j \in 1 .. n : i # j => s[i] # s[j]
  BY DEF SetToSeqs
<1> HIDE DEF n
<1>3. s \in Seq(S) /\ Len(s) = n
  BY <1>1, <1>2
<1>4. s \in Injection(1 .. n, S)
  BY <1>2 DEF Injection, IsInjective
<1>5. IsFiniteSet(1 .. n) /\ Cardinality(1 .. n) = n
  BY <1>1, FS_Interval
<1>6. s \in Surjection(1 .. n, S)
  BY <1>4, <1>5, FS_Injection DEF n
<1>7. ToSet(s) = S
  BY <1>2, <1>6 DEF ToSet, Surjection
<1> QED
  BY <1>2, <1>3, <1>7

LEMMA DirectivesType ==
    ASSUME NEW h \in Header
    PROVE  /\ directives[h] \in Seq(Directive)
           /\ Len(directives[h]) \in Nat \ {0}
           /\ DOMAIN directives[h] = 1 .. Len(directives[h])
<1>1. directives[h] \in Seq(Directive) /\ directives[h] # <<>>
  BY DirectivesAssumption
<1> QED
  BY <1>1, EmptySeq, LenProperties

-----------------------------------------------------------------------------
(* Type correctness.                                                       *)

(* The list that is tried is a list of directives.                         *)
LEMMA NewIncludeHeadersType ==
    ASSUME TypeOK, pc = "try", ~AtEnd
    PROVE  /\ header_desc_it \in 1 .. Len(header_files)
           /\ header_files[header_desc_it] \in Header
           /\ NewIncludeHeaders \in Seq(Directive)
           /\ Len(NewIncludeHeaders) = Len(active_include_headers) + 1
<1>1. header_files \in Seq(Header) /\ active_include_headers \in Seq(Directive)
  BY DEF TypeOK
<1>2. header_desc_it \in 1 .. Len(header_files)
  BY <1>1, LenProperties DEF TypeOK, AtEnd
<1>3. header_files[header_desc_it] \in Header
  BY <1>1, <1>2, ElementOfSeq
<1>4. include_directive \in 1 .. Len(directives[header_files[header_desc_it]])
  BY <1>3, DirectivesType DEF TypeOK
<1>5. directives[header_files[header_desc_it]][include_directive] \in Directive
  BY <1>3, <1>4, DirectivesType, ElementOfSeq
<1> QED
  BY <1>1, <1>2, <1>3, <1>5 DEF NewIncludeHeaders

LEMMA ErasedType ==
    ASSUME TypeOK, pc = "try", ~AtEnd
    PROVE  /\ Erased \in Seq(Header)
           /\ Len(Erased) = Len(header_files) - 1
           /\ \A j \in 1 .. Len(header_files) - 1 :
                 Erased[j] = IF j < header_desc_it THEN header_files[j] ELSE header_files[j + 1]
<1>1. header_files \in Seq(Header) /\ header_desc_it \in 1 .. Len(header_files)
  BY NewIncludeHeadersType DEF TypeOK
<1> QED
  BY <1>1, RemoveAtProperties DEF Erased

LEMMA TypeInit == Init => TypeOK
BY FoldersAssumption DEF Init, TypeOK, FileState, Outcome, AtEnd

LEMMA TypeNext == TypeOK /\ [Next]_vars => TypeOK'
<1> SUFFICES ASSUME TypeOK, [Next]_vars PROVE TypeOK'
  OBVIOUS
<1> USE DEF TypeOK, AtEnd
<1>1. CASE EnumerateIncludeFiles
  <2>1. PICK found \in SetToSeqs(folders[folder]) : header_files' = header_files \o found
    BY <1>1 DEF EnumerateIncludeFiles
  <2>2. Len(folders) \in Nat /\ folder \in 1 .. Len(folders)
    BY <1>1, FoldersAssumption, LenProperties DEF EnumerateIncludeFiles
  <2>3. IsFiniteSet(folders[folder]) /\ folders[folder] \subseteq Header
    BY <2>2, FoldersAssumption, ElementOfSeq
  <2>4. found \in Seq(Header)
    BY <2>3, SetToSeqsProperties, SeqMonotonic
  <2>5. header_files' \in Seq(Header)
    BY <2>1, <2>4, ConcatProperties
  <2> QED
    BY <1>1, <2>2, <2>5 DEF EnumerateIncludeFiles, searchVars, oracleVars, outputVars
<1>2. CASE EnumerationFails
  BY <1>2 DEF EnumerationFails, Exit, searchVars, oracleVars, outputVars, Outcome
<1>3. CASE CreateCompilerInstance
  BY <1>3 DEF CreateCompilerInstance, Exit, searchVars, oracleVars, outputVars, Outcome
<1>4. CASE BeginPass
  <2>1. Len(header_files) \in Nat /\ Len(active_include_headers) \in Nat
    BY LenProperties
  <2>2. 1 <= Len(header_files) => header_files[1] \in Header
    BY <2>1, ElementOfSeq
  <2>3. 1 <= Len(header_files) => 1 <= Len(directives[header_files[1]])
    BY <2>2, DirectivesType
  <2> QED
    BY <1>4, <2>1, <2>3 DEF BeginPass, oracleVars, outputVars
<1>5. CASE AcceptDirective
  <2>1. pc = "try" /\ ~AtEnd
    BY <1>5 DEF AcceptDirective
  <2>2. /\ header_desc_it \in 1 .. Len(header_files) /\ NewIncludeHeaders \in Seq(Directive)
        /\ Erased \in Seq(Header) /\ Len(Erased) = Len(header_files) - 1
    BY <2>1, NewIncludeHeadersType, ErasedType
  <2>3. header_desc_it <= Len(Erased) => Erased[header_desc_it] \in Header
    BY <2>2, ElementOfSeq
  <2>4. header_desc_it <= Len(Erased) => 1 <= Len(directives[Erased[header_desc_it]])
    BY <2>3, DirectivesType
  <2>5. compiles' \subseteq Seq(Directive) /\ fails' \subseteq Seq(Directive)
    BY <1>5, <2>2 DEF AcceptDirective, ProcessAST, oracleVars
  <2> QED
    BY <1>5, <2>2, <2>4, <2>5 DEF AcceptDirective, outputVars
<1>6. CASE RejectDirective
  <2>1. pc = "try" /\ ~AtEnd
    BY <1>6 DEF RejectDirective
  <2>2. /\ header_desc_it \in 1 .. Len(header_files) /\ NewIncludeHeaders \in Seq(Directive)
        /\ header_files[header_desc_it] \in Header
    BY <2>1, NewIncludeHeadersType
  <2>3. compiles' \subseteq Seq(Directive) /\ fails' \subseteq Seq(Directive)
    BY <1>6, <2>2 DEF RejectDirective, ProcessAST, oracleVars
  <2>4. CASE LastDirective
    <3>1. Len(header_files) \in Nat
      BY LenProperties
    <3>2. header_desc_it + 1 <= Len(header_files) =>
              1 <= Len(directives[header_files[header_desc_it + 1]])
      BY <2>2, <3>1, ElementOfSeq, DirectivesType
    <3> QED
      BY <1>6, <2>2, <2>3, <2>4, <3>1, <3>2 DEF RejectDirective, outputVars
  <2>5. CASE ~LastDirective
    <3>1. include_directive + 1 <= Len(directives[header_files[header_desc_it]])
      BY <2>1, <2>2, <2>5, DirectivesType DEF LastDirective
    <3> QED
      BY <1>6, <2>2, <2>3, <2>5, <3>1 DEF RejectDirective, outputVars
  <2> QED
    BY <2>4, <2>5
<1>7. CASE EndPass
  BY <1>7 DEF EndPass, searchVars, oracleVars, outputVars
<1>8. CASE CreateVisitor
  BY <1>8 DEF CreateVisitor, Exit, searchVars, oracleVars, outputVars, Outcome
<1>9. CASE FinalCompilation
  <2>1. compiles' \subseteq Seq(Directive) /\ fails' \subseteq Seq(Directive)
    BY <1>9 DEF FinalCompilation, ProcessAST, FinalList, oracleVars
  <2> QED
    BY <1>9, <2>1 DEF FinalCompilation, Exit, searchVars, outputVars, Outcome
<1>10. CASE OpenHeaderFile
  BY <1>10 DEF OpenHeaderFile, Exit, searchVars, oracleVars, Outcome, FileState
<1>11. CASE OpenImplementationFile
  BY <1>11 DEF OpenImplementationFile, Exit, searchVars, oracleVars, Outcome, FileState
<1>12. CASE WriteFiles
  BY <1>12 DEF WriteFiles, Exit, searchVars, oracleVars, Outcome, FileState
<1>13. CASE UNCHANGED vars
  BY <1>13 DEF vars, searchVars, oracleVars, outputVars
<1> QED
  BY <1>1, <1>2, <1>3, <1>4, <1>5, <1>6, <1>7, <1>8, <1>9, <1>10, <1>11, <1>12, <1>13 DEF Next

(* The iterator never leaves the list of headers, nor the directive the    *)
(* list of the header's directives, although the list shrinks while it is  *)
(* walked.                                                                 *)
THEOREM TypeCorrect == Spec => []TypeOK
BY TypeInit, TypeNext, PTL DEF Spec
-----------------------------------------------------------------------------
(* The list that is kept was accepted, and the refused lists were not.     *)
LEMMA ActiveNext == TypeOK /\ ActiveCompiles /\ [Next]_vars => ActiveCompiles'
<1> SUFFICES ASSUME TypeOK, ActiveCompiles, [Next]_vars PROVE ActiveCompiles'
  OBVIOUS
<1> USE DEF ActiveCompiles
<1>1. CASE EnumerateIncludeFiles
  BY <1>1 DEF EnumerateIncludeFiles, searchVars, oracleVars
<1>2. CASE EnumerationFails
  BY <1>2 DEF EnumerationFails, searchVars, oracleVars
<1>3. CASE CreateCompilerInstance
  BY <1>3 DEF CreateCompilerInstance, searchVars, oracleVars
<1>4. CASE BeginPass
  BY <1>4 DEF BeginPass, oracleVars
<1>5. CASE AcceptDirective
  BY <1>5 DEF AcceptDirective, ProcessAST, oracleVars
<1>6. CASE RejectDirective
  BY <1>6 DEF RejectDirective, ProcessAST, oracleVars
<1>7. CASE EndPass
  BY <1>7 DEF EndPass, searchVars, oracleVars
<1>8. CASE CreateVisitor
  BY <1>8 DEF CreateVisitor, searchVars, oracleVars
<1>9. CASE FinalCompilation
  BY <1>9 DEF FinalCompilation, ProcessAST, searchVars, oracleVars
<1>10. CASE OpenHeaderFile
  BY <1>10 DEF OpenHeaderFile, searchVars, oracleVars
<1>11. CASE OpenImplementationFile
  BY <1>11 DEF OpenImplementationFile, searchVars, oracleVars
<1>12. CASE WriteFiles
  BY <1>12 DEF WriteFiles, searchVars, oracleVars
<1>13. CASE UNCHANGED vars
  BY <1>13 DEF vars, searchVars, oracleVars
<1> QED
  BY <1>1, <1>2, <1>3, <1>4, <1>5, <1>6, <1>7, <1>8, <1>9, <1>10, <1>11, <1>12, <1>13 DEF Next

(* The accepted headers compile together in the order of the library, at   *)
(* every moment of the search, and the answers of the compiler that the    *)
(* search relies on do not contradict each other.                          *)
THEOREM ActiveCompilesAlways == Spec => []ActiveCompiles
<1>1. Init => ActiveCompiles
  BY DEF Init, ActiveCompiles
<1> QED
  BY <1>1, ActiveNext, TypeCorrect, PTL DEF Spec

-----------------------------------------------------------------------------
(* The last compilation repeats one that succeeded, with the visitor.      *)
(* What it may fail for is known from the step that makes it fail.         *)
LEMMA FinalNext ==
    TypeOK /\ ActiveCompiles /\ FinalCompilationRepeats /\ [Next]_vars
        => FinalCompilationRepeats'
<1> SUFFICES ASSUME TypeOK, ActiveCompiles, FinalCompilationRepeats, [Next]_vars,
                    outcome' \in {"not compiled", "not mangled"}
             PROVE  FinalCompilationRepeats'
  BY DEF FinalCompilationRepeats
<1>1. CASE FinalCompilation
  <2>1. active_include_headers' = active_include_headers /\ outcome = "running"
    BY <1>1 DEF FinalCompilation, searchVars, TypeOK
  <2>2. CASE outcome' = "not compiled"
    <3>1. ProcessAST(FinalList, FALSE)
      BY <1>1, <2>1, <2>2 DEF FinalCompilation, Exit
    <3>2. active_include_headers \notin compiles \/ OutOfMemory
      BY <3>1 DEF ProcessAST, FinalList
    <3> QED
      BY <2>1, <2>2, <3>2 DEF ActiveCompiles, FinalCompilationRepeats
  <2>3. CASE outcome' = "not mangled"
    <3>1. MangleErrors /\ ProcessAST(FinalList, TRUE)
      BY <1>1, <2>1, <2>3 DEF FinalCompilation, Exit
    <3>2. active_include_headers \in compiles'
      BY <3>1 DEF ProcessAST, FinalList
    <3> QED
      BY <2>1, <2>3, <3>1, <3>2 DEF FinalCompilationRepeats
  <2> QED
    BY <2>2, <2>3
<1>2. CASE ~FinalCompilation
  <2>1. outcome \in {"not compiled", "not mangled"}
    BY <1>2 DEF Next, EnumerateIncludeFiles, EnumerationFails, CreateCompilerInstance,
                BeginPass, AcceptDirective, RejectDirective, EndPass, CreateVisitor,
                OpenHeaderFile, OpenImplementationFile, WriteFiles, Exit, vars
  <2>2. pc = "exit"
    BY <2>1 DEF TypeOK
  <2>3. UNCHANGED vars
    BY <1>2, <2>2 DEF Next, EnumerateIncludeFiles, EnumerationFails, CreateCompilerInstance,
                BeginPass, AcceptDirective, RejectDirective, EndPass, CreateVisitor,
                OpenHeaderFile, OpenImplementationFile, WriteFiles
  <2> QED
    BY <2>1, <2>3 DEF FinalCompilationRepeats, vars, searchVars, oracleVars
<1> QED
  BY <1>1, <1>2

(* The list that was found is refused in the end only when it is empty,    *)
(* when memory runs out, or when the visitor met a name that cannot be     *)
(* mangled; in the last case the list did parse again.                     *)
THEOREM FinalCompilationSafe == Spec => []FinalCompilationRepeats
<1>1. Init => FinalCompilationRepeats
  BY DEF Init, FinalCompilationRepeats
<1> QED
  BY <1>1, FinalNext, TypeCorrect, ActiveCompilesAlways, PTL DEF Spec

-----------------------------------------------------------------------------
(* What was refused after a list stays refused while the list is the same. *)
LEMMA RefusedStays ==
    ASSUME active_include_headers' = active_include_headers, fails \subseteq fails',
           NEW h, Refused(h)
    PROVE  Refused(h)'
BY DEF Refused

LEMMA NoHeaderLeftOutStays ==
    ASSUME NoHeaderLeftOut, UNCHANGED <<header_files, active_include_headers>>,
           fails \subseteq fails',
           pc' \in {"visit", "compile", "render", "open", "write"} =>
              pc \in {"visit", "compile", "render", "open", "write"}
    PROVE  NoHeaderLeftOut'
<1> SUFFICES ASSUME ~OutOfMemory, pc \in {"visit", "compile", "render", "open", "write"},
                    NEW j \in 1 .. Len(header_files)
             PROVE  Refused(header_files[j])'
  BY DEF NoHeaderLeftOut
<1>1. Refused(header_files[j])
  BY DEF NoHeaderLeftOut
<1> QED
  BY <1>1 DEF Refused

(* The directive that was refused last joins those of its header.          *)
LEMMA PassRefusedReject ==
    ASSUME TypeOK, PassRefused, RejectDirective PROVE PassRefused'
<1>1. /\ pc = "try" /\ pc' = "try" /\ ~AtEnd
      /\ UNCHANGED <<header_files, active_include_headers, previous_active_header_count>>
      /\ fails \subseteq fails'
  BY DEF RejectDirective, ProcessAST, oracleVars
<1>2. /\ header_desc_it \in 1 .. Len(header_files)
      /\ header_files[header_desc_it] \in Header
  BY <1>1, NewIncludeHeadersType
<1>3. Len(header_files) \in Nat
  BY LenProperties DEF TypeOK
<1>4. previous_active_header_count' <= Len(active_include_headers')
  BY <1>1 DEF PassRefused
<1>5. NoHeaderLeftOut'
  BY <1>1 DEF NoHeaderLeftOut
<1>6. ASSUME ~OutOfMemory, previous_active_header_count = Len(active_include_headers)
      PROVE  /\ \A j \in 1 .. header_desc_it' - 1 : Refused(header_files[j])'
             /\ ~AtEnd' => \A i \in 1 .. include_directive' - 1 :
                   Append(active_include_headers,
                          directives[header_files[header_desc_it']][i]) \in fails'
  <2> DEFINE h == header_files[header_desc_it]
             n == Len(directives[h])
  <2>1. NewIncludeHeaders \in fails'
    BY <1>6 DEF RejectDirective, ProcessAST
  <2>2. \A j \in 1 .. header_desc_it - 1 : Refused(header_files[j])'
    BY <1>1, <1>6 DEF PassRefused, Refused
  <2>3. \A i \in 1 .. include_directive - 1 :
            Append(active_include_headers, directives[h][i]) \in fails'
    BY <1>1, <1>6 DEF PassRefused
  <2>4. Append(active_include_headers, directives[h][include_directive]) \in fails'
    BY <2>1 DEF NewIncludeHeaders
  <2>5. include_directive \in Nat \ {0} /\ n \in Nat \ {0} /\ include_directive <= n
    BY <1>1, <1>2, DirectivesType DEF TypeOK
  <2>6. \A i \in 1 .. include_directive :
            Append(active_include_headers, directives[h][i]) \in fails'
    BY <2>3, <2>4, <2>5
  <2>7. CASE LastDirective
    <3>1. include_directive = n /\ include_directive' = 1
          /\ header_desc_it' = header_desc_it + 1
      BY <2>7 DEF RejectDirective, LastDirective
    <3>2. \A i \in 1 .. n : Append(active_include_headers', directives[h][i]) \in fails'
      BY <1>1, <2>6, <3>1
    <3>3. \A j \in 1 .. header_desc_it : Refused(header_files[j])'
      <4> SUFFICES ASSUME NEW j \in 1 .. header_desc_it PROVE Refused(header_files[j])'
        OBVIOUS
      <4>1. j \in 1 .. header_desc_it - 1 \/ j = header_desc_it
        BY <1>2, <1>3
      <4>2. CASE j = header_desc_it
        <5>1. header_files[j] = h /\ header_files'[j] = h
          BY <1>1, <4>2
        <5> QED
          BY <1>1, <3>2, <5>1 DEF Refused
      <4> QED
        BY <2>2, <4>1, <4>2
    <3>4. header_desc_it' - 1 = header_desc_it
      BY <1>2, <1>3, <3>1
    <3> QED
      BY <3>1, <3>3, <3>4
  <2>8. CASE ~LastDirective
    <3>1. include_directive' = include_directive + 1 /\ header_desc_it' = header_desc_it
      BY <2>8 DEF RejectDirective
    <3>2. include_directive' - 1 = include_directive
      BY <2>5, <3>1
    <3> QED
      BY <2>2, <2>6, <3>1, <3>2
  <2> QED
    BY <2>7, <2>8
<1> QED
  BY <1>1, <1>4, <1>5, <1>6 DEF PassRefused, Refused

LEMMA PassRefusedNext == TypeOK /\ PassRefused /\ [Next]_vars => PassRefused'
<1> SUFFICES ASSUME TypeOK, PassRefused, [Next]_vars PROVE PassRefused'
  OBVIOUS
<1>0. NoHeaderLeftOut /\ Len(active_include_headers) \in Nat /\ Len(header_files) \in Nat
  BY LenProperties DEF PassRefused, TypeOK
<1>1. CASE EnumerateIncludeFiles
  BY <1>1 DEF EnumerateIncludeFiles, PassRefused, NoHeaderLeftOut
<1>2. CASE EnumerationFails
  BY <1>2 DEF EnumerationFails, Exit, PassRefused, NoHeaderLeftOut
<1>3. CASE CreateCompilerInstance
  BY <1>3 DEF CreateCompilerInstance, Exit, PassRefused, NoHeaderLeftOut
<1>4. CASE BeginPass
  <2>1. /\ pc' = "try" /\ header_desc_it' = 1 /\ include_directive' = 1
        /\ previous_active_header_count' = Len(active_include_headers')
    BY <1>4 DEF BeginPass
  <2>2. 1 .. header_desc_it' - 1 = {} /\ 1 .. include_directive' - 1 = {}
    BY <2>1
  <2>3. NoHeaderLeftOut'
    BY <2>1 DEF NoHeaderLeftOut
  <2>4. Len(active_include_headers') \in Nat
    BY <1>0, <1>4 DEF BeginPass
  <2> QED
    BY <2>1, <2>2, <2>3, <2>4 DEF PassRefused
<1>5. CASE AcceptDirective
  <2>1. pc = "try" /\ pc' = "try" /\ ~AtEnd
        /\ previous_active_header_count' = previous_active_header_count
        /\ active_include_headers' = NewIncludeHeaders
    BY <1>5 DEF AcceptDirective
  <2>2. Len(active_include_headers') = Len(active_include_headers) + 1
    BY <2>1, NewIncludeHeadersType
  <2>3. previous_active_header_count <= Len(active_include_headers)
        /\ previous_active_header_count \in Nat
    BY <2>1 DEF PassRefused, TypeOK
  <2>4. NoHeaderLeftOut'
    BY <2>1 DEF NoHeaderLeftOut
  <2>5. previous_active_header_count' <= Len(active_include_headers')
        /\ previous_active_header_count' # Len(active_include_headers')
    BY <1>0, <2>1, <2>2, <2>3
  <2> QED
    BY <2>4, <2>5 DEF PassRefused
<1>6. CASE RejectDirective
  BY <1>6, PassRefusedReject
<1>7. CASE EndPass
  <2>1. /\ pc = "try" /\ AtEnd /\ pc' = IF NoProgress THEN "visit" ELSE "pass"
        /\ UNCHANGED <<header_files, active_include_headers, fails>>
    BY <1>7 DEF EndPass, searchVars, oracleVars
  <2>2. ASSUME ~OutOfMemory, NoProgress, NEW j \in 1 .. Len(header_files)
        PROVE  Refused(header_files[j])
    <3>1. \A k \in 1 .. header_desc_it - 1 : Refused(header_files[k])
      BY <2>1, <2>2 DEF PassRefused, NoProgress
    <3>2. j \in 1 .. header_desc_it - 1
      BY <1>0, <2>1 DEF AtEnd, TypeOK
    <3> QED
      BY <3>1, <3>2
  <2>3. NoHeaderLeftOut'
    BY <2>1, <2>2 DEF NoHeaderLeftOut, Refused
  <2> QED
    BY <2>1, <2>3 DEF PassRefused
<1>8. CASE CreateVisitor
  <2>1. NoHeaderLeftOut'
    BY <1>0, <1>8, NoHeaderLeftOutStays DEF CreateVisitor, Exit, searchVars, oracleVars
  <2> QED
    BY <1>8, <2>1 DEF CreateVisitor, Exit, PassRefused
<1>9. CASE FinalCompilation
  <2>1. NoHeaderLeftOut'
    BY <1>0, <1>9, NoHeaderLeftOutStays
       DEF FinalCompilation, ProcessAST, Exit, searchVars, oracleVars
  <2> QED
    BY <1>9, <2>1 DEF FinalCompilation, Exit, PassRefused
<1>10. CASE OpenHeaderFile
  <2>1. NoHeaderLeftOut'
    BY <1>0, <1>10, NoHeaderLeftOutStays DEF OpenHeaderFile, Exit, searchVars, oracleVars
  <2> QED
    BY <1>10, <2>1 DEF OpenHeaderFile, Exit, PassRefused
<1>11. CASE OpenImplementationFile
  <2>1. NoHeaderLeftOut'
    BY <1>0, <1>11, NoHeaderLeftOutStays
       DEF OpenImplementationFile, Exit, searchVars, oracleVars
  <2> QED
    BY <1>11, <2>1 DEF OpenImplementationFile, Exit, PassRefused
<1>12. CASE WriteFiles
  BY <1>12 DEF WriteFiles, Exit, PassRefused, NoHeaderLeftOut
<1>13. CASE UNCHANGED vars
  BY <1>13 DEF vars, searchVars, oracleVars, PassRefused, NoHeaderLeftOut, Refused, AtEnd
<1> QED
  BY <1>1, <1>2, <1>3, <1>4, <1>5, <1>6, <1>7, <1>8, <1>9, <1>10, <1>11, <1>12, <1>13 DEF Next

(* While a pass has accepted nothing, what it has been through was refused *)
(* after the list as it stands; so the pass that ends the search has tried *)
(* all that is left after the final list.                                  *)
THEOREM PassRefusedAlways == Spec => []PassRefused
<1>1. Init => PassRefused
  BY DEF Init, PassRefused, NoHeaderLeftOut
<1> QED
  BY <1>1, PassRefusedNext, TypeCorrect, PTL DEF Spec

(* The search is maximal: no header that is left could still be added.     *)
THEOREM SearchMaximal == Spec => []NoHeaderLeftOut
<1>1. PassRefused => NoHeaderLeftOut
  BY DEF PassRefused
<1> QED
  BY <1>1, PassRefusedAlways, PTL
-----------------------------------------------------------------------------
(* The output files.  The invariant says how far the command has got.      *)
OutputInv ==
    /\ pc \in {"enumerate", "pass", "try", "visit", "compile", "render"} =>
          header_file = "previous" /\ cpp_file = "previous"
    /\ pc = "open" => header_file = "empty" /\ cpp_file = "previous"
    /\ pc = "write" => header_file = "empty" /\ cpp_file = "empty"
    /\ pc \in {"render", "open", "write"} => active_include_headers \in compiles
    /\ OutputAfterCompilation

LEMMA OutputNext == TypeOK /\ OutputInv /\ [Next]_vars => OutputInv'
<1> SUFFICES ASSUME TypeOK, OutputInv, [Next]_vars PROVE OutputInv'
  OBVIOUS
<1> USE DEF OutputInv, OutputAfterCompilation, TypeOK
<1>1. CASE EnumerateIncludeFiles
  BY <1>1 DEF EnumerateIncludeFiles, searchVars, oracleVars, outputVars
<1>2. CASE EnumerationFails
  BY <1>2 DEF EnumerationFails, Exit, searchVars, oracleVars, outputVars
<1>3. CASE CreateCompilerInstance
  BY <1>3 DEF CreateCompilerInstance, Exit, searchVars, oracleVars, outputVars
<1>4. CASE BeginPass
  BY <1>4 DEF BeginPass, oracleVars, outputVars
<1>5. CASE AcceptDirective
  BY <1>5 DEF AcceptDirective, outputVars
<1>6. CASE RejectDirective
  BY <1>6 DEF RejectDirective, outputVars
<1>7. CASE EndPass
  BY <1>7 DEF EndPass, searchVars, oracleVars, outputVars
<1>8. CASE CreateVisitor
  BY <1>8 DEF CreateVisitor, Exit, searchVars, oracleVars, outputVars
<1>9. CASE FinalCompilation
  BY <1>9 DEF FinalCompilation, FinalList, ProcessAST, Exit, searchVars, oracleVars, outputVars
<1>10. CASE OpenHeaderFile
  BY <1>10 DEF OpenHeaderFile, Exit, searchVars, oracleVars
<1>11. CASE OpenImplementationFile
  BY <1>11 DEF OpenImplementationFile, Exit, searchVars, oracleVars
<1>12. CASE WriteFiles
  BY <1>12 DEF WriteFiles, Exit, searchVars, oracleVars
<1>13. CASE UNCHANGED vars
  BY <1>13 DEF vars, searchVars, oracleVars, outputVars
<1> QED
  BY <1>1, <1>2, <1>3, <1>4, <1>5, <1>6, <1>7, <1>8, <1>9, <1>10, <1>11, <1>12, <1>13 DEF Next

(* Whatever fails, an output file is touched only by a run whose list      *)
(* compiles, and what is left of it is what the result says.               *)
THEOREM OutputSafe == Spec => []OutputAfterCompilation
<1>1. Init => OutputInv
  BY DEF Init, OutputInv, OutputAfterCompilation
<1>2. OutputInv => OutputAfterCompilation
  BY DEF OutputInv
<1> QED
  BY <1>1, <1>2, OutputNext, TypeCorrect, PTL DEF Spec

-----------------------------------------------------------------------------
(* The headers: what is left in the list was found in a folder that was    *)
(* enumerated.                                                             *)
HeadersInv == ToSet(header_files) \subseteq Enumerated /\ EveryHeaderOnce

LEMMA ToSetElements ==
    ASSUME NEW S, NEW s \in Seq(S)
    PROVE  /\ \A x : x \in ToSet(s) <=> \E i \in 1 .. Len(s) : s[i] = x
           /\ DOMAIN s = 1 .. Len(s)
BY LenProperties DEF ToSet

LEMMA HeadersEnumerate ==
    ASSUME TypeOK, HeadersInv, EnumerateIncludeFiles PROVE HeadersInv'
<1> DEFINE F == folders[folder]
           n == Len(header_files)
<1>1. PICK found \in SetToSeqs(F) : header_files' = header_files \o found
  BY DEF EnumerateIncludeFiles
<1>2. Len(folders) \in Nat /\ folder \in 1 .. Len(folders) /\ folder' = folder + 1
      /\ active_include_headers' = active_include_headers
  BY FoldersAssumption, LenProperties DEF EnumerateIncludeFiles, TypeOK, searchVars
<1>3. IsFiniteSet(F) /\ F \subseteq Header
  BY <1>2, FoldersAssumption, ElementOfSeq
<1>4. /\ found \in Seq(F) /\ ToSet(found) = F
      /\ \A i, j \in 1 .. Len(found) : found[i] = found[j] => i = j
  BY <1>3, SetToSeqsProperties
<1>5. found \in Seq(Header) /\ header_files \in Seq(Header)
  BY <1>3, <1>4, SeqMonotonic DEF TypeOK
<1>6. n \in Nat /\ Len(found) \in Nat
  BY <1>5, LenProperties
<1>7. /\ header_files' \in Seq(Header) /\ Len(header_files') = n + Len(found)
      /\ \A i \in 1 .. n + Len(found) :
            header_files'[i] = IF i <= n THEN header_files[i] ELSE found[i - n]
  BY <1>1, <1>5, ConcatProperties
<1>8. Enumerated \cap F = {}
  <2> SUFFICES ASSUME NEW i \in 1 .. folder - 1 PROVE folders[i] \cap F = {}
    BY DEF Enumerated
  <2>1. i \in 1 .. Len(folders) /\ i # folder
    BY <1>2
  <2> QED
    BY <1>2, <2>1, FoldersAssumption
<1>9. Enumerated' = Enumerated \cup F
  <2>1. 1 .. folder' - 1 = (1 .. folder - 1) \cup {folder}
    BY <1>2
  <2> QED
    BY <2>1 DEF Enumerated
<1>10. ToSet(header_files') = ToSet(header_files) \cup F
  <2>1. ASSUME NEW x \in ToSet(header_files') PROVE x \in ToSet(header_files) \cup F
    <3>1. PICK i \in 1 .. n + Len(found) : header_files'[i] = x
      BY <1>7, <2>1, ToSetElements
    <3>2. CASE i <= n
      BY <1>5, <1>6, <1>7, <3>1, <3>2, ToSetElements
    <3>3. CASE ~(i <= n)
      <4>1. i - n \in 1 .. Len(found) /\ found[i - n] = x
        BY <1>6, <1>7, <3>1, <3>3
      <4> QED
        BY <1>4, <1>5, <4>1, ToSetElements
    <3> QED
      BY <3>2, <3>3
  <2>2. ASSUME NEW x \in ToSet(header_files) PROVE x \in ToSet(header_files')
    <3>1. PICK i \in 1 .. n : header_files[i] = x
      BY <1>5, <2>2, ToSetElements
    <3>2. i \in 1 .. n + Len(found) /\ i <= n
      BY <1>6
    <3> QED
      BY <1>7, <3>1, <3>2, ToSetElements
  <2>3. ASSUME NEW x \in F PROVE x \in ToSet(header_files')
    <3>1. PICK i \in 1 .. Len(found) : found[i] = x
      BY <1>4, <1>5, <2>3, ToSetElements
    <3>2. i + n \in 1 .. n + Len(found) /\ ~(i + n <= n) /\ (i + n) - n = i
      BY <1>6
    <3> QED
      BY <1>7, <3>1, <3>2, ToSetElements
  <2> QED
    BY <2>1, <2>2, <2>3
<1>11. Included' = Included
  <2>1. Included = Enumerated \ ToSet(header_files)
    BY DEF Included
  <2>2. Included' = Enumerated' \ ToSet(header_files')
    BY DEF Included
  <2>3. ToSet(header_files) \subseteq Enumerated
    BY DEF HeadersInv
  <2> HIDE DEF F
  <2> QED
    BY <1>8, <1>9, <1>10, <2>1, <2>2, <2>3
<1>12. IsInjective(header_files')
  <2>1. \A i, j \in 1 .. n : header_files[i] = header_files[j] => i = j
    BY <1>5, ToSetElements DEF HeadersInv, EveryHeaderOnce, IsInjective
  <2>2. ASSUME NEW i \in 1 .. n + Len(found), NEW j \in 1 .. n + Len(found),
               header_files'[i] = header_files'[j]
        PROVE  i = j
    <3>1. ASSUME NEW k \in 1 .. n + Len(found), k <= n
          PROVE  k \in 1 .. n /\ header_files'[k] = header_files[k]
                 /\ header_files[k] \in ToSet(header_files)
      BY <1>5, <1>6, <1>7, <3>1, ToSetElements
    <3>2. ASSUME NEW k \in 1 .. n + Len(found), ~(k <= n)
          PROVE  k - n \in 1 .. Len(found) /\ header_files'[k] = found[k - n]
                 /\ found[k - n] \in F
      <4>1. k - n \in 1 .. Len(found)
        BY <1>6, <3>2
      <4> QED
        BY <1>4, <1>7, <3>2, <4>1, ElementOfSeq
    <3>3. ToSet(header_files) \cap F = {}
      BY <1>8 DEF HeadersInv
    <3>4. CASE i <= n /\ j <= n
      BY <2>1, <2>2, <3>1, <3>4
    <3>5. CASE ~(i <= n) /\ ~(j <= n)
      <4>1. i - n = j - n
        BY <1>4, <2>2, <3>2, <3>5
      <4> QED
        BY <1>6, <4>1
    <3>6. CASE ~((i <= n) <=> (j <= n))
      BY <2>2, <3>1, <3>2, <3>3, <3>6
    <3> QED
      BY <3>4, <3>5, <3>6
  <2>3. DOMAIN header_files' = 1 .. n + Len(found)
    BY <1>7, ToSetElements
  <2> QED
    BY <2>2, <2>3 DEF IsInjective
<1>13. EveryHeaderOnce'
  <2>1. PICK given \in Bijection(Included, DOMAIN active_include_headers) :
            \A h \in Included : active_include_headers[given[h]] \in ToSet(directives[h])
    BY DEF HeadersInv, EveryHeaderOnce
  <2>2. /\ given \in Bijection(Included', DOMAIN active_include_headers')
        /\ \A h \in Included' : active_include_headers'[given[h]] \in ToSet(directives[h])
    BY <1>2, <1>11, <2>1
  <2> QED
    BY <1>12, <2>2 DEF EveryHeaderOnce
<1> QED
  BY <1>9, <1>10, <1>13 DEF HeadersInv

(* The header that is taken off the list gives the last directive.         *)
LEMMA HeadersAccept ==
    ASSUME TypeOK, HeadersInv, AcceptDirective PROVE HeadersInv'
<1> DEFINE h == header_files[header_desc_it]
           n == Len(header_files)
           m == Len(active_include_headers)
           last == directives[h][include_directive]
<1>1. /\ pc = "try" /\ ~AtEnd /\ folder' = folder /\ header_files' = Erased
      /\ active_include_headers' = NewIncludeHeaders
  BY DEF AcceptDirective
<1>2. header_desc_it \in 1 .. n /\ h \in Header
  BY <1>1, NewIncludeHeadersType
<1>3. header_files \in Seq(Header) /\ n \in Nat
      /\ active_include_headers \in Seq(Directive) /\ m \in Nat
  BY LenProperties DEF TypeOK
<1>4. /\ header_files' \in Seq(Header) /\ Len(header_files') = n - 1
      /\ \A j \in 1 .. n - 1 :
            header_files'[j] = IF j < header_desc_it THEN header_files[j]
                                                    ELSE header_files[j + 1]
  BY <1>1, ErasedType
<1>5. \A i, j \in 1 .. n : header_files[i] = header_files[j] => i = j
  BY <1>3, ToSetElements DEF HeadersInv, EveryHeaderOnce, IsInjective
<1>6. last \in Directive /\ last \in ToSet(directives[h])
  <2>1. include_directive \in 1 .. Len(directives[h])
    BY <1>1, <1>2, DirectivesType DEF TypeOK
  <2>2. directives[h] \in Seq(Directive)
    BY <1>2, DirectivesType
  <2> QED
    BY <2>1, <2>2, ElementOfSeq, ToSetElements
<1>7. /\ DOMAIN active_include_headers = 1 .. m
      /\ DOMAIN active_include_headers' = 1 .. m + 1
      /\ active_include_headers'[m + 1] = last
      /\ \A i \in 1 .. m : active_include_headers'[i] = active_include_headers[i]
  <2> HIDE DEF last, h
  <2>1. active_include_headers' = Append(active_include_headers, last)
    BY <1>1 DEF NewIncludeHeaders, last, h
  <2> QED
    BY <1>3, <1>6, <2>1, AppendProperties
<1>8. ToSet(header_files') = ToSet(header_files) \ {h}
  <2>1. ASSUME NEW x \in ToSet(header_files') PROVE x \in ToSet(header_files) \ {h}
    <3>1. PICK j \in 1 .. n - 1 : header_files'[j] = x
      BY <1>4, <2>1, ToSetElements
    <3>2. PICK k \in 1 .. n : k # header_desc_it /\ header_files[k] = x
      <4>1. CASE j < header_desc_it
        BY <1>3, <1>4, <3>1, <4>1
      <4>2. CASE ~(j < header_desc_it)
        <5>1. j + 1 \in 1 .. n /\ j + 1 # header_desc_it
          BY <1>2, <1>3, <4>2
        <5> QED
          BY <1>4, <3>1, <4>2, <5>1
      <4> QED
        BY <4>1, <4>2
    <3> QED
      BY <1>2, <1>3, <1>5, <3>2, ToSetElements
  <2>2. ASSUME NEW x \in ToSet(header_files), x # h PROVE x \in ToSet(header_files')
    <3>1. PICK k \in 1 .. n : header_files[k] = x
      BY <1>3, <2>2, ToSetElements
    <3>2. k # header_desc_it
      BY <2>2, <3>1
    <3>3. CASE k < header_desc_it
      <4>1. k \in 1 .. n - 1 /\ header_files'[k] = x
        BY <1>2, <1>3, <1>4, <3>1, <3>3
      <4> QED
        BY <1>4, <4>1, ToSetElements
    <3>4. CASE ~(k < header_desc_it)
      <4>1. k - 1 \in 1 .. n - 1 /\ ~(k - 1 < header_desc_it) /\ (k - 1) + 1 = k
        BY <1>2, <1>3, <3>2, <3>4
      <4>2. header_files'[k - 1] = x
        BY <1>4, <3>1, <4>1
      <4> QED
        BY <1>4, <4>1, <4>2, ToSetElements
    <3> QED
      BY <3>3, <3>4
  <2> QED
    BY <2>1, <2>2
<1>9. h \in ToSet(header_files) /\ h \in Enumerated
  BY <1>2, <1>3, ToSetElements DEF HeadersInv
<1>10. Included' = Included \cup {h} /\ h \notin Included
  <2>1. Included = Enumerated \ ToSet(header_files)
    BY DEF Included
  <2>2. Included' = Enumerated \ ToSet(header_files')
    BY <1>1 DEF Included, Enumerated
  <2> HIDE DEF h
  <2> QED
    BY <1>8, <1>9, <2>1, <2>2
<1>11. IsInjective(header_files')
  <2>1. ASSUME NEW i \in 1 .. n - 1, NEW j \in 1 .. n - 1, header_files'[i] = header_files'[j]
        PROVE  i = j
    <3> DEFINE at(k) == IF k < header_desc_it THEN k ELSE k + 1
    <3>1. \A k \in 1 .. n - 1 : at(k) \in 1 .. n /\ header_files'[k] = header_files[at(k)]
      BY <1>2, <1>3, <1>4
    <3>2. at(i) = at(j)
      BY <1>5, <2>1, <3>1
    <3> QED
      BY <1>2, <1>3, <3>2
  <2>2. DOMAIN header_files' = 1 .. n - 1
    BY <1>4, ToSetElements
  <2> QED
    BY <2>1, <2>2 DEF IsInjective
<1>12. EveryHeaderOnce'
  <2>1. PICK given \in Bijection(Included, 1 .. m) :
            \A g \in Included : active_include_headers[given[g]] \in ToSet(directives[g])
    BY <1>7 DEF HeadersInv, EveryHeaderOnce
  <2>2. /\ given \in [Included -> 1 .. m]
        /\ \A f, g \in Included : given[f] = given[g] => f = g
        /\ \A i \in 1 .. m : \E g \in Included : given[g] = i
    BY <2>1 DEF Bijection, Injection, Surjection, IsInjective
  <2> HIDE DEF h, last
  <2> DEFINE given2 == [g \in Included \cup {h} |-> IF g = h THEN m + 1 ELSE given[g]]
  <2>3. given2 \in [Included' -> 1 .. m + 1]
    BY <1>3, <1>10, <2>2
  <2>4. \A f, g \in Included' : given2[f] = given2[g] => f = g
    BY <1>3, <1>10, <2>2
  <2>5. \A i \in 1 .. m + 1 : \E g \in Included' : given2[g] = i
    <3> SUFFICES ASSUME NEW i \in 1 .. m + 1 PROVE \E g \in Included' : given2[g] = i
      OBVIOUS
    <3>1. CASE i = m + 1
      BY <1>10, <3>1
    <3>2. CASE i # m + 1
      <4>1. i \in 1 .. m
        BY <1>3, <3>2
      <4>2. PICK g \in Included : given[g] = i
        BY <2>2, <4>1
      <4>3. g \in Included' /\ given2[g] = i
        BY <1>10, <4>2
      <4> QED
        BY <4>3
    <3> QED
      BY <3>1, <3>2
  <2>6. given2 \in Bijection(Included', DOMAIN active_include_headers')
    BY <1>7, <2>3, <2>4, <2>5 DEF Bijection, Injection, Surjection, IsInjective
  <2>7. ASSUME NEW g \in Included'
        PROVE  active_include_headers'[given2[g]] \in ToSet(directives[g])
    <3>1. CASE g = h
      <4>1. given2[g] = m + 1
        BY <3>1
      <4> QED
        BY <1>6, <1>7, <3>1, <4>1
    <3>2. CASE g # h
      <4>1. g \in Included /\ given2[g] = given[g] /\ given[g] \in 1 .. m
        BY <1>10, <2>2, <3>2
      <4> QED
        BY <1>7, <2>1, <4>1
    <3> QED
      BY <3>1, <3>2
  <2> HIDE DEF given2
  <2> QED
    BY <1>11, <2>6, <2>7 DEF EveryHeaderOnce
<1>13. ToSet(header_files') \subseteq Enumerated'
  BY <1>1, <1>8 DEF HeadersInv, Enumerated
<1> QED
  BY <1>12, <1>13 DEF HeadersInv

LEMMA HeadersNext == TypeOK /\ HeadersInv /\ [Next]_vars => HeadersInv'
<1> SUFFICES ASSUME TypeOK, HeadersInv, [Next]_vars PROVE HeadersInv'
  OBVIOUS
<1>1. CASE EnumerateIncludeFiles
  BY <1>1, HeadersEnumerate
<1>2. CASE AcceptDirective
  BY <1>2, HeadersAccept
<1>3. CASE ~EnumerateIncludeFiles /\ ~AcceptDirective
  <2>1. UNCHANGED <<folder, header_files, active_include_headers>>
    BY <1>3 DEF Next, EnumerationFails, CreateCompilerInstance, BeginPass, RejectDirective,
                EndPass, CreateVisitor, FinalCompilation, OpenHeaderFile,
                OpenImplementationFile, WriteFiles, vars, searchVars
  <2> QED
    BY <2>1 DEF HeadersInv, Enumerated, EveryHeaderOnce, Included
<1> QED
  BY <1>1, <1>2, <1>3

(* No header is lost, included twice, or taken off the list without giving *)
(* exactly one of its own directives to the library.                       *)
THEOREM HeadersOnce == Spec => []EveryHeaderOnce
<1>1. Init => HeadersInv
  <2> SUFFICES ASSUME Init PROVE HeadersInv
    OBVIOUS
  <2>1. header_files = <<>> /\ active_include_headers = <<>> /\ folder = 1
    BY DEF Init
  <2>2. DOMAIN <<>> = {} /\ ToSet(<<>>) = {}
    BY DEF ToSet
  <2>3. Included = {}
    BY <2>1, <2>2 DEF Included, Enumerated
  <2>4. <<>> \in Bijection({}, {})
    BY <2>2 DEF Bijection, Injection, Surjection, IsInjective
  <2> QED
    BY <2>1, <2>2, <2>3, <2>4 DEF HeadersInv, Enumerated, EveryHeaderOnce, IsInjective
<1>2. HeadersInv => EveryHeaderOnce
  BY DEF HeadersInv
<1> QED
  BY <1>1, <1>2, HeadersNext, TypeCorrect, PTL DEF Spec

-----------------------------------------------------------------------------
(* What is left to do.                                                     *)

LEMMA LenNat == TypeOK => /\ Len(header_files) \in Nat
                          /\ Len(active_include_headers) \in Nat
                          /\ Len(folders) \in Nat
  BY FoldersAssumption, LenProperties DEF TypeOK

(* The five numbers are natural, so that they cannot decrease for ever.    *)
LEMMA RemainingType ==
    ASSUME TypeOK
    PROVE  /\ StagesLeft \in Nat /\ ItemsLeft \in Nat /\ PassesDue \in Nat
           /\ HeadersAhead \in Nat /\ DirectivesAhead \in Nat
<1>1. StagesLeft \in Nat /\ PassesDue \in Nat
  BY DEF StagesLeft, PassesDue
<1>2. ItemsLeft \in Nat /\ HeadersAhead \in Nat
  BY LenNat DEF TypeOK, ItemsLeft, HeadersAhead
<1>3. DirectivesAhead \in Nat
  <2>1. CASE pc = "try" /\ ~AtEnd
    <3>1. /\ Len(directives[header_files[header_desc_it]]) \in Nat
          /\ include_directive \in Nat
          /\ include_directive <= Len(directives[header_files[header_desc_it]])
      BY <2>1, NewIncludeHeadersType, DirectivesType DEF TypeOK
    <3> QED
      BY <2>1, <3>1 DEF DirectivesAhead
  <2> QED
    BY <2>1 DEF DirectivesAhead
<1> QED
  BY <1>1, <1>2, <1>3

LEMMA RemainingBelow ==
    ASSUME \/ StagesLeft' < StagesLeft
           \/ StagesLeft' = StagesLeft /\ ItemsLeft' < ItemsLeft
           \/ StagesLeft' = StagesLeft /\ ItemsLeft' = ItemsLeft /\ PassesDue' < PassesDue
           \/ /\ StagesLeft' = StagesLeft /\ ItemsLeft' = ItemsLeft /\ PassesDue' = PassesDue
              /\ HeadersAhead' < HeadersAhead
           \/ /\ StagesLeft' = StagesLeft /\ ItemsLeft' = ItemsLeft /\ PassesDue' = PassesDue
              /\ HeadersAhead' = HeadersAhead /\ DirectivesAhead' < DirectivesAhead
    PROVE  Below(Remaining', Remaining)
<1>1. /\ Remaining[1] = StagesLeft /\ Remaining[2] = ItemsLeft /\ Remaining[3] = PassesDue
      /\ Remaining[4] = HeadersAhead /\ Remaining[5] = DirectivesAhead
  BY DEF Remaining
<1>2. /\ Remaining'[1] = StagesLeft' /\ Remaining'[2] = ItemsLeft' /\ Remaining'[3] = PassesDue'
      /\ Remaining'[4] = HeadersAhead' /\ Remaining'[5] = DirectivesAhead'
  BY DEF Remaining
<1>3. SUFFICES \E i \in 1 .. 5 : /\ Remaining'[i] < Remaining[i]
                                 /\ \A j \in 1 .. i - 1 : Remaining'[j] = Remaining[j]
  BY DEF Below
<1>4. CASE StagesLeft' < StagesLeft
  BY <1>1, <1>2, <1>4
<1>5. CASE StagesLeft' = StagesLeft /\ ItemsLeft' < ItemsLeft
  <2>1. \A j \in 1 .. 2 - 1 : Remaining'[j] = Remaining[j]
    BY <1>1, <1>2, <1>5
  <2> QED
    BY <1>1, <1>2, <1>5, <2>1
<1>6. CASE StagesLeft' = StagesLeft /\ ItemsLeft' = ItemsLeft /\ PassesDue' < PassesDue
  <2>1. \A j \in 1 .. 3 - 1 : Remaining'[j] = Remaining[j]
    BY <1>1, <1>2, <1>6
  <2> QED
    BY <1>1, <1>2, <1>6, <2>1
<1>7. CASE /\ StagesLeft' = StagesLeft /\ ItemsLeft' = ItemsLeft /\ PassesDue' = PassesDue
           /\ HeadersAhead' < HeadersAhead
  <2>1. \A j \in 1 .. 4 - 1 : Remaining'[j] = Remaining[j]
    BY <1>1, <1>2, <1>7
  <2> QED
    BY <1>1, <1>2, <1>7, <2>1
<1>8. CASE /\ StagesLeft' = StagesLeft /\ ItemsLeft' = ItemsLeft /\ PassesDue' = PassesDue
           /\ HeadersAhead' = HeadersAhead /\ DirectivesAhead' < DirectivesAhead
  <2>1. \A j \in 1 .. 5 - 1 : Remaining'[j] = Remaining[j]
    BY <1>1, <1>2, <1>8
  <2> QED
    BY <1>1, <1>2, <1>8, <2>1
<1> QED
  BY <1>4, <1>5, <1>6, <1>7, <1>8

(* A directive is refused: the next one of the header, or the next header. *)
LEMMA RejectAdvances ==
    ASSUME TypeOK, RejectDirective
    PROVE  Below(Remaining', Remaining)
<1>1. /\ pc = "try" /\ ~AtEnd /\ pc' = pc
      /\ header_files' = header_files
      /\ active_include_headers' = active_include_headers
      /\ previous_active_header_count' = previous_active_header_count
  BY DEF RejectDirective
<1>2. StagesLeft' = StagesLeft /\ ItemsLeft' = ItemsLeft /\ PassesDue' = PassesDue
  BY <1>1 DEF StagesLeft, ItemsLeft, PassesDue
<1>3. Len(header_files) \in Nat /\ header_desc_it \in Nat
  BY LenNat DEF TypeOK
<1>4. CASE LastDirective
  <2>1. header_desc_it' = header_desc_it + 1
    BY <1>4 DEF RejectDirective
  <2>2. HeadersAhead' < HeadersAhead
    BY <1>1, <1>3, <2>1 DEF HeadersAhead
  <2> QED
    BY <1>2, <2>2, RemainingBelow
<1>5. CASE ~LastDirective
  <2>1. header_desc_it' = header_desc_it /\ include_directive' = include_directive + 1
    BY <1>5 DEF RejectDirective
  <2>2. AtEnd' = AtEnd
    BY <1>1, <2>1 DEF AtEnd
  <2>3. /\ Len(directives[header_files[header_desc_it]]) \in Nat
        /\ include_directive \in Nat
    BY <1>1, NewIncludeHeadersType, DirectivesType DEF TypeOK
  <2>4. DirectivesAhead' < DirectivesAhead
    BY <1>1, <2>1, <2>2, <2>3 DEF DirectivesAhead
  <2>5. HeadersAhead' = HeadersAhead
    BY <1>1, <2>1 DEF HeadersAhead
  <2> QED
    BY <1>2, <2>4, <2>5, RemainingBelow
<1> QED
  BY <1>4, <1>5

(* The pass ends: when it included a header another one is due, which was  *)
(* due before as well.                                                     *)
LEMMA EndPassAdvances ==
    ASSUME TypeOK, EndPass
    PROVE  Below(Remaining', Remaining)
<1>1. /\ pc = "try" /\ header_files' = header_files
      /\ active_include_headers' = active_include_headers
      /\ previous_active_header_count' = previous_active_header_count
  BY DEF EndPass, searchVars
<1>2. CASE NoProgress
  <2>1. pc' = "visit"
    BY <1>2 DEF EndPass
  <2>2. StagesLeft' < StagesLeft
    BY <1>1, <2>1 DEF StagesLeft
  <2> QED
    BY <2>2, RemainingBelow
<1>3. CASE ~NoProgress
  <2>1. pc' = "pass"
    BY <1>3 DEF EndPass
  <2>2. PassesDue' = 1 /\ PassesDue = 1
    BY <1>3, <2>1 DEF PassesDue, NoProgress
  <2>3. StagesLeft' = StagesLeft /\ ItemsLeft' = ItemsLeft
    BY <1>1, <2>1 DEF StagesLeft, ItemsLeft
  <2>4. HeadersAhead' < HeadersAhead
    BY <1>1, <2>1, LenNat DEF HeadersAhead, TypeOK
  <2> QED
    BY <2>2, <2>3, <2>4, RemainingBelow
<1> QED
  BY <1>2, <1>3

LEMMA AdvancesNext == TypeOK /\ Next => Below(Remaining', Remaining)
<1> SUFFICES ASSUME TypeOK, Next
             PROVE  Below(Remaining', Remaining)
  OBVIOUS
<1>1. ASSUME EnumerateIncludeFiles PROVE Below(Remaining', Remaining)
  <2>1. pc' = pc /\ pc = "enumerate" /\ folder' = folder + 1
    BY <1>1 DEF EnumerateIncludeFiles
  <2>2. StagesLeft' = StagesLeft
    BY <2>1 DEF StagesLeft
  <2>3. ItemsLeft' < ItemsLeft
    BY <2>1, LenNat DEF ItemsLeft, TypeOK
  <2> QED
    BY <2>2, <2>3, RemainingBelow
<1>2. ASSUME BeginPass PROVE Below(Remaining', Remaining)
  <2>1. /\ pc = "pass" /\ pc' = "try" /\ header_files' = header_files
        /\ previous_active_header_count' = Len(active_include_headers)
        /\ active_include_headers' = active_include_headers
    BY <1>2 DEF BeginPass
  <2>2. StagesLeft' = StagesLeft /\ ItemsLeft' = ItemsLeft
    BY <2>1 DEF StagesLeft, ItemsLeft
  <2>3. PassesDue' < PassesDue
    BY <2>1 DEF PassesDue
  <2> QED
    BY <2>2, <2>3, RemainingBelow
<1>3. ASSUME AcceptDirective PROVE Below(Remaining', Remaining)
  <2>1. pc = "try" /\ pc' = pc /\ ~AtEnd /\ header_files' = Erased
    BY <1>3 DEF AcceptDirective
  <2>2. Len(Erased) = Len(header_files) - 1 /\ Len(header_files) \in Nat
    BY <2>1, ErasedType, LenNat
  <2>3. StagesLeft' = StagesLeft /\ ItemsLeft' < ItemsLeft
    BY <2>1, <2>2 DEF StagesLeft, ItemsLeft
  <2> QED
    BY <2>3, RemainingBelow
<1>4. ASSUME RejectDirective PROVE Below(Remaining', Remaining)
  BY <1>4, RejectAdvances
<1>5. ASSUME EndPass PROVE Below(Remaining', Remaining)
  BY <1>5, EndPassAdvances
<1>6. ASSUME \/ EnumerationFails \/ CreateCompilerInstance \/ CreateVisitor
             \/ FinalCompilation \/ OpenHeaderFile \/ OpenImplementationFile \/ WriteFiles
      PROVE  Below(Remaining', Remaining)
  <2>1. \/ pc = "enumerate" /\ pc' \in {"pass", "exit"}
        \/ pc = "visit" /\ pc' \in {"compile", "exit"}
        \/ pc = "compile" /\ pc' \in {"render", "exit"}
        \/ pc = "render" /\ pc' \in {"open", "exit"}
        \/ pc = "open" /\ pc' \in {"write", "exit"}
        \/ pc = "write" /\ pc' = "exit"
    BY <1>6, Zenon DEF EnumerationFails, CreateCompilerInstance, CreateVisitor,
       FinalCompilation, OpenHeaderFile, OpenImplementationFile, WriteFiles, Exit
  <2>2. StagesLeft' < StagesLeft
    BY <2>1 DEF StagesLeft
  <2> QED
    BY <2>2, RemainingBelow
<1> QED
  BY <1>1, <1>2, <1>3, <1>4, <1>5, <1>6 DEF Next

(* Every step of the command leaves less to do than there was, in a        *)
(* measure of five natural numbers: it cannot run for ever, whatever the   *)
(* compiler answers and whatever runs out of memory.                       *)
THEOREM StepsAdvance ==
    Spec => /\ [](Remaining \in [1 .. 5 -> Nat])
            /\ EveryStepAdvances
<1>1. TypeOK => Remaining \in [1 .. 5 -> Nat]
  BY RemainingType DEF Remaining
<1>2. TypeOK /\ [Next]_vars => [Below(Remaining', Remaining)]_vars
  BY AdvancesNext
<1> QED
  BY <1>1, <1>2, TypeCorrect, PTL DEF Spec, EveryStepAdvances
==============================================================================
