---------------------- MODULE GenerateWithVisitorProofs ----------------------
(***************************************************************************)
(* What the theorems on the generate command and those on the visitor say  *)
(* together of the library that is written, for all headers, compilers and *)
(* translation units.                                                      *)
(***************************************************************************)
EXTENDS GenerateWithVisitor, SequenceTheorems, FiniteSetTheorems, TLAPS

(* The two components with their theorems.                                 *)
GP == INSTANCE GenerateCommandProofs WITH MangleErrors <- Unmanglable # {}
VP == INSTANCE ASTVisitorProofs

-----------------------------------------------------------------------------
(* The operators of the two instances of each component are the same.      *)
LEMMA SameSearchOperators ==
    /\ \A S : Generate!SetToSeqs(S) = GP!SetToSeqs(S)
    /\ \A s, i : Generate!RemoveAt(s, i) = GP!RemoveAt(s, i)
<1>1. \A S : Generate!Cardinality(S) = GP!Cardinality(S)
  BY DEF Generate!Cardinality, GP!Cardinality, Generate!IsFiniteSet, GP!IsFiniteSet
<1>2. \A f : Generate!IsInjective(f) <=> GP!IsInjective(f)
  BY DEF Generate!IsInjective, GP!IsInjective
<1>3. \A S : Generate!SetToSeqs(S) = GP!SetToSeqs(S)
  BY <1>1, <1>2 DEF Generate!SetToSeqs, GP!SetToSeqs
<1>4. \A s, i : Generate!RemoveAt(s, i) = GP!RemoveAt(s, i)
  BY DEF Generate!RemoveAt, GP!RemoveAt
<1> QED
  BY <1>3, <1>4

(* What the clang front end is asked about a translation unit.             *)
LEMMA SameUnitOperators ==
    ASSUME NEW tu
    PROVE  /\ \A f : Visitor!Dependencies(tu, f) = VP!Dependencies(tu, f)
           /\ \A f : Visitor!DeclInformation(tu, f) = VP!DeclInformation(tu, f)
           /\ \A c : Visitor!ClassInformation(tu, c) = VP!ClassInformation(tu, c)
           /\ \A t : Visitor!ChildTypes(tu, t) = VP!ChildTypes(tu, t)
           /\ \A t : Visitor!IsFunction(tu, t) <=> VP!IsFunction(tu, t)
<1>1. \A c : Visitor!ClassList(tu, c) = VP!ClassList(tu, c)
  BY DEF Visitor!ClassList, VP!ClassList
<1>2. \A c : Visitor!ClassDependencies(tu, c) = VP!ClassDependencies(tu, c)
  BY <1>1 DEF Visitor!ClassDependencies, VP!ClassDependencies,
       Visitor!MemberTypes, VP!MemberTypes, Visitor!ParameterTypes, VP!ParameterTypes,
       Visitor!ClassMethods, VP!ClassMethods
<1>3. \A c : Visitor!ClassInformation(tu, c) = VP!ClassInformation(tu, c)
  BY <1>1, <1>2 DEF Visitor!ClassInformation, VP!ClassInformation,
       Visitor!ClassTypes, VP!ClassTypes
<1>4. \A f : Visitor!Dependencies(tu, f) = VP!Dependencies(tu, f)
  BY <1>2 DEF Visitor!Dependencies, VP!Dependencies
<1>5. \A f : Visitor!DeclInformation(tu, f) = VP!DeclInformation(tu, f)
  BY <1>3 DEF Visitor!DeclInformation, VP!DeclInformation
<1>6. \A t : Visitor!ChildTypes(tu, t) = VP!ChildTypes(tu, t)
  BY <1>2 DEF Visitor!ChildTypes, VP!ChildTypes
<1>7. \A t : Visitor!IsFunction(tu, t) <=> VP!IsFunction(tu, t)
  BY DEF Visitor!IsFunction, VP!IsFunction
<1> QED
  BY <1>3, <1>4, <1>5, <1>6, <1>7

(* The rules of the visitor's theorems are those the library is held to.   *)
LEMMA SameRules ==
    ASSUME NEW tu
    PROVE  /\ \A f : VP!Dependencies(tu, f) = Dependencies(tu, f)
           /\ \A t : VP!ChildTypes(tu, t) = ChildTypes(tu, t)
           /\ \A t : VP!IsFunction(tu, t) <=> IsFunction(tu, t)
           /\ VP!Bannable(tu) = Bannable(tu)
           /\ \A n : VP!Declared(tu, n) = Declared(tu, n)
           /\ \A n : VP!Verdict(tu, n) = Verdict(tu, n)
<1>1. \A c : VP!ClassList(tu, c) = ClassList(tu, c)
  BY DEF ClassList, VP!ClassList
<1>2. \A c : VP!ClassDependencies(tu, c) = ClassDependencies(tu, c)
  BY <1>1 DEF ClassDependencies, VP!ClassDependencies, MemberTypes, VP!MemberTypes,
       ParameterTypes, VP!ParameterTypes, ClassMethods, VP!ClassMethods
<1>3. \A f : VP!Dependencies(tu, f) = Dependencies(tu, f)
  BY <1>2 DEF Dependencies, VP!Dependencies
<1>4. \A t : VP!ChildTypes(tu, t) = ChildTypes(tu, t)
  BY <1>2 DEF ChildTypes, VP!ChildTypes
<1>5. \A t : VP!IsFunction(tu, t) <=> IsFunction(tu, t)
  BY DEF IsFunction, VP!IsFunction
<1>6. VP!Bannable(tu) = Bannable(tu)
  BY <1>4, <1>5 DEF Bannable, VP!Bannable, ClosedUpward, VP!ClosedUpward
<1>7. \A f : VP!FunctionVerdict(tu, f) = FunctionVerdict(tu, f)
  BY <1>3, <1>6 DEF FunctionVerdict, VP!FunctionVerdict
<1>8. \A n : VP!Declared(tu, n) = Declared(tu, n)
  BY DEF Declared, VP!Declared
<1>9. ASSUME NEW n PROVE VP!Verdict(tu, n) = Verdict(tu, n)
  <2>1. VP!Declared(tu, n) = Declared(tu, n)
    BY <1>8
  <2> QED
    BY <1>7, <2>1 DEF Verdict, VP!Verdict
<1> QED
  BY <1>3, <1>4, <1>5, <1>6, <1>8, <1>9

-----------------------------------------------------------------------------
LEMMA NextOfGenerate == Generate!Next => GP!Next
<1> USE DEF Generate!Exit, GP!Exit, Generate!searchVars, GP!searchVars,
            Generate!oracleVars, GP!oracleVars, Generate!outputVars, GP!outputVars
<1>1. Generate!EnumerateIncludeFiles => GP!EnumerateIncludeFiles
  BY SameSearchOperators DEF Generate!EnumerateIncludeFiles, GP!EnumerateIncludeFiles
<1>2. Generate!EnumerationFails => GP!EnumerationFails
  BY DEF Generate!EnumerationFails, GP!EnumerationFails
<1>3. Generate!CreateCompilerInstance => GP!CreateCompilerInstance
  BY DEF Generate!CreateCompilerInstance, GP!CreateCompilerInstance
<1>4. Generate!BeginPass => GP!BeginPass
  BY DEF Generate!BeginPass, GP!BeginPass
<1>5. Generate!AtEnd <=> GP!AtEnd
  BY DEF Generate!AtEnd, GP!AtEnd
<1>6. Generate!NewIncludeHeaders = GP!NewIncludeHeaders
  BY DEF Generate!NewIncludeHeaders, GP!NewIncludeHeaders
<1>7. Generate!AcceptDirective => GP!AcceptDirective
  <2>1. Generate!ProcessAST(Generate!NewIncludeHeaders, TRUE)
           => GP!ProcessAST(GP!NewIncludeHeaders, TRUE)
    BY <1>6 DEF Generate!ProcessAST, GP!ProcessAST
  <2>2. Generate!Erased = GP!Erased
    BY SameSearchOperators DEF Generate!Erased, GP!Erased
  <2> QED
    BY <1>5, <1>6, <2>1, <2>2 DEF Generate!AcceptDirective, GP!AcceptDirective
<1>8. Generate!RejectDirective => GP!RejectDirective
  <2>1. Generate!ProcessAST(Generate!NewIncludeHeaders, FALSE)
           => GP!ProcessAST(GP!NewIncludeHeaders, FALSE)
    BY <1>6 DEF Generate!ProcessAST, GP!ProcessAST
  <2>2. Generate!LastDirective <=> GP!LastDirective
    BY DEF Generate!LastDirective, GP!LastDirective
  <2> QED
    BY <1>5, <2>1, <2>2 DEF Generate!RejectDirective, GP!RejectDirective
<1>9. Generate!EndPass => GP!EndPass
  <2>1. Generate!NoProgress <=> GP!NoProgress
    BY DEF Generate!NoProgress, GP!NoProgress
  <2> QED
    BY <1>5, <2>1 DEF Generate!EndPass, GP!EndPass
<1>10. Generate!CreateVisitor => GP!CreateVisitor
  BY DEF Generate!CreateVisitor, GP!CreateVisitor
<1>11. Generate!FinalCompilation => GP!FinalCompilation
  BY DEF Generate!FinalCompilation, GP!FinalCompilation, Generate!FinalList, GP!FinalList,
         Generate!ProcessAST, GP!ProcessAST
<1>12. Generate!OpenHeaderFile => GP!OpenHeaderFile
  BY DEF Generate!OpenHeaderFile, GP!OpenHeaderFile
<1>13. Generate!OpenImplementationFile => GP!OpenImplementationFile
  BY DEF Generate!OpenImplementationFile, GP!OpenImplementationFile
<1>14. Generate!WriteFiles => GP!WriteFiles
  BY DEF Generate!WriteFiles, GP!WriteFiles
<1> QED
  BY <1>1, <1>2, <1>3, <1>4, <1>7, <1>8, <1>9, <1>10, <1>11, <1>12, <1>13, <1>14
     DEF Generate!Next, GP!Next

(* A step of this specification is a step of the generate command, or      *)
(* leaves it alone; the last compilation is one step of it.                *)
LEMMA StepOfGenerate == [Next]_vars => [GP!Next]_(GP!vars)
<1>1. UNCHANGED generateVars => UNCHANGED GP!vars
  BY DEF generateVars, GP!vars, GP!searchVars, GP!oracleVars, GP!outputVars
<1>2. Next => Generate!Next \/ UNCHANGED generateVars
  BY DEF Next, OtherStep, HandleTranslationUnit, VisitorStep, FinalCompilation, WriteFiles,
         Generate!Next
<1> QED
  BY <1>1, <1>2, NextOfGenerate DEF vars

(* The safety part of ImplementsGenerateCommand: the visitor, in the last  *)
(* compilation that it is opened up into, touches nothing of the handler.  *)
(* All that it changes is how the compilation ends, in a way the handler's *)
(* own specification has: the program stops, or a list that parses is      *)
(* refused for a name, and that only if there is a name that cannot be     *)
(* mangled.                                                                *)
THEOREM GenerateImplemented == Spec => Generate!Init /\ [][Generate!Next]_(Generate!vars)
<1>1. UNCHANGED generateVars => UNCHANGED Generate!vars
  BY DEF generateVars, Generate!vars, Generate!searchVars, Generate!oracleVars,
         Generate!outputVars
<1>2. Next => Generate!Next \/ UNCHANGED generateVars
  BY DEF Next, OtherStep, HandleTranslationUnit, VisitorStep, FinalCompilation, WriteFiles,
         Generate!Next
<1>3. [Next]_vars => [Generate!Next]_(Generate!vars)
  BY <1>1, <1>2 DEF vars
<1> QED
  BY <1>3, PTL DEF Spec, Init

LEMMA FiniteFolders == \A i \in 1 .. Len(folders) : GP!IsFiniteSet(folders[i])
<1> SUFFICES ASSUME NEW i \in 1 .. Len(folders) PROVE GP!IsFiniteSet(folders[i])
  OBVIOUS
<1>1. folders[i] \in SUBSET Header
  BY GenerateAssumption, ElementOfSeq
<1>2. IsFiniteSet(folders[i])
  BY <1>1, GenerateAssumption, FS_Subset
<1> QED
  BY <1>2 DEF IsFiniteSet, GP!IsFiniteSet

(* What was proved of the generate command holds here.                     *)
GenerateInv == GP!TypeOK /\ GP!ActiveCompiles /\ GP!EveryHeaderOnce

LEMMA GenerateInvAlways == Spec => []GenerateInv
<1>1. Init => GP!Init
  BY DEF Init, Generate!Init, GP!Init
<1>2. Spec => GP!Spec
  BY <1>1, StepOfGenerate, PTL DEF Spec, GP!Spec
<1>3. GP!Spec => []GP!TypeOK
  BY GP!TypeCorrect, GenerateAssumption, FiniteFolders
<1>4. GP!Spec => []GP!ActiveCompiles
  BY GP!ActiveCompilesAlways, GenerateAssumption, FiniteFolders
<1>5. GP!Spec => []GP!EveryHeaderOnce
  BY GP!HeadersOnce, GenerateAssumption, FiniteFolders
<1> QED
  BY <1>2, <1>3, <1>4, <1>5, PTL DEF GenerateInv

(* Each header of the list is another one.                                 *)
LEMMA ListLength ==
    ASSUME GenerateInv
    PROVE  /\ Len(active_include_headers) = Cardinality(GP!Included)
           /\ GP!Included \subseteq Header /\ IsFiniteSet(GP!Included)
           /\ active_include_headers \in Seq(Directive)
           /\ Len(active_include_headers) \in Nat
<1> DEFINE n == Len(active_include_headers)
<1>1. active_include_headers \in Seq(Directive)
  BY DEF GenerateInv, GP!TypeOK
<1>2. n \in Nat /\ active_include_headers \in [1 .. n -> Directive]
  BY <1>1, LenProperties
<1>3. GP!Included \subseteq Header
  <2>1. Len(folders) \in Nat /\ folder \in 1 .. Len(folders) + 1
    BY GenerateAssumption, LenProperties DEF GenerateInv, GP!TypeOK
  <2>2. \A i \in 1 .. folder - 1 : folders[i] \in SUBSET Header
    BY <2>1, GenerateAssumption, ElementOfSeq
  <2> QED
    BY <2>2 DEF GP!Included, GP!Enumerated
<1>4. ExistsBijection(GP!Included, 1 .. n)
  <2>1. PICK given : given \in GP!Bijection(GP!Included, DOMAIN active_include_headers)
    BY DEF GenerateInv, GP!EveryHeaderOnce
  <2>2. given \in Bijection(GP!Included, 1 .. n)
    BY <1>2, <2>1 DEF GP!Bijection, GP!Injection, GP!Surjection, GP!IsInjective,
         Bijection, Injection, Surjection, IsInjective
  <2> QED
    BY <2>2 DEF ExistsBijection
<1>5. /\ IsFiniteSet(GP!Included) /\ Cardinality(GP!Included) <= Cardinality(Header)
      /\ Cardinality(Header) \in Nat
  BY <1>3, GenerateAssumption, FS_Subset, FS_CardinalityType
<1>6. Cardinality(1 .. n) = Cardinality(GP!Included)
  BY <1>4, <1>5, FS_Bijection
<1>7. Cardinality(1 .. n) = n
  <2>1. 1 \in Int /\ n \in Int
    BY <1>2
  <2>2. Cardinality(1 .. n) = IF 1 > n THEN 0 ELSE n - 1 + 1
    BY <2>1, FS_Interval
  <2> QED
    BY <1>2, <2>2
<1> QED
  BY <1>1, <1>2, <1>3, <1>5, <1>6, <1>7

LEMMA InList ==
    ASSUME NEW list \in Seq(Directive), Len(list) <= Cardinality(Header)
    PROVE  list \in List
<1>1. /\ Len(list) \in Nat /\ list \in [1 .. Len(list) -> Directive]
      /\ Cardinality(Header) \in Nat
  BY LenProperties, GenerateAssumption, FS_CardinalityType
<1>2. Len(list) \in 0 .. Cardinality(Header)
  BY <1>1
<1> QED
  BY <1>1, <1>2 DEF List, BoundedSeq, SeqOf

(* The visitor is only given lists that were built from different headers. *)
LEMMA ActiveInList == ASSUME GenerateInv PROVE active_include_headers \in List
<1>1. Cardinality(GP!Included) <= Cardinality(Header)
  BY ListLength, GenerateAssumption, FS_Subset
<1> QED
  BY <1>1, ListLength, InList

-----------------------------------------------------------------------------
(* It is a step of the visitor as well, or leaves it alone.                *)
LEMMA InitOfVisitor == Visitor!Init => VP!Init
BY DEF Visitor!Init, VP!Init, Visitor!NoFunctions, VP!NoFunctions

LEMMA InitializeOfVisitor ==
    ASSUME NEW tu, Visitor!Initialize(tu) PROVE VP!Initialize(tu)
BY DEF Visitor!Initialize, VP!Initialize, Visitor!ClearTree, VP!ClearTree,
   Visitor!ClearResults, VP!ClearResults, Visitor!NoFunctions, VP!NoFunctions,
   Visitor!banVars, VP!banVars, Visitor!causeVars, VP!causeVars

LEMMA StepOfVisitor == Visitor!Step => VP!Step
<1> USE DEF Visitor!treeVars, VP!treeVars, Visitor!visitVars, VP!visitVars,
            Visitor!banVars, VP!banVars, Visitor!causeVars, VP!causeVars,
            Visitor!resultVars, VP!resultVars, Visitor!filterVars, VP!filterVars
<1>1. ASSUME NEW f, Visitor!VisitFunctionDecl(f) PROVE VP!VisitFunctionDecl(f)
  BY <1>1, SameUnitOperators DEF Visitor!VisitFunctionDecl, VP!VisitFunctionDecl
<1>2. ASSUME NEW t, Visitor!EnumerateRoot(t) PROVE VP!EnumerateRoot(t)
  BY <1>2 DEF Visitor!EnumerateRoot, VP!EnumerateRoot
<1>3. ASSUME NEW t, Visitor!SkipKnownType(t) PROVE VP!SkipKnownType(t)
  BY <1>3 DEF Visitor!SkipKnownType, VP!SkipKnownType
<1>4. \A t : Visitor!ExpandedClass(t) = VP!ExpandedClass(t)
  BY DEF Visitor!ExpandedClass, VP!ExpandedClass
<1>5. ASSUME NEW t, Visitor!ExpandType(t) PROVE VP!ExpandType(t)
  <2>1. /\ Visitor!NodesWith(t) = VP!NodesWith(t)
        /\ \A found : Visitor!ParentsWith(t, found) = VP!ParentsWith(t, found)
        /\ \A found : Visitor!NewTypes(t, found) = VP!NewTypes(t, found)
    BY DEF Visitor!NodesWith, VP!NodesWith, Visitor!ParentsWith, VP!ParentsWith,
         Visitor!NewTypes, VP!NewTypes
  <2>2. /\ Visitor!ChildTypes(ast_context, t) = VP!ChildTypes(ast_context, t)
        /\ Visitor!ExpandedClass(t) = VP!ExpandedClass(t)
        /\ Visitor!ClassInformation(ast_context, VP!ExpandedClass(t))
              = VP!ClassInformation(ast_context, VP!ExpandedClass(t))
    BY <1>4, SameUnitOperators
  <2>3. LET found == VP!ChildTypes(ast_context, t)
        IN  /\ children' = [children EXCEPT ![t] = @ \cup found]
            /\ parents' = VP!ParentsWith(t, found)
            /\ type_dependency_tree' = VP!NodesWith(t) \cup found
            /\ queue' = (queue \ {t}) \cup VP!NewTypes(t, found)
    BY <1>5, <2>1, <2>2 DEF Visitor!ExpandType
  <2>4. /\ phase = "enumerating" /\ t \in queue /\ t \notin enumerated_type_list
        /\ VP!ExpandedClass(t) \notin ast_context.dependent
        /\ enumerated_type_list' = enumerated_type_list \cup {t}
    BY <1>5, <2>2 DEF Visitor!ExpandType
  <2>5. type_info_map' =
            IF VP!ExpandedClass(t) = NoClass THEN type_info_map
            ELSE type_info_map \cup VP!ClassInformation(ast_context, VP!ExpandedClass(t))
    BY <1>5, <2>2 DEF Visitor!ExpandType
  <2>6. UNCHANGED <<phase, ast_context, decl, function_map, unvisited, roots, VP!banVars,
                    VP!filterVars>>
    BY <1>5 DEF Visitor!ExpandType
  <2> QED
    BY <2>3, <2>4, <2>5, <2>6, Zenon DEF VP!ExpandType
<1>6. Visitor!SaveFunction => VP!SaveFunction
  BY SameUnitOperators DEF Visitor!SaveFunction, VP!SaveFunction
<1>7. Visitor!CollectClassesFails => VP!CollectClassesFails
  BY <1>4 DEF Visitor!CollectClassesFails, VP!CollectClassesFails
<1>8. Visitor!BeginFinalize => VP!BeginFinalize
  BY DEF Visitor!BeginFinalize, VP!BeginFinalize
<1>9. ASSUME NEW t, Visitor!SkipBlacklisted(t) PROVE VP!SkipBlacklisted(t)
  BY <1>9 DEF Visitor!SkipBlacklisted, VP!SkipBlacklisted
<1>10. ASSUME NEW t, Visitor!CheckType(t) PROVE VP!CheckType(t)
  <2>1. Visitor!BannedChildren(t) = VP!BannedChildren(t)
    BY SameUnitOperators DEF Visitor!BannedChildren, VP!BannedChildren
  <2> QED
    BY <1>10, <2>1, SameUnitOperators DEF Visitor!CheckType, VP!CheckType
<1>11. ASSUME NEW t, Visitor!Propagate(t) PROVE VP!Propagate(t)
  BY <1>11 DEF Visitor!Propagate, VP!Propagate, Visitor!Upward, VP!Upward
<1>12. \A f, reason, data : Visitor!Blacklisted(f, reason, data) = VP!Blacklisted(f, reason, data)
  BY DEF Visitor!Blacklisted, VP!Blacklisted
<1>13. Visitor!RemoveDuplicates => VP!RemoveDuplicates
  <2>1. \A n : Visitor!Named(n) = VP!Named(n)
    BY DEF Visitor!Named, VP!Named
  <2>2. Visitor!Clashing = VP!Clashing
    BY <2>1 DEF Visitor!Clashing, VP!Clashing
  <2> SUFFICES ASSUME Visitor!RemoveDuplicates PROVE VP!RemoveDuplicates
    OBVIOUS
  <2>3. PICK first \in [VP!Clashing -> Function] :
           /\ \A n \in VP!Clashing : first[n] \in Visitor!Named(n)
           /\ blacklisted_function_list' =
                 {Visitor!Blacklisted(first[n], "DuplicateName",
                                      Visitor!Named(n) \ {first[n]}) : n \in VP!Clashing}
    BY <2>2, Zenon DEF Visitor!RemoveDuplicates
  <2>4. /\ \A n \in VP!Clashing : first[n] \in VP!Named(n)
        /\ blacklisted_function_list' =
              {VP!Blacklisted(first[n], "DuplicateName", VP!Named(n) \ {first[n]}) :
                  n \in VP!Clashing}
    BY <1>12, <2>1, <2>3
  <2>5. /\ phase = "blacklisting" /\ unchecked = {} /\ propagation_queue = {}
        /\ function_map' =
              [f \in {f \in DOMAIN function_map : ast_context.mangled[f] \notin VP!Clashing} |->
                  function_map[f]]
        /\ unfiltered' = {f \in DOMAIN function_map : ast_context.mangled[f] \notin VP!Clashing}
        /\ phase' = "filtering"
        /\ UNCHANGED <<ast_context, decl, VP!treeVars, VP!visitVars, VP!banVars,
                       VP!causeVars, whitelisted_function_list>>
    BY <2>2, Zenon DEF Visitor!RemoveDuplicates
  <2> QED
    BY <2>4, <2>5, Zenon DEF VP!RemoveDuplicates
<1>14. \A f : Visitor!BadDependencies(f) = VP!BadDependencies(f)
  BY DEF Visitor!BadDependencies, VP!BadDependencies
<1>15. ASSUME NEW f, Visitor!JudgeFunction(f) PROVE VP!JudgeFunction(f)
  BY <1>12, <1>14, <1>15 DEF Visitor!JudgeFunction, VP!JudgeFunction
<1>16. ASSUME NEW f, Visitor!RejectFunction(f) PROVE VP!RejectFunction(f)
  BY <1>14, <1>16 DEF Visitor!RejectFunction, VP!RejectFunction
<1>17. Visitor!DescendBadTypes => VP!DescendBadTypes
  BY DEF Visitor!DescendBadTypes, VP!DescendBadTypes, Visitor!Related, VP!Related
<1>18. Visitor!ReportBadTypes => VP!ReportBadTypes
  BY <1>12 DEF Visitor!ReportBadTypes, VP!ReportBadTypes, Visitor!CauseEntry, VP!CauseEntry
<1>19. Visitor!EndFinalize => VP!EndFinalize
  BY DEF Visitor!EndFinalize, VP!EndFinalize
<1>20. Visitor!EnumerationStep => VP!EnumerationStep
  BY <1>1, <1>2, <1>3, <1>5, <1>6, <1>7 DEF Visitor!EnumerationStep, VP!EnumerationStep
<1>21. Visitor!FinalizeStep => VP!FinalizeStep
  BY <1>8, <1>9, <1>10, <1>11, <1>13, <1>15, <1>16, <1>17, <1>18, <1>19
     DEF Visitor!FinalizeStep, VP!FinalizeStep
<1> QED
  BY <1>20, <1>21 DEF Visitor!Step, VP!Step

-----------------------------------------------------------------------------
(* The visitor is given one of the translation units there are.            *)
LEMMA StepOfSpec == GenerateInv /\ [Next]_vars => [VP!Next]_(VP!vars)
<1> SUFFICES ASSUME GenerateInv, [Next]_vars PROVE [VP!Next]_(VP!vars)
  OBVIOUS
<1>1. CASE HandleTranslationUnit
  <2>1. ast[active_include_headers] \in ASTs
    BY ActiveInList, AstAssumption
  <2>2. VP!Initialize(ast[active_include_headers])
    BY <1>1, InitializeOfVisitor DEF HandleTranslationUnit
  <2> QED
    BY <2>1, <2>2 DEF VP!Next
<1>2. CASE VisitorStep
  BY <1>2, StepOfVisitor DEF VisitorStep, VP!Next
<1>3. UNCHANGED visitorVars => UNCHANGED VP!vars
  BY DEF visitorVars, VP!vars, VP!treeVars, VP!visitVars, VP!banVars, VP!causeVars,
         VP!resultVars, VP!filterVars
<1>4. CASE OtherStep \/ FinalCompilation \/ WriteFiles \/ UNCHANGED vars
  BY <1>3, <1>4 DEF OtherStep, FinalCompilation, WriteFiles, vars
<1> QED
  BY <1>1, <1>2, <1>4 DEF Next

LEMMA SpecOfVisitor == Spec => VP!Spec
<1>1. Init => VP!Init
  BY InitOfVisitor DEF Init
<1> QED
  BY <1>1, StepOfSpec, GenerateInvAlways, PTL DEF Spec, VP!Spec

LEMMA SameUnits == VP!TranslationUnits = TranslationUnits
BY DEF VP!TranslationUnits, TranslationUnits, VP!Kind, Kind

(* What was proved of the visitor holds here.                              *)
VisitorInv == VP!TypeOK /\ VP!NamesInv /\ VP!VerdictsBounded

LEMMA VisitorInvAlways == Spec => []VisitorInv
<1>1. VP!TranslationUnits = TranslationUnits
  BY SameUnits
<1>2. VP!Spec => []VP!VerdictsBounded
  BY <1>1, VP!VerdictsBoundedAlways, ASTsAssumption, VisitorAssumption
<1>3. /\ VP!Init => VP!TypeOK
      /\ VP!TypeOK /\ [VP!Next]_(VP!vars) => VP!TypeOK'
  BY <1>1, VP!TypeInit, VP!TypeStep, ASTsAssumption, VisitorAssumption
<1>4. /\ VP!Init => VP!TreeConsistent
      /\ VP!TypeOK /\ VP!TreeConsistent /\ [VP!Next]_(VP!vars) => VP!TreeConsistent'
  BY <1>1, VP!TreeInit, VP!TreeStep, ASTsAssumption, VisitorAssumption
<1>5. /\ VP!Init => VP!EnumerationInv
      /\ VP!TypeOK /\ VP!TreeConsistent /\ VP!EnumerationInv /\ [VP!Next]_(VP!vars)
            => VP!EnumerationInv'
  BY <1>1, VP!EnumerationInit, VP!EnumerationStepInv, ASTsAssumption, VisitorAssumption
<1>6. /\ VP!Init => VP!NamesInv
      /\ VP!TypeOK /\ VP!EnumerationInv /\ VP!NamesInv /\ [VP!Next]_(VP!vars) => VP!NamesInv'
  BY <1>1, VP!NamesInit, VP!NamesStep, ASTsAssumption, VisitorAssumption
<1> QED
  BY SpecOfVisitor, <1>2, <1>3, <1>4, <1>5, <1>6, PTL DEF VisitorInv, VP!Spec

LEMMA VerdictsAlways == (TRUE \notin StaleFront) => (Spec => []VP!VerdictsSound)
<1> SUFFICES ASSUME TRUE \notin StaleFront PROVE Spec => []VP!VerdictsSound
  OBVIOUS
<1>1. VP!Spec => []VP!VerdictsSound
  BY SameUnits, VP!VerdictsCorrect, ASTsAssumption, VisitorAssumption
<1> QED
  BY <1>1, SpecOfVisitor

-----------------------------------------------------------------------------
(* The library.                                                            *)

(***************************************************************************)
(* The two components in step: the visitor is not there during the search, *)
(* it works on what the list parses to, it is done when the files are      *)
(* opened, and nothing follows the library.                                *)
(***************************************************************************)
CompositionInv ==
    /\ pc \in {"enumerate", "pass", "try", "visit"} => phase = "created"
    /\ phase # "created" => ast_context = ast[active_include_headers]
    /\ pc \in {"render", "open", "write"} =>
          /\ phase = "finalized" /\ active_include_headers \in compiles
          /\ ~CannotMangle(ast_context)
    /\ library # NoLibrary => pc = "exit"

(* A step of the visitor finds it started, and stays with its unit.        *)
LEMMA VisitorKeepsUnit ==
    ASSUME VP!Step
    PROVE  phase \notin {"created", "finalized"} /\ phase' # "created" /\ ast_context' = ast_context
<1>1. CASE VP!EnumerationStep
  BY <1>1 DEF VP!EnumerationStep, VP!VisitFunctionDecl, VP!EnumerateRoot, VP!SkipKnownType,
       VP!ExpandType, VP!SaveFunction, VP!CollectClassesFails
<1>2. CASE VP!FinalizeStep
  BY <1>2 DEF VP!FinalizeStep, VP!BeginFinalize, VP!SkipBlacklisted, VP!CheckType,
       VP!Propagate, VP!RemoveDuplicates, VP!JudgeFunction, VP!RejectFunction,
       VP!DescendBadTypes, VP!ReportBadTypes, VP!EndFinalize
<1> QED
  BY <1>1, <1>2 DEF VP!Step

(* The results of a visitor that is done are the verdicts of the rules.    *)
LEMMA ResultsExact ==
    ASSUME VisitorInv, VP!VerdictsSound, phase = "finalized"
    PROVE  LET blacklisted == {<<e.mangled_name, e.reason>> : e \in blacklisted_function_list}
           IN  /\ whitelisted_function_list \cap {v[1] : v \in blacklisted} = {}
               /\ {<<n, "Whitelisted">> : n \in whitelisted_function_list} \cup blacklisted
                     = Verdicts(ast_context)
<1> DEFINE names == {ast_context.mangled[f] : f \in ast_context.decls}
           blacklisted == {<<e.mangled_name, e.reason>> : e \in blacklisted_function_list}
<1>1. unfiltered = {} /\ decl = NoFunction
  BY DEF VisitorInv, VP!TypeOK, VP!NamesInv
<1>2. VP!PendingNames = {}
  BY <1>1 DEF VP!PendingNames
<1>3. /\ VP!BlacklistedNames \cup whitelisted_function_list = names
      /\ VP!BlacklistedNames \cap whitelisted_function_list = {}
  BY <1>2 DEF VisitorInv, VP!NamesInv, VP!NamesAccounted
<1>4. blacklisted = {<<n, Verdict(ast_context, n)>> : n \in VP!BlacklistedNames}
  <2>1. \A e \in blacklisted_function_list : e.reason = Verdict(ast_context, e.mangled_name)
    BY SameRules DEF VP!VerdictsSound
  <2> QED
    BY <2>1 DEF VP!BlacklistedNames
<1>5. {<<n, "Whitelisted">> : n \in whitelisted_function_list} =
          {<<n, Verdict(ast_context, n)>> : n \in whitelisted_function_list}
  BY SameRules DEF VP!VerdictsSound
<1>6. Verdicts(ast_context) = {<<n, Verdict(ast_context, n)>> : n \in names}
  BY DEF Verdicts
<1>7. {v[1] : v \in blacklisted} = VP!BlacklistedNames
  <2>1. {v[1] : v \in blacklisted} = {<<e.mangled_name, e.reason>>[1] : e \in blacklisted_function_list}
    BY Zenon
  <2>2. \A e \in blacklisted_function_list : <<e.mangled_name, e.reason>>[1] = e.mangled_name
    OBVIOUS
  <2> QED
    BY <2>1, <2>2 DEF VP!BlacklistedNames
<1> HIDE DEF names, blacklisted
<1>8. {<<n, "Whitelisted">> : n \in whitelisted_function_list} \cup blacklisted
         = Verdicts(ast_context)
  BY <1>3, <1>4, <1>5, <1>6
<1> QED
  BY <1>3, <1>7, <1>8 DEF blacklisted

(* The last compilation succeeds only when the visitor is done.            *)
LEMMA FinalCompilationKeeps ==
    ASSUME GenerateInv, CompositionInv, FinalCompilation PROVE CompositionInv'
<1>1. /\ pc = "compile" /\ outcome = "running" /\ library = NoLibrary
      /\ UNCHANGED <<active_include_headers, phase, ast_context, library>>
      /\ pc' \in {"render", "exit"}
  BY DEF FinalCompilation, Generate!FinalCompilation, Generate!Exit, Generate!searchVars,
         visitorVars, CompositionInv, GenerateInv, GP!TypeOK
<1>2. pc' = "render" => /\ phase = "finalized" /\ active_include_headers \in compiles'
                        /\ ~CannotMangle(ast_context)
  <2> SUFFICES ASSUME pc' = "render"
               PROVE  /\ phase = "finalized" /\ active_include_headers \in compiles'
                      /\ ~CannotMangle(ast_context)
    OBVIOUS
  <2>1. Generate!ProcessAST(active_include_headers, TRUE) /\ outcome' = "running"
    BY <1>1 DEF FinalCompilation, Generate!FinalCompilation, Generate!Exit, Generate!FinalList
  <2>2. active_include_headers \in compiles'
    BY <2>1 DEF Generate!ProcessAST
  <2>3. VisitorDone /\ phase # "crashed" /\ ~CannotMangle(ast_context)
    BY <2>1 DEF FinalCompilation
  <2> QED
    BY <2>2, <2>3 DEF VisitorDone
<1> QED
  BY <1>1, <1>2 DEF CompositionInv, CannotMangle

LEMMA CompositionNext ==
    GenerateInv /\ CompositionInv /\ [Next]_vars => CompositionInv'
<1> SUFFICES ASSUME GenerateInv, CompositionInv, [Next]_vars PROVE CompositionInv'
  OBVIOUS
<1>1. CASE OtherStep
  <2>1. /\ pc \notin {"compile", "write"} /\ Generate!Next
        /\ UNCHANGED <<phase, ast_context, library>>
    BY <1>1 DEF OtherStep, visitorVars
  <2>2. pc # "exit" /\ library = NoLibrary
    BY <2>1 DEF CompositionInv, Generate!Next, Generate!EnumerateIncludeFiles,
         Generate!EnumerationFails, Generate!CreateCompilerInstance, Generate!BeginPass,
         Generate!AcceptDirective, Generate!RejectDirective, Generate!EndPass,
         Generate!CreateVisitor, Generate!FinalCompilation, Generate!OpenHeaderFile,
         Generate!OpenImplementationFile, Generate!WriteFiles
  <2>3. CASE pc \in {"enumerate", "pass", "try", "visit"}
    <3>1. phase = "created" /\ pc' \in {"enumerate", "pass", "try", "visit", "compile", "exit"}
      BY <2>1, <2>3 DEF CompositionInv, Generate!Next, Generate!EnumerateIncludeFiles,
           Generate!EnumerationFails, Generate!CreateCompilerInstance, Generate!BeginPass,
           Generate!AcceptDirective, Generate!RejectDirective, Generate!EndPass,
           Generate!CreateVisitor, Generate!FinalCompilation, Generate!OpenHeaderFile,
           Generate!OpenImplementationFile, Generate!WriteFiles, Generate!Exit
    <3> QED
      BY <2>1, <2>2, <3>1 DEF CompositionInv
  <2>4. CASE pc \in {"render", "open"}
    <3>1. /\ UNCHANGED <<active_include_headers, compiles>>
          /\ pc' \in {"open", "write", "exit"}
      BY <2>1, <2>4 DEF Generate!Next, Generate!EnumerateIncludeFiles,
           Generate!EnumerationFails, Generate!CreateCompilerInstance, Generate!BeginPass,
           Generate!AcceptDirective, Generate!RejectDirective, Generate!EndPass,
           Generate!CreateVisitor, Generate!FinalCompilation, Generate!OpenHeaderFile,
           Generate!OpenImplementationFile, Generate!WriteFiles, Generate!Exit,
           Generate!searchVars, Generate!oracleVars
    <3> QED
      BY <2>1, <2>2, <2>4, <3>1 DEF CompositionInv, CannotMangle
  <2> QED
    BY <2>1, <2>2, <2>3, <2>4 DEF GenerateInv, GP!TypeOK
<1>2. CASE HandleTranslationUnit
  <2>1. /\ pc = "compile" /\ phase' = "visiting"
        /\ ast_context' = ast[active_include_headers]
        /\ UNCHANGED <<pc, active_include_headers, compiles, library>>
    BY <1>2 DEF HandleTranslationUnit, Visitor!Initialize, generateVars
  <2> QED
    BY <2>1 DEF CompositionInv
<1>3. CASE VisitorStep
  <2>1. /\ pc = "compile" /\ UNCHANGED <<pc, active_include_headers, compiles, library>>
    BY <1>3 DEF VisitorStep, generateVars
  <2>2. phase # "created" /\ phase' # "created" /\ ast_context' = ast_context
    BY <1>3, StepOfVisitor, VisitorKeepsUnit DEF VisitorStep
  <2> QED
    BY <2>1, <2>2 DEF CompositionInv
<1>4. CASE FinalCompilation
  BY <1>4, FinalCompilationKeeps
<1>5. CASE WriteFiles
  <2>1. /\ pc = "write" /\ pc' = "exit"
        /\ UNCHANGED <<active_include_headers, phase, ast_context>>
    BY <1>5 DEF WriteFiles, Generate!WriteFiles, Generate!Exit, Generate!searchVars,
         visitorVars
  <2> QED
    BY <2>1 DEF CompositionInv
<1>6. CASE UNCHANGED vars
  BY <1>6 DEF vars, generateVars, visitorVars, CompositionInv, CannotMangle
<1> QED
  BY <1>1, <1>2, <1>3, <1>4, <1>5, <1>6 DEF Next

LEMMA CompositionAlways == Spec => [](GenerateInv /\ VisitorInv /\ CompositionInv)
<1>1. Init => CompositionInv
  BY DEF Init, Visitor!Init, CompositionInv, Generate!Init
<1> QED
  BY <1>1, VisitorInvAlways, GenerateInvAlways, CompositionNext, PTL DEF Spec

(* The library is written in one step, from the results of the visitor on  *)
(* what the list declares, and no step disturbs it.                        *)
LEMMA WritingStep ==
    ASSUME CompositionInv, WriteFiles
    PROVE  /\ phase = "finalized" /\ active_include_headers \in compiles
           /\ ast_context = ast[active_include_headers] /\ compiles' = compiles
           /\ ~CannotMangle(ast_context)
           /\ library'.header_list = active_include_headers
           /\ library'.whitelisted = whitelisted_function_list
           /\ library'.blacklisted =
                 {<<e.mangled_name, e.reason>> : e \in blacklisted_function_list}
<1>1. pc = "write" /\ library' = ABILibrary /\ compiles' = compiles
  BY DEF WriteFiles, Generate!WriteFiles, Generate!oracleVars
<1> QED
  BY <1>1 DEF CompositionInv, ABILibrary

LEMMA OtherSteps ==
    ASSUME CompositionInv, [Next]_vars, ~WriteFiles
    PROVE  library' = library /\ (library # NoLibrary => compiles' = compiles)
<1>1. library' = library
  BY DEF Next, OtherStep, HandleTranslationUnit, VisitorStep, FinalCompilation, vars
<1>2. ASSUME library # NoLibrary PROVE UNCHANGED vars
  <2>1. pc = "exit"
    BY <1>2 DEF CompositionInv
  <2>2. ~Generate!Next
    BY <2>1 DEF Generate!Next, Generate!EnumerateIncludeFiles,
         Generate!EnumerationFails, Generate!CreateCompilerInstance, Generate!BeginPass,
         Generate!AcceptDirective, Generate!RejectDirective, Generate!EndPass,
         Generate!CreateVisitor, Generate!FinalCompilation, Generate!OpenHeaderFile,
         Generate!OpenImplementationFile, Generate!WriteFiles
  <2> QED
    BY <2>1, <2>2 DEF Next, OtherStep, HandleTranslationUnit, VisitorStep, FinalCompilation,
         Generate!Next
<1> QED
  BY <1>1, <1>2 DEF vars, generateVars

(* The files of the library name each function that the list of headers    *)
(* declares, once, with the verdict of the rules, whatever the order in    *)
(* which the headers were found and every container of the visitor was     *)
(* walked: no step of the command disturbs the results on their way from   *)
(* the visitor to the files.                                               *)
THEOREM LibraryCorrect == (TRUE \notin StaleFront) => (Spec => []LibraryExact)
<1> SUFFICES ASSUME TRUE \notin StaleFront PROVE Spec => []LibraryExact
  OBVIOUS
<1>1. Init => LibraryExact
  BY DEF Init, LibraryExact
<1>2. VisitorInv /\ VP!VerdictsSound /\ CompositionInv /\ LibraryExact /\ [Next]_vars
         => LibraryExact'
  <2> SUFFICES ASSUME VisitorInv, VP!VerdictsSound, CompositionInv, LibraryExact, [Next]_vars
               PROVE  LibraryExact'
    OBVIOUS
  <2>1. CASE WriteFiles
    <3>1. /\ library'.whitelisted \cap {v[1] : v \in library'.blacklisted} = {}
          /\ {<<n, "Whitelisted">> : n \in library'.whitelisted} \cup library'.blacklisted
                = Verdicts(ast[library'.header_list])
      BY <2>1, WritingStep, ResultsExact
    <3> QED
      BY <2>1, <3>1, WritingStep DEF LibraryExact
  <2>2. CASE ~WriteFiles
    BY <2>2, OtherSteps DEF LibraryExact
  <2> QED
    BY <2>1, <2>2
<1> QED
  BY <1>1, <1>2, CompositionAlways, VerdictsAlways, PTL DEF Spec

(* Every bad type among those that f depends on is a bare function type,   *)
(* given by value.                                                         *)
OnlyBareFunctions(tu, f) ==
    LET bad == Dependencies(tu, f) \cap Bannable(tu)
    IN  bad # {} /\ \A t \in bad : IsFunction(tu, t) /\ ChildTypes(tu, t) = {}

LibraryBounded ==
    library # NoLibrary =>
        LET tu == ast[library.header_list]
        IN  \A n \in library.whitelisted :
               \/ Verdict(tu, n) = "Whitelisted"
               \/ \E f \in Declared(tu, n) : OnlyBareFunctions(tu, f)

(* Whatever front() of an empty queue returned in the visitor, the library *)
(* that is written offers no function that is given a pointer to a         *)
(* function, or a type that holds one.                                     *)
THEOREM LibraryBoundedAlways == Spec => []LibraryBounded
<1>1. Init => LibraryBounded
  BY DEF Init, LibraryBounded
<1>2. VisitorInv /\ CompositionInv /\ LibraryBounded /\ [Next]_vars => LibraryBounded'
  <2> SUFFICES ASSUME VisitorInv, CompositionInv, LibraryBounded, [Next]_vars
               PROVE  LibraryBounded'
    OBVIOUS
  <2>1. CASE WriteFiles
    <3> DEFINE tu == ast_context
    <3>1. ASSUME NEW n \in whitelisted_function_list
          PROVE  \/ Verdict(tu, n) = "Whitelisted"
                 \/ \E f \in Declared(tu, n) : OnlyBareFunctions(tu, f)
      <4>1. \A f : VP!OnlyBareFunctions(f) <=> OnlyBareFunctions(tu, f)
        BY SameRules DEF VP!OnlyBareFunctions, VP!Bare, OnlyBareFunctions
      <4> QED
        BY <4>1, SameRules DEF VisitorInv, VP!VerdictsBounded
    <3>2. /\ library'.whitelisted = whitelisted_function_list
          /\ ast[library'.header_list] = tu
      BY <2>1, WritingStep
    <3> QED
      BY <3>1, <3>2 DEF LibraryBounded
  <2>2. CASE ~WriteFiles
    BY <2>2, OtherSteps DEF LibraryBounded
  <2> QED
    BY <2>1, <2>2
<1> QED
  BY <1>1, <1>2, CompositionAlways, PTL DEF Spec

-----------------------------------------------------------------------------
(* The command keeps the promise of AbiGenerator.                          *)

(* The rules of the promise are those of the library.                      *)
LEMMA SameLibrary == ASSUME NEW tu PROVE Generator!Verdicts(tu) = Verdicts(tu)
<1>1. \A c : Generator!ClassList(tu, c) = ClassList(tu, c)
  BY DEF ClassList, Generator!ClassList
<1>2. \A c : Generator!ClassDependencies(tu, c) = ClassDependencies(tu, c)
  BY <1>1 DEF ClassDependencies, Generator!ClassDependencies, MemberTypes,
       Generator!MemberTypes, ParameterTypes, Generator!ParameterTypes, ClassMethods,
       Generator!ClassMethods
<1>3. \A f : Generator!Dependencies(tu, f) = Dependencies(tu, f)
  BY <1>2 DEF Dependencies, Generator!Dependencies
<1>4. \A t : Generator!ChildTypes(tu, t) = ChildTypes(tu, t)
  BY <1>2 DEF ChildTypes, Generator!ChildTypes
<1>5. \A t : Generator!IsFunction(tu, t) <=> IsFunction(tu, t)
  BY DEF IsFunction, Generator!IsFunction
<1>6. Generator!Bannable(tu) = Bannable(tu)
  BY <1>4, <1>5 DEF Bannable, Generator!Bannable, ClosedUpward, Generator!ClosedUpward
<1>7. \A f : Generator!FunctionVerdict(tu, f) = FunctionVerdict(tu, f)
  BY <1>3, <1>6 DEF FunctionVerdict, Generator!FunctionVerdict
<1>8. ASSUME NEW n PROVE Generator!Verdict(tu, n) = Verdict(tu, n)
  <2>1. Generator!Declared(tu, n) = Declared(tu, n)
    BY DEF Declared, Generator!Declared
  <2> QED
    BY <1>7, <2>1 DEF Verdict, Generator!Verdict
<1> QED
  BY <1>8 DEF Verdicts, Generator!Verdicts

(* The list that is tried is one header longer than the list that is kept, *)
(* and that header is another one.                                         *)
LEMMA TriedInList ==
    ASSUME GenerateInv, pc = "try", ~GP!AtEnd PROVE Generate!NewIncludeHeaders \in List
<1> DEFINE h == header_files[header_desc_it]
<1>1. /\ header_desc_it \in 1 .. Len(header_files) /\ h \in Header
      /\ GP!NewIncludeHeaders \in Seq(Directive)
      /\ Len(GP!NewIncludeHeaders) = Len(active_include_headers) + 1
  BY GP!NewIncludeHeadersType, GenerateAssumption, FiniteFolders DEF GenerateInv
<1>2. h \notin GP!Included
  <2>1. header_files \in Seq(Header)
    BY DEF GenerateInv, GP!TypeOK
  <2>2. h \in GP!ToSet(header_files)
    BY <1>1, <2>1, LenProperties DEF GP!ToSet
  <2> QED
    BY <2>2 DEF GP!Included
<1> HIDE DEF h
<1>3. Cardinality(GP!Included \cup {h}) = Cardinality(GP!Included) + 1
  BY <1>2, ListLength, FS_AddElement
<1>4. Cardinality(GP!Included \cup {h}) <= Cardinality(Header)
  BY <1>1, ListLength, GenerateAssumption, FS_Subset
<1>5. Generate!NewIncludeHeaders = GP!NewIncludeHeaders
  BY DEF Generate!NewIncludeHeaders, GP!NewIncludeHeaders
<1> QED
  BY <1>1, <1>3, <1>4, <1>5, ListLength, InList

(* A compilation answers for a list, unless memory ran out.                *)
LEMMA CompilationAnswers ==
    ASSUME NEW list \in List, NEW succeeded \in BOOLEAN,
           Generate!ProcessAST(list, succeeded)
    PROVE  UNCHANGED <<compiles, fails>> \/ Generator!Answer(list)
BY DEF Generate!ProcessAST, Generate!oracleVars, Generator!Answer

(* A compilation of the search asks about a list, unless memory ran out.   *)
LEMMA CompilationAsks ==
    ASSUME NEW list \in List, NEW succeeded \in BOOLEAN, outcome = "running",
           Generate!ProcessAST(list, succeeded), UNCHANGED <<outcome, library>>
    PROVE  [Generator!GenNext]_(Generator!genVars)
BY CompilationAnswers DEF Generator!GenNext, Generator!Ask, Generator!genVars, stage

(* The command stops with an error: it gives up.                           *)
LEMMA ExitGivesUp ==
    ASSUME outcome = "running", outcome' \notin {"running", "success"}, UNCHANGED library,
           UNCHANGED <<compiles, fails>> \/ \E list \in List : Generator!Answer(list)
    PROVE  Generator!GenNext
BY DEF Generator!GenNext, Generator!GiveUp, stage

LEMMA GeneratorStep ==
    GenerateInv /\ VisitorInv /\ VP!VerdictsSound /\ CompositionInv /\ [Next]_vars
        => [Generator!GenNext]_(Generator!genVars)
<1> SUFFICES ASSUME GenerateInv, VisitorInv, VP!VerdictsSound, CompositionInv, [Next]_vars
             PROVE  [Generator!GenNext]_(Generator!genVars)
  OBVIOUS
<1>0. pc # "exit" => outcome = "running"
  BY DEF GenerateInv, GP!TypeOK
<1>1. CASE OtherStep
  <2>1. pc \notin {"compile", "write"} /\ Generate!Next /\ UNCHANGED library
    BY <1>1 DEF OtherStep
  <2>2. CASE Generate!AcceptDirective
    <3>1. /\ pc = "try" /\ ~GP!AtEnd /\ UNCHANGED outcome
          /\ Generate!ProcessAST(Generate!NewIncludeHeaders, TRUE)
      BY <2>2 DEF Generate!AcceptDirective, Generate!AtEnd, GP!AtEnd
    <3> QED
      BY <1>0, <2>1, <3>1, TriedInList, CompilationAsks
  <2>3. CASE Generate!RejectDirective
    <3>1. /\ pc = "try" /\ ~GP!AtEnd /\ UNCHANGED outcome
          /\ Generate!ProcessAST(Generate!NewIncludeHeaders, FALSE)
      BY <2>3 DEF Generate!RejectDirective, Generate!AtEnd, GP!AtEnd
    <3> QED
      BY <1>0, <2>1, <3>1, TriedInList, CompilationAsks
  <2>4. CASE /\ UNCHANGED <<compiles, fails>> /\ pc # "exit"
             /\ outcome' = outcome \/ outcome' \notin {"running", "success"}
    <3>1. CASE outcome' = outcome
      BY <2>1, <2>4, <3>1 DEF Generator!genVars, stage
    <3>2. CASE outcome' \notin {"running", "success"}
      BY <1>0, <2>1, <2>4, <3>2, ExitGivesUp
    <3> QED
      BY <2>4, <3>1, <3>2
  <2>5. CASE \/ Generate!EnumerateIncludeFiles \/ Generate!EnumerationFails
             \/ Generate!CreateCompilerInstance \/ Generate!BeginPass \/ Generate!EndPass
             \/ Generate!CreateVisitor
    BY <2>4, <2>5 DEF Generate!EnumerateIncludeFiles, Generate!EnumerationFails,
         Generate!CreateCompilerInstance, Generate!BeginPass, Generate!EndPass,
         Generate!CreateVisitor, Generate!Exit, Generate!oracleVars
  <2>6. CASE Generate!OpenHeaderFile \/ Generate!OpenImplementationFile
    BY <2>4, <2>6 DEF Generate!OpenHeaderFile, Generate!OpenImplementationFile,
         Generate!Exit, Generate!oracleVars
  <2>7. ~Generate!FinalCompilation /\ ~Generate!WriteFiles
    BY <2>1 DEF Generate!FinalCompilation, Generate!WriteFiles
  <2> QED
    BY <2>1, <2>2, <2>3, <2>5, <2>6, <2>7 DEF Generate!Next
<1>2. CASE HandleTranslationUnit \/ VisitorStep
  BY <1>2 DEF HandleTranslationUnit, VisitorStep, generateVars, Generator!genVars, stage
<1>3. CASE FinalCompilation
  <2>1. pc = "compile" /\ Generate!FinalCompilation /\ UNCHANGED library
    BY <1>3 DEF FinalCompilation, Generate!FinalCompilation
  <2>2. active_include_headers \in List
    BY ActiveInList
  <2>3. CASE Generate!ProcessAST(active_include_headers, TRUE) /\ UNCHANGED outcome
    BY <1>0, <2>1, <2>2, <2>3, CompilationAsks
  <2>4. CASE /\ outcome' \in {"not compiled", "not mangled"}
             /\ \E succeeded \in BOOLEAN :
                   Generate!ProcessAST(active_include_headers, succeeded)
    <3>1. UNCHANGED <<compiles, fails>> \/ \E list \in List : Generator!Answer(list)
      BY <2>2, <2>4, CompilationAnswers
    <3> QED
      BY <1>0, <2>1, <2>4, <3>1, ExitGivesUp
  <2>5. CASE outcome' = "crashed" /\ UNCHANGED <<compiles, fails>>
    BY <1>0, <2>1, <2>5, ExitGivesUp
  <2> QED
    BY <2>1, <2>3, <2>4, <2>5
       DEF Generate!FinalCompilation, Generate!Exit, Generate!FinalList, Generate!oracleVars
<1>4. CASE WriteFiles
  <2>1. /\ pc = "write" /\ outcome' = "success" /\ library' = ABILibrary
        /\ UNCHANGED <<compiles, fails>>
    BY <1>4 DEF WriteFiles, Generate!WriteFiles, Generate!Exit, Generate!oracleVars
  <2>2. /\ phase = "finalized" /\ active_include_headers \in compiles
        /\ ast_context = ast[active_include_headers]
        /\ ast[active_include_headers].decls \cap Unmanglable = {}
    BY <2>1 DEF CompositionInv, CannotMangle
  <2>3. ABILibrary = Generator!LibraryFor(active_include_headers)
    <3> DEFINE blacklisted == {<<e.mangled_name, e.reason>> : e \in blacklisted_function_list}
               whitelisted == {<<n, "Whitelisted">> : n \in whitelisted_function_list}
               verdicts == Verdicts(ast_context)
    <3>1. whitelisted \cup blacklisted = verdicts
      BY <2>2, ResultsExact
    <3>2. \A v \in blacklisted : v[2] # "Whitelisted"
      BY DEF VisitorInv, VP!TypeOK, VP!Reason
    <3>3. \A v \in whitelisted : v[2] = "Whitelisted"
      OBVIOUS
    <3>4. whitelisted_function_list = {v[1] : v \in whitelisted}
      <4>1. {v[1] : v \in whitelisted} =
                {<<n, "Whitelisted">>[1] : n \in whitelisted_function_list}
        BY Zenon
      <4>2. \A n \in whitelisted_function_list : <<n, "Whitelisted">>[1] = n
        OBVIOUS
      <4> QED
        BY <4>1, <4>2
    <3>5. Generator!LibraryFor(active_include_headers) =
              [header_list |-> active_include_headers,
               whitelisted |-> {v[1] : v \in {w \in verdicts : w[2] = "Whitelisted"}},
               blacklisted |-> {v \in verdicts : v[2] # "Whitelisted"}]
      BY <2>2, SameLibrary DEF Generator!LibraryFor
    <3>6. ABILibrary = [header_list |-> active_include_headers,
                        whitelisted |-> whitelisted_function_list,
                        blacklisted |-> blacklisted]
      BY DEF ABILibrary
    <3> HIDE DEF blacklisted, whitelisted, verdicts
    <3>7. /\ {w \in verdicts : w[2] = "Whitelisted"} = whitelisted
          /\ {v \in verdicts : v[2] # "Whitelisted"} = blacklisted
      BY <3>1, <3>2, <3>3
    <3> QED
      BY <3>4, <3>5, <3>6, <3>7
  <2>4. stage = "working" /\ stage' = "delivered"
    BY <1>0, <2>1 DEF stage
  <2> QED
    BY <2>1, <2>2, <2>3, <2>4 DEF Generator!GenNext, Generator!Deliver
<1>5. CASE UNCHANGED vars
  BY <1>5 DEF vars, generateVars, Generator!genVars, stage
<1> QED
  BY <1>1, <1>2, <1>3, <1>4, <1>5 DEF Next

(* The safety part of ImplementsAbiGenerator: for whoever runs the command *)
(* it asks about lists of headers, and then delivers the one right library *)
(* for a list that compiles, or nothing.                                   *)
THEOREM GeneratorRefined ==
    (TRUE \notin StaleFront)
        => (Spec => Generator!GenInit /\ [][Generator!GenNext]_(Generator!genVars))
<1> SUFFICES ASSUME TRUE \notin StaleFront
             PROVE  Spec => Generator!GenInit /\ [][Generator!GenNext]_(Generator!genVars)
  OBVIOUS
<1>1. Init => Generator!GenInit
  BY DEF Init, Generate!Init, Generator!GenInit, stage
<1> QED
  BY <1>1, CompositionAlways, VerdictsAlways, GeneratorStep, PTL DEF Spec

-----------------------------------------------------------------------------
(* The whole program comes to an end.                                      *)

EveryStepAdvances ==
    [][ \/ GP!Below(GP!Remaining', GP!Remaining)
        \/ UNCHANGED generateVars /\ VP!Advances ]_vars

(* Each step of the program leaves less to do: to the search and the       *)
(* output, or, while these wait for the last compilation, to the visitor.  *)
(* Neither makes work for the other, and what is left to the search is     *)
(* five natural numbers.                                                   *)
THEOREM ProgramAdvances ==
    Spec => [](GP!Remaining \in [1 .. 5 -> Nat]) /\ EveryStepAdvances
<1>1. Spec => [](GP!Remaining \in [1 .. 5 -> Nat])
  <2>1. Init => GP!Init
    BY DEF Init, Generate!Init, GP!Init
  <2>2. Spec => GP!Spec
    BY <2>1, StepOfGenerate, PTL DEF Spec, GP!Spec
  <2> QED
    BY <2>2, GP!StepsAdvance, GenerateAssumption, FiniteFolders
<1>2. GenerateInv /\ VisitorInv /\ [Next]_vars
         => [ \/ GP!Below(GP!Remaining', GP!Remaining)
              \/ UNCHANGED generateVars /\ VP!Advances ]_vars
  <2> SUFFICES ASSUME GenerateInv, VisitorInv, Next
               PROVE  \/ GP!Below(GP!Remaining', GP!Remaining)
                      \/ UNCHANGED generateVars /\ VP!Advances
    OBVIOUS
  <2>1. CASE OtherStep \/ FinalCompilation \/ WriteFiles
    <3>1. Generate!Next
      BY <2>1 DEF OtherStep, FinalCompilation, WriteFiles, Generate!Next
    <3>2. GP!TypeOK /\ GP!Next
      BY <3>1, NextOfGenerate DEF GenerateInv
    <3> QED
      BY <3>2, GP!AdvancesNext, GenerateAssumption, FiniteFolders
  <2>2. CASE HandleTranslationUnit \/ VisitorStep
    <3>1. UNCHANGED generateVars /\ phase # "finalized"
      BY <2>2, StepOfVisitor, VisitorKeepsUnit DEF HandleTranslationUnit, VisitorStep
    <3>2. VP!Next
      <4>1. CASE HandleTranslationUnit
        <5>1. ast[active_include_headers] \in ASTs
          BY ActiveInList, AstAssumption
        <5> QED
          BY <4>1, <5>1, InitializeOfVisitor DEF HandleTranslationUnit, VP!Next
      <4>2. CASE VisitorStep
        BY <4>2, StepOfVisitor DEF VisitorStep, VP!Next
      <4> QED
        BY <2>2, <4>1, <4>2
    <3>3. VP!Advances
      BY <3>1, <3>2, VP!AdvancesNext, SameUnits, ASTsAssumption, VisitorAssumption
         DEF VisitorInv
    <3> QED
      BY <3>1, <3>3
  <2> QED
    BY <2>1, <2>2 DEF Next
<1> QED
  BY <1>1, <1>2, GenerateInvAlways, VisitorInvAlways, PTL DEF Spec, EveryStepAdvances

-----------------------------------------------------------------------------
(* The library is about a list of headers.                                 *)
ListKept == library # NoLibrary => library.header_list \in List

LEMMA ListKeptAlways == Spec => []ListKept
<1>1. Init => ListKept
  BY DEF Init, ListKept
<1>2. GenerateInv /\ ListKept /\ [Next]_vars => ListKept'
  <2> SUFFICES ASSUME GenerateInv, ListKept, [Next]_vars PROVE ListKept'
    OBVIOUS
  <2>1. CASE WriteFiles
    <3>1. library'.header_list = active_include_headers
      BY <2>1 DEF WriteFiles, ABILibrary
    <3> QED
      BY <3>1, ActiveInList DEF ListKept
  <2>2. CASE ~WriteFiles
    BY <2>2 DEF Next, OtherStep, HandleTranslationUnit, VisitorStep, FinalCompilation, vars,
       ListKept
  <2> QED
    BY <2>1, <2>2
<1> QED
  BY <1>1, <1>2, GenerateInvAlways, PTL DEF Spec

(* The array of the library can be compiled when the names that the units  *)
(* declare are those of the linker, as in C without overloading: then each *)
(* function that the library names stands in the headers it includes.      *)
THEOREM ExternsDeclaredInC ==
    /\ TRUE \notin StaleFront
    /\ \A tu \in ASTs : {tu.mangled[f] : f \in tu.decls} \subseteq Identifier
    => (Spec => []ExternsDeclared)
<1> SUFFICES ASSUME TRUE \notin StaleFront,
                    \A tu \in ASTs : {tu.mangled[f] : f \in tu.decls} \subseteq Identifier
             PROVE  Spec => []ExternsDeclared
  OBVIOUS
<1>1. ListKept /\ LibraryExact => ExternsDeclared
  <2> SUFFICES ASSUME ListKept, LibraryExact, library # NoLibrary,
                      NEW n \in library.whitelisted
               PROVE  n \in Identifier
    BY DEF ExternsDeclared
  <2> DEFINE tu == ast[library.header_list]
  <2>1. tu \in ASTs
    BY AstAssumption DEF ListKept
  <2>2. <<n, "Whitelisted">> \in Verdicts(tu)
    BY DEF LibraryExact
  <2>3. n \in {tu.mangled[f] : f \in tu.decls}
    BY <2>2 DEF Verdicts
  <2> QED
    BY <2>1, <2>3
<1>2. Spec => []LibraryExact
  BY LibraryCorrect
<1> QED
  BY <1>1, <1>2, ListKeptAlways, PTL
=============================================================================
