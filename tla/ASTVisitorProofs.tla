-------------------------- MODULE ASTVisitorProofs --------------------------
(***************************************************************************)
(* Theorems about the AST visitor, for every set of types, classes,        *)
(* functions and names and every set of translation units.                 *)
(***************************************************************************)
EXTENDS ASTVisitor, FiniteSetTheorems, TLAPS

-----------------------------------------------------------------------------
(* What the queries return.                                                *)

LEMMA ClassDependenciesType ==
    ASSUME NEW tu \in ASTs, NEW c \in Class
    PROVE  /\ ClassDependencies(tu, c) \in SUBSET Type
           /\ ClassInformation(tu, c) \in SUBSET Type
<1>1. tu \in TranslationUnits
  BY ASTsAssumption
<1>2. ClassList(tu, c) \subseteq Class
  BY <1>1 DEF ClassList, TranslationUnits
<1>3. MemberTypes(tu, ClassList(tu, c)) \subseteq Type
  BY <1>1, <1>2 DEF MemberTypes, TranslationUnits
<1>4. ClassMethods(tu, ClassList(tu, c)) \subseteq Function
  BY <1>1, <1>2 DEF ClassMethods, TranslationUnits
<1>5. ParameterTypes(tu, ClassMethods(tu, ClassList(tu, c))) \subseteq Type
  BY <1>1, <1>4 DEF ParameterTypes, TranslationUnits
<1>6. ClassTypes(tu, ClassList(tu, c)) \subseteq Type
  BY <1>1, <1>2 DEF ClassTypes, TranslationUnits
<1>7. ClassDependencies(tu, c) \subseteq Type
  BY <1>3, <1>5 DEF ClassDependencies
<1>8. ClassInformation(tu, c) \subseteq Type
  BY <1>6, <1>7 DEF ClassInformation
<1> QED
  BY <1>7, <1>8

LEMMA DependenciesType ==
    ASSUME NEW tu \in ASTs, NEW f \in Function
    PROVE  /\ Dependencies(tu, f) \in SUBSET Type
           /\ DeclInformation(tu, f) \in SUBSET Type
<1>1. tu \in TranslationUnits
  BY ASTsAssumption
<1>2. CASE tu.owner[f] = NoClass
  BY <1>1, <1>2 DEF Dependencies, DeclInformation, TranslationUnits
<1>3. CASE tu.owner[f] # NoClass
  <2>1. tu.owner[f] \in Class
    BY <1>1, <1>3 DEF TranslationUnits
  <2> QED
    BY <1>3, <2>1, ClassDependenciesType DEF Dependencies, DeclInformation
<1> QED
  BY <1>2, <1>3

LEMMA ChildTypesType ==
    ASSUME NEW tu \in ASTs, NEW t \in Type
    PROVE  ChildTypes(tu, t) \in SUBSET Type
<1>1. tu \in TranslationUnits
  BY ASTsAssumption
<1>2. CASE tu.kind[t] = "Record"
  <2>1. tu.record[t] \in Class
    BY <1>2, ASTsAssumption
  <2> QED
    BY <1>2, <2>1, ClassDependenciesType DEF ChildTypes
<1>3. CASE tu.kind[t] # "Record"
  BY <1>1, <1>3 DEF ChildTypes, TranslationUnits
<1> QED
  BY <1>2, <1>3

-----------------------------------------------------------------------------
(* The containers keep their types.                                        *)

LEMMA TypeInit == Init => TypeOK
BY DEF Init, TypeOK, NoFunctions

LEMMA TypeStep == TypeOK /\ [Next]_vars => TypeOK'
<1> SUFFICES ASSUME TypeOK, [Next]_vars PROVE TypeOK'
  OBVIOUS
<1> USE DEF TypeOK
<1>1. ASSUME NEW tu \in ASTs, Initialize(tu) PROVE TypeOK'
  <2>1. tu.decls \subseteq Function
    BY ASTsAssumption DEF TranslationUnits
  <2> QED
    BY <1>1, <2>1, ASTsAssumption DEF Initialize, ClearTree, ClearResults, NoFunctions, treeVars, banVars, causeVars
<1>2. ASSUME NEW f \in Function, VisitFunctionDecl(f) PROVE TypeOK'
  <2>1. ast_context \in ASTs
    BY <1>2 DEF VisitFunctionDecl
  <2>2. /\ Dependencies(ast_context, f) \subseteq Type
        /\ DeclInformation(ast_context, f) \subseteq Type
    BY <2>1, DependenciesType
  <2> QED
    BY <1>2, <2>1, <2>2 DEF VisitFunctionDecl, treeVars, banVars, filterVars, causeVars, resultVars
<1>3. ASSUME NEW t \in Type, EnumerateRoot(t) PROVE TypeOK'
  BY <1>3 DEF EnumerateRoot, treeVars, banVars, filterVars, causeVars, resultVars
<1>4. ASSUME NEW t \in Type, SkipKnownType(t) PROVE TypeOK'
  BY <1>4 DEF SkipKnownType, treeVars, banVars, filterVars, causeVars, resultVars
<1>5. ASSUME NEW t \in Type, ExpandType(t) PROVE TypeOK'
  <2>1. ast_context \in ASTs
    BY <1>5 DEF ExpandType
  <2>2. ChildTypes(ast_context, t) \subseteq Type
    BY <2>1, ChildTypesType
  <2>3. type_info_map' \subseteq Type
    <3>1. ExpandedClass(t) # NoClass => ExpandedClass(t) \in Class
      BY <2>1, ASTsAssumption DEF ExpandedClass
    <3> QED
      BY <1>5, <2>1, <3>1, ClassDependenciesType DEF ExpandType
  <2> QED
    BY <1>5, <2>1, <2>2, <2>3 DEF ExpandType, NodesWith, NewTypes, ParentsWith, banVars, filterVars, causeVars, resultVars
<1>6. CASE SaveFunction
  <2>1. ast_context \in ASTs /\ decl \in Function
    BY <1>6 DEF SaveFunction
  <2>2. Dependencies(ast_context, decl) \subseteq Type
    BY <2>1, DependenciesType
  <2> QED
    BY <1>6, <2>1, <2>2 DEF SaveFunction, treeVars, visitVars, banVars, filterVars, causeVars, resultVars
<1>7. CASE CollectClassesFails
  BY <1>7 DEF CollectClassesFails, treeVars, visitVars, banVars, filterVars, causeVars, resultVars
<1>8. CASE BeginFinalize
  BY <1>8 DEF BeginFinalize, treeVars, visitVars, filterVars, causeVars, resultVars
<1>9. ASSUME NEW t \in Type, SkipBlacklisted(t) PROVE TypeOK'
  BY <1>9 DEF SkipBlacklisted, treeVars, visitVars, filterVars, causeVars, resultVars
<1>10. ASSUME NEW t \in Type, CheckType(t) PROVE TypeOK'
  BY <1>10 DEF CheckType, BannedChildren, treeVars, visitVars, filterVars, causeVars, resultVars
<1>11. ASSUME NEW t \in Type, Propagate(t) PROVE TypeOK'
  BY <1>11 DEF Propagate, Upward, treeVars, visitVars, filterVars, causeVars, resultVars
<1>12. CASE RemoveDuplicates
  <2>1. ast_context \in TranslationUnits
    BY <1>12, ASTsAssumption DEF RemoveDuplicates
  <2>2. PICK first \in [Clashing -> Function] :
          /\ \A n \in Clashing : first[n] \in Named(n)
          /\ blacklisted_function_list' =
                {Blacklisted(first[n], "DuplicateName", Named(n) \ {first[n]}) :
                    n \in Clashing}
    BY <1>12 DEF RemoveDuplicates
  <2>3. ASSUME NEW e \in blacklisted_function_list'
        PROVE  /\ e.decl \in Function /\ e.mangled_name \in Name /\ e.reason \in Reason
               /\ e.reason_data \subseteq Function \cup Type
    <3>1. PICK n \in Clashing :
            e = Blacklisted(first[n], "DuplicateName", Named(n) \ {first[n]})
      BY <2>2
    <3>2. first[n] \in Function /\ Named(n) \subseteq Function
      BY <2>2 DEF Named
    <3> QED
      BY <2>1, <3>1, <3>2 DEF Blacklisted, Reason, TranslationUnits
  <2> QED
    BY <1>12, <2>3 DEF RemoveDuplicates, treeVars, visitVars, banVars, causeVars
<1>13. ASSUME NEW f \in Function, JudgeFunction(f) PROVE TypeOK'
  <2>1. ast_context \in TranslationUnits
    BY <1>13, ASTsAssumption DEF JudgeFunction
  <2>2. ast_context.mangled[f] \in Name
    BY <2>1 DEF TranslationUnits
  <2> QED
    BY <1>13, <2>2 DEF JudgeFunction, Blacklisted, Reason, treeVars, visitVars, banVars, causeVars
<1>14. ASSUME NEW f \in Function, RejectFunction(f) PROVE TypeOK'
  BY <1>14 DEF RejectFunction, BadDependencies, treeVars, visitVars, banVars, causeVars, resultVars
<1>15. CASE DescendBadTypes
  BY <1>15 DEF DescendBadTypes, Related, treeVars, visitVars, banVars, resultVars
<1>16. CASE ReportBadTypes
  <2>1. ast_context \in TranslationUnits /\ decl \in Function
    BY <1>16, ASTsAssumption DEF ReportBadTypes
  <2>2. ast_context.mangled[decl] \in Name
    BY <2>1 DEF TranslationUnits
  <2> QED
    BY <1>16, <2>1, <2>2 DEF ReportBadTypes, CauseEntry, Blacklisted, Reason, treeVars, visitVars, banVars
<1>17. CASE EndFinalize
  BY <1>17 DEF EndFinalize, treeVars, visitVars, filterVars, causeVars, resultVars
<1>18. CASE UNCHANGED vars
  BY <1>18 DEF vars, treeVars, visitVars, banVars, filterVars, causeVars, resultVars
<1> QED
  BY <1>1, <1>2, <1>3, <1>4, <1>5, <1>6, <1>7, <1>8, <1>9, <1>10, <1>11, <1>12, <1>13,
     <1>14, <1>15, <1>16, <1>17, <1>18 DEF Next, Step, EnumerationStep, FinalizeStep

(* Every container of the visitor holds what it is meant to hold, at every *)
(* step of every sequence of translation units.                            *)
THEOREM TypeCorrect == Spec => []TypeOK
BY TypeInit, TypeStep, PTL DEF Spec

-----------------------------------------------------------------------------
(* The type walk.                                                          *)

LEMMA TreeInit == Init => TreeConsistent
BY DEF Init, TreeConsistent

LEMMA TreeStep == TypeOK /\ TreeConsistent /\ [Next]_vars => TreeConsistent'
<1> SUFFICES ASSUME TypeOK, TreeConsistent, [Next]_vars PROVE TreeConsistent'
  OBVIOUS
<1> USE DEF TreeConsistent
<1>1. ASSUME NEW tu \in ASTs, Initialize(tu) PROVE TreeConsistent'
  BY <1>1 DEF Initialize, ClearTree
<1>2. ASSUME NEW f \in Function, VisitFunctionDecl(f) PROVE TreeConsistent'
  BY <1>2 DEF VisitFunctionDecl, treeVars
<1>3. ASSUME NEW t \in Type, EnumerateRoot(t) PROVE TreeConsistent'
  BY <1>3 DEF EnumerateRoot, treeVars
<1>4. ASSUME NEW t \in Type, SkipKnownType(t) PROVE TreeConsistent'
  BY <1>4 DEF SkipKnownType, treeVars
<1>5. ASSUME NEW t \in Type, ExpandType(t) PROVE TreeConsistent'
  <2> DEFINE found == ChildTypes(ast_context, t)
  <2>1. /\ t \notin enumerated_type_list /\ phase' = phase /\ phase = "enumerating"
        /\ ast_context' = ast_context
        /\ enumerated_type_list' = enumerated_type_list \cup {t}
        /\ children' = [children EXCEPT ![t] = @ \cup found]
        /\ parents' = [c \in Type |-> IF c \in found THEN parents[c] \cup {t} ELSE parents[c]]
        /\ type_dependency_tree' = type_dependency_tree \cup {t} \cup found
        /\ queue' = (queue \ {t}) \cup (found \ (type_dependency_tree \cup {t}))
    BY <1>5 DEF ExpandType, NodesWith, NewTypes, ParentsWith
  <2>2. ast_context \in ASTs
    BY <2>1 DEF TypeOK
  <2>3. found \subseteq Type
    BY <2>2, ChildTypesType
  <2>4. children[t] = {}
    BY <2>1
  <2>5. children' = [children EXCEPT ![t] = found]
    BY <2>1, <2>4
  <2> HIDE DEF found
  <2>6. \A s, c \in Type : c \in children'[s] <=> s \in parents'[c]
    BY <2>1, <2>3, <2>4, <2>5 DEF TypeOK
  <2>7. \A s \in Type : children'[s] =
            IF s \in enumerated_type_list' THEN ChildTypes(ast_context', s) ELSE {}
    <3> SUFFICES ASSUME NEW s \in Type
                 PROVE  children'[s] =
                          IF s \in enumerated_type_list' THEN ChildTypes(ast_context', s) ELSE {}
      OBVIOUS
    <3>1. CASE s = t
      BY <2>1, <2>5, <3>1 DEF TypeOK, found
    <3>2. CASE s # t
      <4>1. children'[s] = children[s] /\ (s \in enumerated_type_list' <=> s \in enumerated_type_list)
        BY <2>1, <2>5, <3>2 DEF TypeOK
      <4> QED
        BY <2>1, <4>1
    <3> QED
      BY <3>1, <3>2
  <2>8. \A s \in enumerated_type_list' : children'[s] \subseteq type_dependency_tree'
    BY <2>1, <2>5 DEF TypeOK
  <2>9. type_dependency_tree' \subseteq enumerated_type_list' \cup queue'
    BY <2>1
  <2> QED
    BY <2>1, <2>6, <2>7, <2>8, <2>9
<1>6. CASE SaveFunction
  BY <1>6 DEF SaveFunction, treeVars, visitVars
<1>7. CASE CollectClassesFails
  BY <1>7 DEF CollectClassesFails, treeVars, visitVars
<1>8. CASE BeginFinalize
  BY <1>8 DEF BeginFinalize, treeVars, visitVars
<1>9. ASSUME NEW t \in Type, SkipBlacklisted(t) \/ CheckType(t) \/ Propagate(t)
      PROVE  TreeConsistent'
  BY <1>9 DEF SkipBlacklisted, CheckType, Propagate, treeVars, visitVars
<1>10. CASE RemoveDuplicates
  BY <1>10 DEF RemoveDuplicates, treeVars, visitVars
<1>11. ASSUME NEW f \in Function, JudgeFunction(f) \/ RejectFunction(f)
       PROVE  TreeConsistent'
  BY <1>11 DEF JudgeFunction, RejectFunction, treeVars, visitVars
<1>12. CASE DescendBadTypes \/ ReportBadTypes \/ EndFinalize
  BY <1>12 DEF DescendBadTypes, ReportBadTypes, EndFinalize, treeVars, visitVars
<1>13. CASE UNCHANGED vars
  BY <1>13 DEF vars, treeVars, visitVars
<1> QED
  BY <1>1, <1>2, <1>3, <1>4, <1>5, <1>6, <1>7, <1>8, <1>9, <1>10, <1>11, <1>12, <1>13
     DEF Next, Step, EnumerationStep, FinalizeStep

(* The dependency tree is the type graph of the unit, as far as it has     *)
(* been walked, whatever the order of declarations and types.              *)
THEOREM TreeCorrect == Spec => []TreeConsistent
BY TypeInit, TypeStep, TreeInit, TreeStep, PTL DEF Spec

(***************************************************************************)
(* The strengthening of EnumerationComplete: the types of the declaration  *)
(* being visited are waiting, or known; the declarations are split between *)
(* those to visit, the current one and the saved ones.                     *)
(***************************************************************************)
EnumerationInv ==
    /\ \A f \in DOMAIN function_map :
          /\ function_map[f] = Dependencies(ast_context, f)
          /\ function_map[f] \subseteq type_dependency_tree
    /\ phase = "enumerating" =>
          Dependencies(ast_context, decl) \subseteq roots \cup queue \cup enumerated_type_list
    /\ phase = "visiting" => unvisited \cup DOMAIN function_map = ast_context.decls
    /\ phase = "enumerating" =>
          unvisited \cup DOMAIN function_map \cup {decl} = ast_context.decls
    /\ phase = "blacklisting" => DOMAIN function_map = ast_context.decls

LEMMA EnumerationInit == Init => EnumerationInv
BY DEF Init, EnumerationInv, NoFunctions

LEMMA EnumerationStepInv ==
    TypeOK /\ TreeConsistent /\ EnumerationInv /\ [Next]_vars => EnumerationInv'
<1> SUFFICES ASSUME TypeOK, TreeConsistent, EnumerationInv, [Next]_vars PROVE EnumerationInv'
  OBVIOUS
<1> USE DEF EnumerationInv
<1>1. ASSUME NEW tu \in ASTs, Initialize(tu) PROVE EnumerationInv'
  BY <1>1 DEF Initialize, ClearTree, NoFunctions
<1>2. ASSUME NEW f \in Function, VisitFunctionDecl(f) PROVE EnumerationInv'
  BY <1>2 DEF VisitFunctionDecl, treeVars
<1>3. ASSUME NEW t \in Type, EnumerateRoot(t) PROVE EnumerationInv'
  BY <1>3 DEF EnumerateRoot, treeVars
<1>4. ASSUME NEW t \in Type, SkipKnownType(t) PROVE EnumerationInv'
  BY <1>4 DEF SkipKnownType, treeVars
<1>5. ASSUME NEW t \in Type, ExpandType(t) PROVE EnumerationInv'
  <2>1. /\ type_dependency_tree \subseteq type_dependency_tree'
        /\ queue \cup enumerated_type_list \subseteq queue' \cup enumerated_type_list'
    BY <1>5 DEF ExpandType, NodesWith
  <2> QED
    BY <1>5, <2>1 DEF ExpandType
<1>6. CASE SaveFunction
  <2>1. Dependencies(ast_context, decl) \subseteq type_dependency_tree
    BY <1>6 DEF SaveFunction, TypeOK
  <2> QED
    BY <1>6, <2>1 DEF SaveFunction, TypeOK, treeVars, visitVars
<1>7. CASE CollectClassesFails
  BY <1>7 DEF CollectClassesFails, treeVars, visitVars
<1>8. CASE BeginFinalize
  BY <1>8 DEF BeginFinalize, treeVars, visitVars
<1>9. ASSUME NEW t \in Type, SkipBlacklisted(t) \/ CheckType(t) \/ Propagate(t)
      PROVE  EnumerationInv'
  BY <1>9 DEF SkipBlacklisted, CheckType, Propagate, treeVars, visitVars
<1>10. CASE RemoveDuplicates
  BY <1>10 DEF RemoveDuplicates, treeVars, visitVars
<1>11. ASSUME NEW f \in Function, JudgeFunction(f) \/ RejectFunction(f)
       PROVE  EnumerationInv'
  BY <1>11 DEF JudgeFunction, RejectFunction, treeVars, visitVars
<1>12. CASE DescendBadTypes \/ ReportBadTypes \/ EndFinalize
  BY <1>12 DEF DescendBadTypes, ReportBadTypes, EndFinalize, treeVars, visitVars
<1>13. CASE UNCHANGED vars
  BY <1>13 DEF vars, treeVars, visitVars
<1> QED
  BY <1>1, <1>2, <1>3, <1>4, <1>5, <1>6, <1>7, <1>8, <1>9, <1>10, <1>11, <1>12, <1>13
     DEF Next, Step, EnumerationStep, FinalizeStep

LEMMA EnumerationImplied == TypeOK /\ TreeConsistent /\ EnumerationInv => EnumerationComplete
BY DEF TypeOK, TreeConsistent, EnumerationInv, EnumerationComplete

(* Whatever finalize() looks up is there, and nothing was left behind: the *)
(* tree is closed under child types and holds the dependencies of every    *)
(* function of the map.                                                    *)
THEOREM EnumerationCorrect == Spec => []EnumerationComplete
BY TypeInit, TypeStep, TreeInit, TreeStep, EnumerationInit, EnumerationStepInv,
   EnumerationImplied, PTL DEF Spec

-----------------------------------------------------------------------------
(* The blacklist.                                                          *)

LEMMA BannableClosed ==
    ASSUME NEW tu \in ASTs, NEW t \in Type,
           IsFunction(tu, t) \/ ChildTypes(tu, t) \cap Bannable(tu) # {}
    PROVE  t \in Bannable(tu)
<1> SUFFICES ASSUME NEW S \in SUBSET Type, ClosedUpward(tu, S) PROVE t \in S
  BY DEF Bannable
<1>1. CASE IsFunction(tu, t)
  BY <1>1 DEF ClosedUpward
<1>2. CASE ChildTypes(tu, t) \cap Bannable(tu) # {}
  <2>1. PICK c \in ChildTypes(tu, t) : c \in Bannable(tu)
    BY <1>2
  <2>2. c \in S
    BY <2>1 DEF Bannable
  <2> QED
    BY <2>1, <2>2 DEF ClosedUpward
<1> QED
  BY <1>1, <1>2

LEMMA BannableLeast ==
    ASSUME NEW tu \in ASTs, NEW S \in SUBSET Type, ClosedUpward(tu, S)
    PROVE  Bannable(tu) \subseteq S
BY DEF Bannable

(***************************************************************************)
(* The strengthening of BlacklistSound and BlacklistComplete.  A           *)
(* blacklisted type is still queued, or has all its parents blacklisted;   *)
(* a type that was propagated in this round has them blacklisted already,  *)
(* so that it may be dropped; and a type that was tested is on its way if  *)
(* it, or a child of it, is a function.                                    *)
(***************************************************************************)
Marked == blacklisted_type_list \cup propagation_queue

PropagationInv ==
    /\ phase \notin {"blacklisting", "filtering", "explaining"} =>
          blacklisted_type_list = {} /\ propagation_queue = {}
    /\ phase \in {"filtering", "explaining"} => unchecked = {} /\ propagation_queue = {}
    /\ Marked # {} => Marked \subseteq Bannable(ast_context)
    /\ \A t \in blacklisted_type_list :
          t \in propagation_queue \/ parents[t] \subseteq blacklisted_type_list
    /\ propagation_queue # {} => \A t \in propagated_types :
          t \in blacklisted_type_list /\ parents[t] \subseteq blacklisted_type_list
    /\ phase \in {"blacklisting", "filtering", "explaining"} =>
          \A t \in type_dependency_tree \ unchecked :
             /\ IsFunction(ast_context, t) =>
                   t \in Marked \/ (TRUE \in StaleFront /\ Bare(t))
             /\ BannedChildren(t) # {} => t \in Marked

LEMMA PropagationInit == Init => PropagationInv
BY DEF Init, PropagationInv, Marked

(* A bare function type is the only function without a function child.     *)
LEMMA FunctionWithoutBannedChildren ==
    ASSUME TypeOK, TreeConsistent, ast_context \in ASTs,
           NEW t \in enumerated_type_list, IsFunction(ast_context, t), BannedChildren(t) = {}
    PROVE  Bare(t)
<1>1. ast_context \in TranslationUnits /\ t \in Type
  BY ASTsAssumption DEF TypeOK
<1>2. children[t] = ChildTypes(ast_context, t)
  BY <1>1 DEF TreeConsistent
<1>3. \A c \in ChildTypes(ast_context, t) : ~IsFunction(ast_context, c)
  BY <1>2 DEF BannedChildren
<1>4. ast_context.kind[t] = "Function"
  <2>1. CASE ast_context.kind[t] = "Pointer"
    BY <1>1, <1>3, <2>1 DEF IsFunction, ChildTypes
  <2> QED
    BY <2>1 DEF IsFunction
<1>5. ChildTypes(ast_context, t) = {ast_context.desugared[t]} \ {t}
  BY <1>4 DEF ChildTypes
<1>6. IsFunction(ast_context, ast_context.desugared[t])
  BY <1>1, <1>4, ASTsAssumption DEF IsFunction
<1> QED
  BY <1>3, <1>5, <1>6 DEF Bare

LEMMA PropagationStep ==
    TypeOK /\ TreeConsistent /\ PropagationInv /\ [Next]_vars => PropagationInv'
<1> SUFFICES ASSUME TypeOK, TreeConsistent, PropagationInv, [Next]_vars PROVE PropagationInv'
  OBVIOUS
<1> USE DEF PropagationInv
<1>1. ASSUME NEW tu \in ASTs, Initialize(tu) PROVE PropagationInv'
  BY <1>1 DEF Initialize, Marked, banVars
<1>2. ASSUME NEW f \in Function, VisitFunctionDecl(f) PROVE PropagationInv'
  BY <1>2 DEF VisitFunctionDecl, treeVars, banVars, Marked
<1>3. ASSUME NEW t \in Type, EnumerateRoot(t) \/ SkipKnownType(t) PROVE PropagationInv'
  BY <1>3 DEF EnumerateRoot, SkipKnownType, treeVars, banVars, Marked
<1>4. ASSUME NEW t \in Type, ExpandType(t) PROVE PropagationInv'
  BY <1>4 DEF ExpandType, banVars, Marked
<1>5. CASE SaveFunction \/ CollectClassesFails
  BY <1>5 DEF SaveFunction, CollectClassesFails, treeVars, banVars, Marked
<1>6. CASE BeginFinalize
  BY <1>6 DEF BeginFinalize, treeVars, Marked
<1>7. ASSUME NEW t \in Type, SkipBlacklisted(t) PROVE PropagationInv'
  BY <1>7 DEF SkipBlacklisted, treeVars, Marked, BannedChildren, Bare
<1>8. ASSUME NEW t \in Type, CheckType(t) PROVE PropagationInv'
  <2>1. /\ ast_context \in ASTs /\ ast_context' = ast_context /\ phase' = phase
        /\ children' = children /\ parents' = parents /\ propagation_queue = {}
        /\ type_dependency_tree' = type_dependency_tree
        /\ blacklisted_type_list' = blacklisted_type_list /\ propagated_types' = {}
        /\ unchecked' = unchecked \ {t} /\ t \in unchecked /\ phase = "blacklisting"
    BY <1>8 DEF CheckType, TypeOK, treeVars
  <2>2. ASSUME NEW c \in BannedChildren(t) PROVE c \in Type /\ IsFunction(ast_context, c) /\ c \in ChildTypes(ast_context, t)
    BY DEF BannedChildren, TypeOK, TreeConsistent
  <2>3. propagation_queue' \subseteq Bannable(ast_context)
    BY <1>8, <2>1, <2>2, BannableClosed DEF CheckType
  <2>4. t \in type_dependency_tree =>
          /\ IsFunction(ast_context, t) =>
                t \in propagation_queue' \/ (TRUE \in StaleFront /\ Bare(t))
          /\ BannedChildren(t) # {} => t \in propagation_queue'
    <3>1. CASE BannedChildren(t) # {}
      BY <1>8, <3>1 DEF CheckType
    <3>2. CASE BannedChildren(t) = {} /\ t \in type_dependency_tree
      <4>1. t \in enumerated_type_list
        BY <2>1, <3>2 DEF TreeConsistent
      <4>2. IsFunction(ast_context, t) => Bare(t)
        BY <2>1, <3>2, <4>1, FunctionWithoutBannedChildren
      <4>3. PICK stale \in StaleFront :
              propagation_queue' = IF IsFunction(ast_context, t) /\ ~stale THEN {t} ELSE {}
        BY <1>8, <3>2 DEF CheckType
      <4> QED
        BY <3>2, <4>2, <4>3, StaleFrontAssumption
    <3> QED
      BY <3>1, <3>2
  <2> QED
    BY <2>1, <2>3, <2>4 DEF Marked, BannedChildren, Bare
<1>9. ASSUME NEW t \in Type, Propagate(t) PROVE PropagationInv'
  <2>1. /\ ast_context \in ASTs /\ ast_context' = ast_context /\ phase' = phase
        /\ children' = children /\ parents' = parents /\ t \in propagation_queue
        /\ type_dependency_tree' = type_dependency_tree
        /\ unchecked' = unchecked /\ phase = "blacklisting"
    BY <1>9 DEF Propagate, TypeOK, treeVars
  <2>2. CASE t \in propagated_types
    BY <1>9, <2>1, <2>2 DEF Propagate, Marked, BannedChildren, Bare
  <2>3. CASE t \notin propagated_types
    <3>1. /\ propagated_types' = propagated_types \cup {t}
          /\ blacklisted_type_list' = blacklisted_type_list \cup {t} \cup parents[t]
          /\ propagation_queue' = (propagation_queue \ {t}) \cup Upward(t)
      BY <1>9, <2>3 DEF Propagate
    <3>2. \A s, p \in Type : p \in parents[s] => s \in ChildTypes(ast_context, p)
      BY <2>1 DEF TreeConsistent
    <3>3. \A s, p \in Type :
            s \in Bannable(ast_context) /\ p \in parents[s] => p \in Bannable(ast_context)
      BY <2>1, <3>2, BannableClosed
    <3>4. t \in Bannable(ast_context) /\ parents[t] \subseteq Type
      BY <2>1 DEF Marked, TypeOK
    <3>5. parents[t] \subseteq Bannable(ast_context)
      BY <3>3, <3>4
    <3>6. Upward(t) \subseteq Bannable(ast_context)
      <4>1. ASSUME NEW p \in parents[t] PROVE parents[p] \subseteq Bannable(ast_context)
        BY <3>3, <3>4, <3>5 DEF TypeOK
      <4> QED
        BY <3>5, <4>1 DEF Upward
    <3>7. Marked' \subseteq Bannable(ast_context)
      BY <2>1, <3>1, <3>4, <3>5, <3>6 DEF Marked
    <3>8. Marked \subseteq Marked' /\ parents[t] \subseteq Upward(t)
      BY <3>1 DEF Marked, Upward
    <3>9. \A s \in blacklisted_type_list' :
            s \in propagation_queue' \/ parents[s] \subseteq blacklisted_type_list'
      BY <3>1, <3>8
    <3>10. \A s \in propagated_types' :
            s \in blacklisted_type_list' /\ parents[s] \subseteq blacklisted_type_list'
      BY <2>1, <3>1
    <3> QED
      BY <2>1, <3>7, <3>8, <3>9, <3>10 DEF BannedChildren, Bare
  <2> QED
    BY <2>2, <2>3
<1>10. CASE RemoveDuplicates
  BY <1>10 DEF RemoveDuplicates, treeVars, banVars, Marked, BannedChildren, Bare
<1>11. ASSUME NEW f \in Function, JudgeFunction(f) \/ RejectFunction(f)
       PROVE  PropagationInv'
  <2>1. UNCHANGED <<ast_context, treeVars, banVars>> /\ phase' \in {"filtering", "explaining"}
    BY <1>11 DEF JudgeFunction, RejectFunction
  <2>2. phase = "filtering"
    BY <1>11 DEF JudgeFunction, RejectFunction
  <2> QED
    BY <2>1, <2>2 DEF treeVars, banVars, Marked, BannedChildren, Bare
<1>12. CASE DescendBadTypes \/ ReportBadTypes
  <2>1. UNCHANGED <<ast_context, treeVars, banVars>> /\ phase' \in {"filtering", "explaining"}
    BY <1>12 DEF DescendBadTypes, ReportBadTypes
  <2>2. phase = "explaining"
    BY <1>12 DEF DescendBadTypes, ReportBadTypes
  <2> QED
    BY <2>1, <2>2 DEF treeVars, banVars, Marked, BannedChildren, Bare
<1>13. CASE EndFinalize
  BY <1>13 DEF EndFinalize, treeVars, Marked
<1>14. CASE UNCHANGED vars
  BY <1>14 DEF vars, treeVars, banVars, Marked, BannedChildren, Bare
<1> QED
  BY <1>1, <1>2, <1>3, <1>4, <1>5, <1>6, <1>7, <1>8, <1>9, <1>10, <1>11, <1>12, <1>13, <1>14
     DEF Next, Step, EnumerationStep, FinalizeStep

(* Only types that lead to a function type are ever blacklisted.           *)
THEOREM BlacklistSoundness == Spec => []BlacklistSound
<1>1. PropagationInv => BlacklistSound
  BY DEF PropagationInv, Marked, BlacklistSound
<1> QED
  BY <1>1, TypeInit, TypeStep, TreeInit, TreeStep, PropagationInit, PropagationStep, PTL
     DEF Spec

LEMMA BlacklistImplied ==
    TypeOK /\ TreeConsistent /\ EnumerationInv /\ PropagationInv => BlacklistComplete
<1> SUFFICES ASSUME TypeOK, TreeConsistent, EnumerationInv, PropagationInv,
                    phase \in {"filtering", "explaining"}
             PROVE  type_dependency_tree \cap Bannable(ast_context) \subseteq
                      blacklisted_type_list \cup
                        {t \in Type : TRUE \in StaleFront /\ Bare(t)}
  BY DEF BlacklistComplete
<1> DEFINE missed == {t \in Type : TRUE \in StaleFront /\ Bare(t)}
           S == blacklisted_type_list \cup missed \cup (Type \ type_dependency_tree)
<1>1. ast_context \in ASTs /\ unchecked = {} /\ propagation_queue = {} /\ queue = {}
  BY DEF TypeOK, PropagationInv, TreeConsistent
<1>2. \A t \in type_dependency_tree : children[t] = ChildTypes(ast_context, t)
  BY <1>1 DEF TreeConsistent, TypeOK
<1>3. \A t \in type_dependency_tree :
        /\ IsFunction(ast_context, t) => t \in blacklisted_type_list \cup missed
        /\ BannedChildren(t) # {} => t \in blacklisted_type_list
  BY <1>1 DEF PropagationInv, Marked, TypeOK
<1>4. ASSUME NEW t \in type_dependency_tree, NEW c \in ChildTypes(ast_context, t), c \in S
      PROVE  t \in S
  <2>1. c \in type_dependency_tree /\ t \in Type /\ c \in Type /\ c \in children[t]
    BY <1>1, <1>2 DEF TreeConsistent, TypeOK
  <2>2. CASE c \in blacklisted_type_list
    <3>1. t \in parents[c]
      BY <2>1 DEF TreeConsistent
    <3>2. parents[c] \subseteq blacklisted_type_list
      BY <1>1, <2>2 DEF PropagationInv
    <3> QED
      BY <3>1, <3>2
  <2>3. CASE c \in missed
    <3>1. c \in BannedChildren(t)
      BY <2>1, <2>3 DEF Bare, BannedChildren
    <3> QED
      BY <1>3, <3>1
  <2> QED
    BY <1>4, <2>1, <2>2, <2>3
<1>5. ClosedUpward(ast_context, S)
  <2> SUFFICES ASSUME NEW t \in type_dependency_tree, t \in Type,
                      IsFunction(ast_context, t) \/ ChildTypes(ast_context, t) \cap S # {}
               PROVE  t \in S
    BY DEF ClosedUpward
  <2>1. CASE IsFunction(ast_context, t)
    BY <1>3, <2>1
  <2>2. CASE ChildTypes(ast_context, t) \cap S # {}
    BY <1>4, <2>2
  <2> QED
    BY <2>1, <2>2
<1>6. S \in SUBSET Type
  BY DEF TypeOK
<1>7. Bannable(ast_context) \subseteq S
  BY <1>1, <1>5, <1>6, BannableLeast
<1> QED
  BY <1>7

(* When the propagation is over, every type of the tree that leads to a    *)
(* function type is blacklisted; what front() of an empty queue can make   *)
(* the visitor miss are bare function types.                               *)
THEOREM BlacklistCompleteness == Spec => []BlacklistComplete
BY TypeInit, TypeStep, TreeInit, TreeStep, EnumerationInit, EnumerationStepInv,
   PropagationInit, PropagationStep, BlacklistImplied, PTL DEF Spec

-----------------------------------------------------------------------------
(* The verdicts.                                                           *)

(***************************************************************************)
(* The strengthening of NamesAccounted: a function that is left in the map *)
(* once duplicates are gone has a name of its own, and the one whose       *)
(* causes are looked for is one of them, with a bad dependency.            *)
(***************************************************************************)
NamesInv ==
    /\ phase \in {"filtering", "explaining"} => \A f \in DOMAIN function_map :
          /\ f \in ast_context.decls
          /\ \A g \in ast_context.decls :
                ast_context.mangled[g] = ast_context.mangled[f] => g = f
    /\ phase = "explaining" =>
          /\ decl \in DOMAIN function_map /\ decl \notin unfiltered
          /\ BadDependencies(decl) # {}
    /\ phase \notin {"enumerating", "explaining", "crashed"} => decl = NoFunction
    /\ phase \notin {"filtering", "explaining", "finalized"} =>
          blacklisted_function_list = {} /\ whitelisted_function_list = {}
    /\ NamesAccounted

LEMMA NamesInit == Init => NamesInv
BY DEF Init, NamesInv, NamesAccounted

(* The steps that come before the filter, and those that leave the results *)
(* and the pending functions as they are.                                  *)
LEMMA NamesUnchanged ==
    ASSUME NamesInv,
           UNCHANGED <<phase, ast_context, decl, function_map, unfiltered,
                       blacklisted_type_list, resultVars>>
    PROVE  NamesInv'
BY DEF NamesInv, NamesAccounted, BlacklistedNames, PendingNames, BadDependencies, resultVars

LEMMA NamesStep ==
    TypeOK /\ EnumerationInv /\ NamesInv /\ [Next]_vars => NamesInv'
<1> SUFFICES ASSUME TypeOK, EnumerationInv, NamesInv, [Next]_vars PROVE NamesInv'
  OBVIOUS
<1>1. ASSUME NEW tu \in ASTs, Initialize(tu) PROVE NamesInv'
  BY <1>1 DEF Initialize, ClearResults, NamesInv, NamesAccounted
<1>2. CASE EnumerationStep
  <2>1. /\ phase' \in {"visiting", "enumerating", "crashed"}
        /\ phase' = "visiting" => decl' = NoFunction
        /\ phase \in {"visiting", "enumerating"} /\ UNCHANGED resultVars
    BY <1>2 DEF EnumerationStep, VisitFunctionDecl, EnumerateRoot, SkipKnownType, ExpandType,
                SaveFunction, CollectClassesFails, filterVars, NamesInv
  <2> QED
    BY <2>1 DEF NamesInv, NamesAccounted, resultVars
<1>3. CASE BeginFinalize
  BY <1>3 DEF BeginFinalize, NamesInv, NamesAccounted, filterVars, resultVars
<1>4. ASSUME NEW t \in Type, SkipBlacklisted(t) \/ CheckType(t) \/ Propagate(t)
      PROVE  NamesInv'
  BY <1>4 DEF SkipBlacklisted, CheckType, Propagate, NamesInv, NamesAccounted, filterVars,
              resultVars
<1>5. CASE RemoveDuplicates
  <2> DEFINE kept == {f \in DOMAIN function_map : ast_context.mangled[f] \notin Clashing}
  <2>1. /\ ast_context \in TranslationUnits /\ ast_context' = ast_context
        /\ DOMAIN function_map = ast_context.decls /\ ast_context.decls \subseteq Function
        /\ decl' = NoFunction /\ whitelisted_function_list' = {} /\ phase' = "filtering"
        /\ unfiltered' = kept /\ DOMAIN function_map' = kept
    BY <1>5, ASTsAssumption
       DEF RemoveDuplicates, TypeOK, EnumerationInv, NamesInv, TranslationUnits
  <2>2. PICK first \in [Clashing -> Function] :
          /\ \A n \in Clashing : first[n] \in Named(n)
          /\ blacklisted_function_list' =
                {Blacklisted(first[n], "DuplicateName", Named(n) \ {first[n]}) :
                    n \in Clashing}
    BY <1>5 DEF RemoveDuplicates
  <2> DEFINE entry(n) == Blacklisted(first[n], "DuplicateName", Named(n) \ {first[n]})
  <2>3. \A n \in Clashing : entry(n).mangled_name = n
    BY <2>2 DEF Blacklisted, Named
  <2>entries. blacklisted_function_list' = {entry(n) : n \in Clashing}
    BY <2>2
  <2> HIDE DEF entry
  <2>4. BlacklistedNames' = Clashing
    <3>1. BlacklistedNames' = {e.mangled_name : e \in blacklisted_function_list'}
      BY DEF BlacklistedNames
    <3>2. ASSUME NEW n \in Clashing PROVE n \in BlacklistedNames'
      <4>1. entry(n) \in blacklisted_function_list' /\ entry(n).mangled_name = n
        BY <2>3, <2>entries
      <4> QED
        BY <3>1, <4>1
    <3>3. ASSUME NEW n \in BlacklistedNames' PROVE n \in Clashing
      <4>1. PICK e \in blacklisted_function_list' : e.mangled_name = n
        BY <3>1, <3>3
      <4> QED
        BY <2>3, <2>entries, <4>1
    <3> QED
      BY <3>2, <3>3
  <2>5. PendingNames' = {ast_context.mangled[f] : f \in kept}
    BY <2>1 DEF PendingNames
  <2>6. ASSUME NEW f \in kept, NEW g \in ast_context.decls,
               ast_context.mangled[g] = ast_context.mangled[f]
        PROVE  g = f
    <3>1. ast_context.mangled[f] \in Name
      BY <2>1 DEF TranslationUnits
    <3>2. f \in Named(ast_context.mangled[f]) /\ g \in Named(ast_context.mangled[f])
      BY <2>1, <2>6 DEF Named
    <3> QED
      BY <3>1, <3>2 DEF Clashing
  <2>7. \A d, e \in blacklisted_function_list' : d.mangled_name = e.mangled_name => d = e
    <3> SUFFICES ASSUME NEW d \in blacklisted_function_list',
                        NEW e \in blacklisted_function_list',
                        d.mangled_name = e.mangled_name
                 PROVE  d = e
      OBVIOUS
    <3>1. PICK m \in Clashing : d = entry(m)
      BY <2>entries
    <3>2. PICK n \in Clashing : e = entry(n)
      BY <2>entries
    <3> QED
      BY <2>3, <3>1, <3>2
  <2>8. Clashing \subseteq {ast_context.mangled[f] : f \in ast_context.decls}
    BY <2>1 DEF Clashing, Named
  <2>9. {ast_context.mangled[f] : f \in ast_context.decls} =
            Clashing \cup {ast_context.mangled[f] : f \in kept}
    BY <2>1, <2>8
  <2>10. Clashing \cap {ast_context.mangled[f] : f \in kept} = {}
    OBVIOUS
  <2>11. NamesAccounted'
    BY <2>1, <2>4, <2>5, <2>7, <2>9, <2>10 DEF NamesAccounted
  <2> QED
    BY <2>1, <2>6, <2>11 DEF NamesInv
<1>6. ASSUME NEW f \in Function, JudgeFunction(f) PROVE NamesInv'
  <2> DEFINE n == ast_context.mangled[f]
  <2>1. /\ UNCHANGED <<phase, ast_context, decl, function_map, blacklisted_type_list>>
        /\ phase = "filtering" /\ decl = NoFunction
        /\ f \in unfiltered /\ unfiltered' = unfiltered \ {f}
    BY <1>6 DEF JudgeFunction, NamesInv, banVars
  <2>2. \A g \in unfiltered : ast_context.mangled[g] = n => g = f
    BY <2>1 DEF TypeOK, NamesInv
  <2>3. PendingNames = {ast_context.mangled[g] : g \in unfiltered}
    BY <2>1 DEF PendingNames
  <2>4. PendingNames' = {ast_context.mangled[g] : g \in unfiltered \ {f}}
    BY <2>1 DEF PendingNames
  <2>5. n \in PendingNames /\ PendingNames' = PendingNames \ {n}
    BY <2>1, <2>2, <2>3, <2>4
  <2>6. NamesAccounted /\ n \notin BlacklistedNames \cup whitelisted_function_list
    BY <2>1, <2>5 DEF NamesInv, NamesAccounted
  <2>7. \/ /\ \E reason \in Reason : blacklisted_function_list' =
                  blacklisted_function_list \cup {Blacklisted(f, reason, {})}
           /\ UNCHANGED whitelisted_function_list
        \/ /\ whitelisted_function_list' = whitelisted_function_list \cup {n}
           /\ UNCHANGED blacklisted_function_list
    BY <1>6 DEF JudgeFunction, Reason
  <2>8. NamesAccounted'
    <3>1. CASE whitelisted_function_list' = whitelisted_function_list \cup {n}
               /\ UNCHANGED blacklisted_function_list
      BY <2>1, <2>5, <2>6, <3>1 DEF NamesAccounted, BlacklistedNames
    <3>2. ASSUME NEW reason \in Reason, UNCHANGED whitelisted_function_list,
                 blacklisted_function_list' =
                    blacklisted_function_list \cup {Blacklisted(f, reason, {})}
          PROVE  NamesAccounted'
      <4>1. Blacklisted(f, reason, {}).mangled_name = n
        BY DEF Blacklisted
      <4>2. BlacklistedNames' = BlacklistedNames \cup {n}
        BY <3>2, <4>1 DEF BlacklistedNames
      <4>3. \A d, e \in blacklisted_function_list' :
                d.mangled_name = e.mangled_name => d = e
        BY <2>1, <2>6, <3>2, <4>1 DEF NamesAccounted, BlacklistedNames
      <4> QED
        BY <2>1, <2>5, <2>6, <3>2, <4>2, <4>3 DEF NamesAccounted
    <3> QED
      BY <2>7, <3>1, <3>2
  <2> QED
    BY <2>1, <2>8 DEF NamesInv
<1>7. ASSUME NEW f \in Function, RejectFunction(f) PROVE NamesInv'
  <2>1. /\ UNCHANGED <<ast_context, function_map, blacklisted_type_list, resultVars>>
        /\ phase = "filtering" /\ phase' = "explaining" /\ decl = NoFunction /\ decl' = f
        /\ f \in unfiltered /\ unfiltered' = unfiltered \ {f} /\ BadDependencies(f) # {}
    BY <1>7 DEF RejectFunction, NamesInv, banVars
  <2>2. PendingNames' = PendingNames
    BY <2>1, NoFunctionAssumption DEF PendingNames
  <2>3. NamesAccounted'
    BY <2>1, <2>2 DEF NamesInv, NamesAccounted, BlacklistedNames, resultVars
  <2> QED
    BY <2>1, <2>3 DEF NamesInv, TypeOK, BadDependencies
<1>8. CASE DescendBadTypes
  BY <1>8, NamesUnchanged DEF DescendBadTypes, banVars
<1>9. CASE ReportBadTypes
  <2> DEFINE n == ast_context.mangled[decl]
  <2>1. /\ UNCHANGED <<ast_context, function_map, unfiltered, blacklisted_type_list,
                       whitelisted_function_list>>
        /\ phase = "explaining" /\ phase' = "filtering" /\ decl' = NoFunction
        /\ decl \in DOMAIN function_map /\ decl \notin unfiltered /\ decl # NoFunction
        /\ blacklisted_function_list' = blacklisted_function_list \cup {CauseEntry}
    BY <1>9, NoFunctionAssumption DEF ReportBadTypes, NamesInv, banVars, TypeOK
  <2>2. \A g \in unfiltered : ast_context.mangled[g] # n
    BY <2>1 DEF TypeOK, NamesInv
  <2>3. PendingNames = {ast_context.mangled[g] : g \in unfiltered} \cup {n}
    BY <2>1 DEF PendingNames
  <2>4. PendingNames' = {ast_context.mangled[g] : g \in unfiltered}
    BY <2>1 DEF PendingNames
  <2>5. n \in PendingNames /\ PendingNames' = PendingNames \ {n}
    BY <2>2, <2>3, <2>4
  <2>6. NamesAccounted /\ n \notin BlacklistedNames \cup whitelisted_function_list
    BY <2>1, <2>5 DEF NamesInv, NamesAccounted
  <2>7. CauseEntry.mangled_name = n
    BY DEF CauseEntry, Blacklisted
  <2>8. BlacklistedNames' = BlacklistedNames \cup {n}
    BY <2>1, <2>7 DEF BlacklistedNames
  <2>9. \A d, e \in blacklisted_function_list' : d.mangled_name = e.mangled_name => d = e
    BY <2>1, <2>6, <2>7 DEF NamesAccounted, BlacklistedNames
  <2>10. NamesAccounted'
    BY <2>1, <2>5, <2>6, <2>8, <2>9 DEF NamesAccounted
  <2> QED
    BY <2>1, <2>10 DEF NamesInv
<1>10. CASE EndFinalize
  BY <1>10 DEF EndFinalize, NamesInv, NamesAccounted, BlacklistedNames, PendingNames,
               filterVars, resultVars
<1>11. CASE UNCHANGED vars
  BY <1>11, NamesUnchanged DEF vars, banVars, filterVars
<1> QED
  BY <1>1, <1>2, <1>3, <1>4, <1>5, <1>6, <1>7, <1>8, <1>9, <1>10, <1>11
     DEF Next, Step, FinalizeStep

(* At each step of the filter, every declared name is blacklisted, is      *)
(* whitelisted or is pending: exactly one of the three.                    *)
THEOREM NamesCorrect == Spec => []NamesAccounted
<1>1. NamesInv => NamesAccounted
  BY DEF NamesInv
<1> QED
  BY <1>1, TypeInit, TypeStep, TreeInit, TreeStep, EnumerationInit, EnumerationStepInv,
     NamesInit, NamesStep, PTL DEF Spec

(* What the rules say of a declaration that has its name for itself, and   *)
(* of one that shares it.                                                  *)
LEMMA VerdictUnique ==
    ASSUME NEW tu, NEW f \in tu.decls,
           \A g \in tu.decls : tu.mangled[g] = tu.mangled[f] => g = f
    PROVE  Verdict(tu, tu.mangled[f]) = FunctionVerdict(tu, f)
<1>1. Declared(tu, tu.mangled[f]) = {f}
  BY DEF Declared
<1>2. (CHOOSE g \in Declared(tu, tu.mangled[f]) : TRUE) = f
  BY <1>1
<1> QED
  BY <1>1, <1>2 DEF Verdict

LEMMA VerdictDuplicate ==
    ASSUME NEW tu, NEW g \in tu.decls, NEW h \in tu.decls, g # h,
           tu.mangled[g] = tu.mangled[h]
    PROVE  Verdict(tu, tu.mangled[g]) = "DuplicateName"
<1>1. g \in Declared(tu, tu.mangled[g]) /\ h \in Declared(tu, tu.mangled[g])
  BY DEF Declared
<1> QED
  BY <1>1 DEF Verdict

(* A function the filter judges is bad for the visitor when it is bad for  *)
(* the rules.                                                              *)
LEMMA BadDependenciesExact ==
    ASSUME TypeOK, EnumerationInv, BlacklistSound, BlacklistComplete, TRUE \notin StaleFront,
           phase \in {"filtering", "explaining"}, NEW f \in DOMAIN function_map
    PROVE  BadDependencies(f) = Dependencies(ast_context, f) \cap Bannable(ast_context)
<1>1. function_map[f] = Dependencies(ast_context, f)
      /\ function_map[f] \subseteq type_dependency_tree
  BY DEF EnumerationInv
<1>2. blacklisted_type_list \subseteq Bannable(ast_context)
  BY DEF BlacklistSound
<1>3. type_dependency_tree \cap Bannable(ast_context) \subseteq blacklisted_type_list
  BY DEF BlacklistComplete
<1> QED
  BY <1>1, <1>2, <1>3 DEF BadDependencies

LEMMA VerdictsInit == Init => VerdictsSound
BY DEF Init, VerdictsSound

LEMMA VerdictsStep ==
    ASSUME TRUE \notin StaleFront
    PROVE  TypeOK /\ EnumerationInv /\ NamesInv /\ BlacklistSound /\ BlacklistComplete
              /\ VerdictsSound /\ [Next]_vars => VerdictsSound'
<1> SUFFICES ASSUME TypeOK, EnumerationInv, NamesInv, BlacklistSound, BlacklistComplete,
                    VerdictsSound, [Next]_vars
             PROVE  VerdictsSound'
  OBVIOUS
<1>1. ASSUME NEW tu \in ASTs, Initialize(tu) PROVE VerdictsSound'
  BY <1>1 DEF Initialize, ClearResults, VerdictsSound
<1>2. CASE EnumerationStep
  <2>1. UNCHANGED <<ast_context, resultVars>>
    BY <1>2 DEF EnumerationStep, VisitFunctionDecl, EnumerateRoot, SkipKnownType, ExpandType,
                SaveFunction, CollectClassesFails, filterVars
  <2> QED
    BY <2>1 DEF VerdictsSound, resultVars
<1>3. CASE BeginFinalize \/ EndFinalize \/ DescendBadTypes
           \/ (\E t \in Type : SkipBlacklisted(t) \/ CheckType(t) \/ Propagate(t))
           \/ (\E f \in Function : RejectFunction(f)) \/ UNCHANGED vars
  <2>1. UNCHANGED <<ast_context, resultVars>>
    BY <1>3 DEF BeginFinalize, EndFinalize, DescendBadTypes, SkipBlacklisted, CheckType,
                Propagate, RejectFunction, filterVars, vars
  <2> QED
    BY <2>1 DEF VerdictsSound, resultVars
<1>4. CASE RemoveDuplicates
  <2>1. DOMAIN function_map = ast_context.decls /\ ast_context' = ast_context
        /\ whitelisted_function_list' = {}
    BY <1>4 DEF RemoveDuplicates, EnumerationInv, NamesInv
  <2>2. PICK first \in [Clashing -> Function] :
          /\ \A n \in Clashing : first[n] \in Named(n)
          /\ blacklisted_function_list' =
                {Blacklisted(first[n], "DuplicateName", Named(n) \ {first[n]}) :
                    n \in Clashing}
    BY <1>4 DEF RemoveDuplicates
  <2>3. ASSUME NEW n \in Clashing PROVE Verdict(ast_context, n) = "DuplicateName"
    <3>1. PICK g, h \in Named(n) : g # h
      BY DEF Clashing
    <3>2. /\ g \in ast_context.decls /\ h \in ast_context.decls
          /\ ast_context.mangled[g] = n /\ ast_context.mangled[h] = n
      BY <2>1, <3>1 DEF Named
    <3> QED
      BY <3>1, <3>2, VerdictDuplicate
  <2>4. ASSUME NEW e \in blacklisted_function_list'
        PROVE  e.reason = Verdict(ast_context, e.mangled_name)
    <3>1. PICK n \in Clashing :
            e = Blacklisted(first[n], "DuplicateName", Named(n) \ {first[n]})
      BY <2>2
    <3>2. e.reason = "DuplicateName" /\ e.mangled_name = n
      BY <2>2, <3>1 DEF Blacklisted, Named
    <3> QED
      BY <2>3, <3>2
  <2> QED
    BY <2>1, <2>4 DEF VerdictsSound
<1>5. ASSUME NEW f \in Function, JudgeFunction(f) PROVE VerdictsSound'
  <2> DEFINE n == ast_context.mangled[f]
  <2>1. phase = "filtering" /\ f \in unfiltered /\ BadDependencies(f) = {}
        /\ ast_context' = ast_context /\ f \in DOMAIN function_map
    BY <1>5 DEF JudgeFunction, TypeOK
  <2>2. /\ f \in ast_context.decls
        /\ \A g \in ast_context.decls : ast_context.mangled[g] = n => g = f
    BY <2>1 DEF NamesInv
  <2>3. Dependencies(ast_context, f) \cap Bannable(ast_context) = {}
    BY <2>1, BadDependenciesExact
  <2>4. Verdict(ast_context, n) = IF f \in ast_context.variadic THEN "Variadic"
                                  ELSE IF f \in ast_context.templated THEN "Templated"
                                  ELSE "Whitelisted"
    BY <2>2, <2>3, VerdictUnique DEF FunctionVerdict
  <2>5. ASSUME NEW reason \in Reason, Verdict(ast_context, n) = reason,
               UNCHANGED whitelisted_function_list,
               blacklisted_function_list' =
                  blacklisted_function_list \cup {Blacklisted(f, reason, {})}
        PROVE  VerdictsSound'
    <3>1. /\ Blacklisted(f, reason, {}).mangled_name = n
          /\ Blacklisted(f, reason, {}).reason = reason
      BY DEF Blacklisted
    <3> QED
      BY <2>1, <2>5, <3>1 DEF VerdictsSound
  <2>6. CASE f \in ast_context.variadic
    BY <1>5, <2>4, <2>5, <2>6 DEF JudgeFunction, Reason
  <2>7. CASE f \in ast_context.templated \ ast_context.variadic
    BY <1>5, <2>4, <2>5, <2>7 DEF JudgeFunction, Reason
  <2>8. CASE f \notin ast_context.templated \cup ast_context.variadic
    <3>1. whitelisted_function_list' = whitelisted_function_list \cup {n}
          /\ UNCHANGED blacklisted_function_list
      BY <1>5, <2>8 DEF JudgeFunction
    <3> QED
      BY <2>1, <2>4, <2>8, <3>1 DEF VerdictsSound
  <2> QED
    BY <2>6, <2>7, <2>8
<1>6. CASE ReportBadTypes
  <2>1. phase = "explaining" /\ ast_context' = ast_context /\ UNCHANGED whitelisted_function_list
        /\ blacklisted_function_list' = blacklisted_function_list \cup {CauseEntry}
        /\ decl \in DOMAIN function_map /\ BadDependencies(decl) # {}
    BY <1>6 DEF ReportBadTypes, NamesInv
  <2>2. /\ decl \in ast_context.decls
        /\ \A g \in ast_context.decls :
              ast_context.mangled[g] = ast_context.mangled[decl] => g = decl
    BY <2>1 DEF NamesInv
  <2>3. Dependencies(ast_context, decl) \cap Bannable(ast_context) # {}
    BY <2>1, BadDependenciesExact
  <2>4. Verdict(ast_context, ast_context.mangled[decl]) = "FunctionPointer"
    BY <2>2, <2>3, VerdictUnique DEF FunctionVerdict
  <2>5. CauseEntry.mangled_name = ast_context.mangled[decl]
        /\ CauseEntry.reason = "FunctionPointer"
    BY DEF CauseEntry, Blacklisted
  <2> QED
    BY <2>1, <2>4, <2>5 DEF VerdictsSound
<1> QED
  BY <1>1, <1>2, <1>3, <1>4, <1>5, <1>6 DEF Next, Step, FinalizeStep

(* When front() of an empty queue is harmless, every verdict is the one    *)
(* the rules give: no function that depends on a type that leads to a      *)
(* function type is ever whitelisted, in whatever order the containers are *)
(* walked.                                                                 *)
THEOREM VerdictsCorrect == (TRUE \notin StaleFront) => (Spec => []VerdictsSound)
<1> SUFFICES ASSUME TRUE \notin StaleFront PROVE Spec => []VerdictsSound
  OBVIOUS
<1>1. TypeOK /\ EnumerationInv /\ NamesInv /\ BlacklistSound /\ BlacklistComplete
         /\ VerdictsSound /\ [Next]_vars => VerdictsSound'
  BY VerdictsStep
<1>2. NamesInv => NamesAccounted
  BY DEF NamesInv
<1> QED
  BY <1>1, TypeInit, TypeStep, TreeInit, TreeStep, EnumerationInit, EnumerationStepInv,
     NamesInit, NamesStep, BlacklistSoundness, BlacklistCompleteness, VerdictsInit, PTL
     DEF Spec

-----------------------------------------------------------------------------
(* The verdicts when front() of an empty queue may return anything.        *)

(* What the filter takes for bad is bad, and what it misses is bare.       *)
LEMMA BadDependenciesBounded ==
    ASSUME TypeOK, EnumerationInv, BlacklistSound, BlacklistComplete,
           phase \in {"filtering", "explaining"}, NEW f \in DOMAIN function_map
    PROVE  /\ BadDependencies(f) \subseteq Dependencies(ast_context, f) \cap Bannable(ast_context)
           /\ \A t \in Dependencies(ast_context, f) \cap Bannable(ast_context) :
                 t \in BadDependencies(f) \/ (TRUE \in StaleFront /\ Bare(t))
<1>1. function_map[f] = Dependencies(ast_context, f)
      /\ function_map[f] \subseteq type_dependency_tree
  BY DEF EnumerationInv
<1>2. blacklisted_type_list # {} => blacklisted_type_list \subseteq Bannable(ast_context)
  BY DEF BlacklistSound
<1>3. \A t \in type_dependency_tree \cap Bannable(ast_context) :
         t \in blacklisted_type_list \/ (TRUE \in StaleFront /\ Bare(t))
  BY DEF BlacklistComplete
<1> QED
  BY <1>1, <1>2, <1>3 DEF BadDependencies

LEMMA BoundedInit == Init => VerdictsBounded
BY DEF Init, VerdictsBounded

LEMMA BoundedUnchanged ==
    ASSUME VerdictsBounded, UNCHANGED <<ast_context, resultVars>>
    PROVE  VerdictsBounded'
BY DEF VerdictsBounded, OnlyBareFunctions, Bare, resultVars

(* One more entry, or one more whitelisted name.                           *)
LEMMA BoundedEntry ==
    ASSUME VerdictsBounded, ast_context' = ast_context, NEW f, NEW reason, NEW data,
           \/ reason = Verdict(ast_context, ast_context.mangled[f])
           \/ OnlyBareFunctions(f),
           UNCHANGED whitelisted_function_list,
           blacklisted_function_list' =
              blacklisted_function_list \cup {Blacklisted(f, reason, data)}
    PROVE  VerdictsBounded'
<1>1. /\ Blacklisted(f, reason, data).mangled_name = ast_context.mangled[f]
      /\ Blacklisted(f, reason, data).reason = reason
      /\ Blacklisted(f, reason, data).decl = f
  BY DEF Blacklisted
<1>2. \A g : OnlyBareFunctions(g)' <=> OnlyBareFunctions(g)
  BY DEF OnlyBareFunctions, Bare
<1> QED
  BY <1>1, <1>2 DEF VerdictsBounded

LEMMA BoundedStep ==
    TypeOK /\ EnumerationInv /\ NamesInv /\ BlacklistSound /\ BlacklistComplete
       /\ VerdictsBounded /\ [Next]_vars => VerdictsBounded'
<1> SUFFICES ASSUME TypeOK, EnumerationInv, NamesInv, BlacklistSound, BlacklistComplete,
                    VerdictsBounded, [Next]_vars
             PROVE  VerdictsBounded'
  OBVIOUS
<1>1. ASSUME NEW tu \in ASTs, Initialize(tu) PROVE VerdictsBounded'
  BY <1>1 DEF Initialize, ClearResults, VerdictsBounded
<1>2. CASE EnumerationStep
  <2>1. UNCHANGED <<ast_context, resultVars>>
    BY <1>2 DEF EnumerationStep, VisitFunctionDecl, EnumerateRoot, SkipKnownType, ExpandType,
                SaveFunction, CollectClassesFails, filterVars
  <2> QED
    BY <2>1, BoundedUnchanged
<1>3. CASE BeginFinalize \/ EndFinalize \/ DescendBadTypes
           \/ (\E t \in Type : SkipBlacklisted(t) \/ CheckType(t) \/ Propagate(t))
           \/ (\E f \in Function : RejectFunction(f)) \/ UNCHANGED vars
  <2>1. UNCHANGED <<ast_context, resultVars>>
    BY <1>3 DEF BeginFinalize, EndFinalize, DescendBadTypes, SkipBlacklisted, CheckType,
                Propagate, RejectFunction, filterVars, vars
  <2> QED
    BY <2>1, BoundedUnchanged
<1>4. CASE RemoveDuplicates
  <2>1. DOMAIN function_map = ast_context.decls /\ ast_context' = ast_context
        /\ whitelisted_function_list' = {}
    BY <1>4 DEF RemoveDuplicates, EnumerationInv, NamesInv
  <2>2. PICK first \in [Clashing -> Function] :
          /\ \A n \in Clashing : first[n] \in Named(n)
          /\ blacklisted_function_list' =
                {Blacklisted(first[n], "DuplicateName", Named(n) \ {first[n]}) :
                    n \in Clashing}
    BY <1>4 DEF RemoveDuplicates
  <2>3. ASSUME NEW n \in Clashing PROVE Verdict(ast_context, n) = "DuplicateName"
    <3>1. PICK g, h \in Named(n) : g # h
      BY DEF Clashing
    <3>2. /\ g \in ast_context.decls /\ h \in ast_context.decls
          /\ ast_context.mangled[g] = n /\ ast_context.mangled[h] = n
      BY <2>1, <3>1 DEF Named
    <3> QED
      BY <3>1, <3>2, VerdictDuplicate
  <2>4. ASSUME NEW e \in blacklisted_function_list'
        PROVE  e.reason = Verdict(ast_context, e.mangled_name)
    <3>1. PICK n \in Clashing :
            e = Blacklisted(first[n], "DuplicateName", Named(n) \ {first[n]})
      BY <2>2
    <3>2. e.reason = "DuplicateName" /\ e.mangled_name = n
      BY <2>2, <3>1 DEF Blacklisted, Named
    <3> QED
      BY <2>3, <3>2
  <2> QED
    BY <2>1, <2>4 DEF VerdictsBounded
<1>5. ASSUME NEW f \in Function, JudgeFunction(f) PROVE VerdictsBounded'
  <2> DEFINE n == ast_context.mangled[f]
  <2>1. phase = "filtering" /\ f \in unfiltered /\ BadDependencies(f) = {}
        /\ ast_context' = ast_context /\ f \in DOMAIN function_map
    BY <1>5 DEF JudgeFunction, TypeOK
  <2>2. /\ f \in ast_context.decls
        /\ \A g \in ast_context.decls : ast_context.mangled[g] = n => g = f
    BY <2>1 DEF NamesInv
  <2>3. \A t \in Dependencies(ast_context, f) \cap Bannable(ast_context) : Bare(t)
    BY <2>1, BadDependenciesBounded
  <2>4. CASE Dependencies(ast_context, f) \cap Bannable(ast_context) = {}
    <3>1. Verdict(ast_context, n) = IF f \in ast_context.variadic THEN "Variadic"
                                    ELSE IF f \in ast_context.templated THEN "Templated"
                                    ELSE "Whitelisted"
      BY <2>2, <2>4, VerdictUnique DEF FunctionVerdict
    <3>2. CASE f \in ast_context.variadic
      BY <1>5, <2>1, <3>1, <3>2, BoundedEntry DEF JudgeFunction
    <3>3. CASE f \in ast_context.templated \ ast_context.variadic
      BY <1>5, <2>1, <3>1, <3>3, BoundedEntry DEF JudgeFunction
    <3>4. CASE f \notin ast_context.templated \cup ast_context.variadic
      <4>1. whitelisted_function_list' = whitelisted_function_list \cup {n}
            /\ UNCHANGED blacklisted_function_list
        BY <1>5, <3>4 DEF JudgeFunction
      <4>2. \A g : OnlyBareFunctions(g)' <=> OnlyBareFunctions(g)
        BY <2>1 DEF OnlyBareFunctions, Bare
      <4> QED
        BY <2>1, <3>1, <3>4, <4>1, <4>2 DEF VerdictsBounded
    <3> QED
      BY <3>2, <3>3, <3>4
  <2>5. CASE Dependencies(ast_context, f) \cap Bannable(ast_context) # {}
    <3>1. OnlyBareFunctions(f)
      BY <2>3, <2>5 DEF OnlyBareFunctions
    <3>2. CASE UNCHANGED whitelisted_function_list
      <4>1. PICK reason \in {"Variadic", "Templated"} :
              blacklisted_function_list' =
                 blacklisted_function_list \cup {Blacklisted(f, reason, {})}
        <5>1. CASE f \in ast_context.templated \cup ast_context.variadic
          BY <1>5, <5>1 DEF JudgeFunction
        <5>2. CASE f \notin ast_context.templated \cup ast_context.variadic
          <6>1. n \in whitelisted_function_list
            BY <1>5, <3>2, <5>2 DEF JudgeFunction
          <6>2. n \in PendingNames
            BY <2>1 DEF PendingNames
          <6> QED
            BY <2>1, <6>1, <6>2 DEF NamesInv, NamesAccounted
        <5> QED
          BY <5>1, <5>2
      <4> QED
        BY <2>1, <3>1, <3>2, <4>1, BoundedEntry
    <3>3. CASE whitelisted_function_list' # whitelisted_function_list
      <4>1. whitelisted_function_list' = whitelisted_function_list \cup {n}
            /\ UNCHANGED blacklisted_function_list
        BY <1>5, <3>3 DEF JudgeFunction
      <4>2. f \in Declared(ast_context, n)
        BY <2>2 DEF Declared
      <4>3. \A g : OnlyBareFunctions(g)' <=> OnlyBareFunctions(g)
        BY <2>1 DEF OnlyBareFunctions, Bare
      <4> QED
        BY <2>1, <3>1, <4>1, <4>2, <4>3 DEF VerdictsBounded
    <3> QED
      BY <3>2, <3>3
  <2> QED
    BY <2>4, <2>5
<1>6. CASE ReportBadTypes
  <2>1. phase = "explaining" /\ ast_context' = ast_context /\ UNCHANGED whitelisted_function_list
        /\ blacklisted_function_list' = blacklisted_function_list \cup {CauseEntry}
        /\ decl \in DOMAIN function_map /\ BadDependencies(decl) # {}
    BY <1>6 DEF ReportBadTypes, NamesInv
  <2>2. /\ decl \in ast_context.decls
        /\ \A g \in ast_context.decls :
              ast_context.mangled[g] = ast_context.mangled[decl] => g = decl
    BY <2>1 DEF NamesInv
  <2>3. Dependencies(ast_context, decl) \cap Bannable(ast_context) # {}
    BY <2>1, BadDependenciesBounded
  <2>4. Verdict(ast_context, ast_context.mangled[decl]) = "FunctionPointer"
    BY <2>2, <2>3, VerdictUnique DEF FunctionVerdict
  <2> QED
    BY <2>1, <2>4, BoundedEntry DEF CauseEntry
<1> QED
  BY <1>1, <1>2, <1>3, <1>4, <1>5, <1>6 DEF Next, Step, FinalizeStep

(* Whatever front() of an empty queue returns, no function is whitelisted  *)
(* that is given a pointer to a function, or a type that leads to one: the *)
(* only wrong verdicts are on functions that are given function types by   *)
(* value and nothing else that is bad.                                     *)
THEOREM VerdictsBoundedAlways == Spec => []VerdictsBounded
<1>1. NamesInv => NamesAccounted
  BY DEF NamesInv
<1> QED
  BY <1>1, TypeInit, TypeStep, TreeInit, TreeStep, EnumerationInit, EnumerationStepInv,
     NamesInit, NamesStep, BlacklistSoundness, BlacklistCompleteness, BoundedInit,
     BoundedStep, PTL DEF Spec

-----------------------------------------------------------------------------
(* What the verdicts mean, in terms of the paths from a function.          *)

(* The types that are reached from those of R by going from a type to its  *)
(* child types.                                                            *)
Reached(tu, R) ==
    {t \in Type : \A S \in SUBSET Type :
        R \subseteq S /\ (\A s \in S : ChildTypes(tu, s) \subseteq S) => t \in S}

LEMMA ReachedClosed ==
    ASSUME NEW tu \in ASTs, NEW R \in SUBSET Type
    PROVE  /\ R \subseteq Reached(tu, R)
           /\ \A t \in Reached(tu, R) : ChildTypes(tu, t) \subseteq Reached(tu, R)
<1>1. R \subseteq Reached(tu, R)
  BY DEF Reached
<1>2. ASSUME NEW t \in Reached(tu, R), NEW c \in ChildTypes(tu, t)
      PROVE  c \in Reached(tu, R)
  <2>1. t \in Type /\ c \in Type
    BY ChildTypesType DEF Reached
  <2>2. ASSUME NEW S \in SUBSET Type, R \subseteq S, \A s \in S : ChildTypes(tu, s) \subseteq S
        PROVE  c \in S
    BY <2>2 DEF Reached
  <2> QED
    BY <2>1, <2>2 DEF Reached
<1> QED
  BY <1>1, <1>2

(* The rule of the verdicts goes up, from the function types to the types  *)
(* that hold them; a caller goes down, from the parameters.  They agree: a *)
(* bad type is among the first exactly when a function type is reached.    *)
LEMMA BannableReaches ==
    ASSUME NEW tu \in ASTs, NEW R \in SUBSET Type
    PROVE  R \cap Bannable(tu) # {} <=> \E t \in Reached(tu, R) : IsFunction(tu, t)
<1>1. ASSUME R \cap Bannable(tu) = {}, NEW t \in Reached(tu, R)
      PROVE  ~IsFunction(tu, t)
  <2> DEFINE S == Type \ Bannable(tu)
  <2>1. ASSUME NEW s \in S, NEW c \in ChildTypes(tu, s) PROVE c \in S
    <3>1. c \in Type
      BY ChildTypesType
    <3>2. c \in Bannable(tu) => s \in Bannable(tu)
      BY BannableClosed DEF ClosedUpward
    <3> QED
      BY <3>1, <3>2
  <2>2. S \in SUBSET Type /\ R \subseteq S
    BY <1>1
  <2> HIDE DEF S
  <2>3. t \in S /\ t \in Type
    BY <2>1, <2>2 DEF Reached
  <2>4. t \notin Bannable(tu)
    BY <2>3 DEF S
  <2> QED
    BY <2>3, <2>4, BannableClosed DEF ClosedUpward
<1>2. ASSUME \A t \in Reached(tu, R) : ~IsFunction(tu, t)
      PROVE  R \cap Bannable(tu) = {}
  <2> DEFINE S == Type \ Reached(tu, R)
  <2>1. ClosedUpward(tu, S)
    <3> SUFFICES ASSUME NEW t \in Type, IsFunction(tu, t) \/ ChildTypes(tu, t) \cap S # {}
                 PROVE  t \in S
      BY DEF ClosedUpward
    <3>1. t \notin Reached(tu, R)
      BY <1>2, ReachedClosed
    <3> QED
      BY <3>1
  <2>2. Bannable(tu) \subseteq S
    BY <2>1, BannableLeast
  <2> QED
    BY <2>2, ReachedClosed
<1> QED
  BY <1>1, <1>2

WhitelistReachesNone ==
    \A n \in whitelisted_function_list : \A f \in Declared(ast_context, n) :
        \A t \in Reached(ast_context, Dependencies(ast_context, f)) :
            ~IsFunction(ast_context, t)

RejectionsReachOne ==
    \A e \in blacklisted_function_list : e.reason = "FunctionPointer" =>
        \E f \in Declared(ast_context, e.mangled_name) :
            \E t \in Reached(ast_context, Dependencies(ast_context, f)) :
                IsFunction(ast_context, t)

(* When front() of an empty queue is harmless: no function type is reached *)
(* from what a whitelisted function is given, through any chain of         *)
(* pointers, fields and parameters; and one is, for every function that is *)
(* blacklisted for its types.                                              *)
THEOREM NoCallbackWhitelisted ==
    (TRUE \notin StaleFront) => (Spec => [](WhitelistReachesNone /\ RejectionsReachOne))
<1> SUFFICES ASSUME TRUE \notin StaleFront
             PROVE  Spec => [](WhitelistReachesNone /\ RejectionsReachOne)
  OBVIOUS
<1>1. ASSUME TypeOK, NamesInv, VerdictsSound
      PROVE  WhitelistReachesNone /\ RejectionsReachOne
  <2>1. CASE phase \notin {"filtering", "explaining", "finalized"}
    BY <1>1, <2>1 DEF NamesInv, WhitelistReachesNone, RejectionsReachOne
  <2>2. CASE phase \in {"filtering", "explaining", "finalized"}
    <3>1. ast_context \in ASTs /\ ast_context.decls \subseteq Function
      BY <1>1, <2>2, ASTsAssumption DEF TypeOK, TranslationUnits
    <3>2. ASSUME NEW n, NEW f \in Declared(ast_context, n),
                 Verdict(ast_context, n) # "DuplicateName"
          PROVE  /\ Verdict(ast_context, n) = FunctionVerdict(ast_context, f)
                 /\ Dependencies(ast_context, f) \in SUBSET Type
      <4>1. f \in ast_context.decls /\ ast_context.mangled[f] = n
        BY DEF Declared
      <4>2. \A g \in ast_context.decls : ast_context.mangled[g] = n => g = f
        BY <3>2, <4>1, VerdictDuplicate
      <4> QED
        BY <3>1, <4>1, <4>2, VerdictUnique, DependenciesType
    <3>3. WhitelistReachesNone
      <4> SUFFICES ASSUME NEW n \in whitelisted_function_list,
                          NEW f \in Declared(ast_context, n),
                          NEW t \in Reached(ast_context, Dependencies(ast_context, f))
                   PROVE  ~IsFunction(ast_context, t)
        BY DEF WhitelistReachesNone
      <4>1. Verdict(ast_context, n) = "Whitelisted"
        BY <1>1 DEF VerdictsSound
      <4>2. Dependencies(ast_context, f) \cap Bannable(ast_context) = {}
        BY <3>2, <4>1 DEF FunctionVerdict
      <4> QED
        BY <3>1, <3>2, <4>1, <4>2, BannableReaches
    <3>4. RejectionsReachOne
      <4> SUFFICES ASSUME NEW e \in blacklisted_function_list, e.reason = "FunctionPointer"
                   PROVE  \E f \in Declared(ast_context, e.mangled_name) :
                             \E t \in Reached(ast_context, Dependencies(ast_context, f)) :
                                IsFunction(ast_context, t)
        BY DEF RejectionsReachOne
      <4>1. Verdict(ast_context, e.mangled_name) = "FunctionPointer"
        BY <1>1 DEF VerdictsSound
      <4>2. e.mangled_name \in BlacklistedNames
        BY DEF BlacklistedNames
      <4>3. PICK f \in ast_context.decls : ast_context.mangled[f] = e.mangled_name
        BY <1>1, <2>2, <4>2 DEF NamesInv, NamesAccounted
      <4>4. f \in Declared(ast_context, e.mangled_name)
        BY <4>3 DEF Declared
      <4>5. Dependencies(ast_context, f) \cap Bannable(ast_context) # {}
        BY <3>2, <4>1, <4>4 DEF FunctionVerdict
      <4> QED
        BY <3>1, <3>2, <4>1, <4>4, <4>5, BannableReaches
    <3> QED
      BY <3>3, <3>4
  <2> QED
    BY <2>1, <2>2
<1>2. Spec => []VerdictsSound
  BY VerdictsCorrect
<1>3. NamesInv => NamesAccounted
  BY DEF NamesInv
<1> QED
  BY <1>1, <1>2, <1>3, TypeInit, TypeStep, TreeInit, TreeStep, EnumerationInit,
     EnumerationStepInv, NamesInit, NamesStep, PTL DEF Spec

NothingSaved == phase = "created" => DOMAIN function_map = {}

LEMMA SavedNone ==
    /\ Init => NothingSaved
    /\ NothingSaved /\ [Next]_vars => NothingSaved'
BY DEF Init, NothingSaved, NoFunctions, Next, Step, EnumerationStep, FinalizeStep, Initialize,
       VisitFunctionDecl, EnumerateRoot, SkipKnownType, ExpandType, SaveFunction,
       CollectClassesFails, BeginFinalize, SkipBlacklisted, CheckType, Propagate,
       RemoveDuplicates, JudgeFunction, RejectFunction, DescendBadTypes, ReportBadTypes,
       EndFinalize, vars

(* Where inheritance is one level deep, the comment of collectClasses is   *)
(* true, and a method depends on the members of all the base classes.      *)
THEOREM DirectBasesCollected ==
    (\A tu \in ASTs, c \in Class : \A b \in tu.bases[c] : tu.bases[b] \subseteq ClassList(tu, c))
        => (Spec => []AllBaseClassesCollected)
<1> SUFFICES ASSUME \A tu \in ASTs, c \in Class : \A b \in tu.bases[c] :
                       tu.bases[b] \subseteq ClassList(tu, c)
             PROVE  Spec => []AllBaseClassesCollected
  OBVIOUS
<1>1. ASSUME NEW tu \in ASTs, NEW c \in Class
      PROVE  AllBaseClasses(tu, c) \subseteq ClassList(tu, c)
  <2>1. ClassList(tu, c) \in SUBSET Class
    BY ASTsAssumption DEF ClassList, TranslationUnits
  <2>2. {c} \cup UNION {tu.bases[k] : k \in ClassList(tu, c)} \subseteq ClassList(tu, c)
    BY DEF ClassList
  <2> QED
    BY <2>1, <2>2 DEF AllBaseClasses
<1>2. TypeOK /\ EnumerationComplete /\ NothingSaved => AllBaseClassesCollected
  <2> SUFFICES ASSUME TypeOK, EnumerationComplete, NothingSaved, NEW f \in DOMAIN function_map,
                      ast_context.owner[f] # NoClass
               PROVE  MemberTypes(ast_context,
                                  AllBaseClasses(ast_context, ast_context.owner[f]))
                         \subseteq function_map[f]
    BY DEF AllBaseClassesCollected
  <2> DEFINE c == ast_context.owner[f]
  <2>1. f \in Function /\ function_map[f] = Dependencies(ast_context, f)
    BY DEF TypeOK, EnumerationComplete
  <2>2. CASE ast_context \in ASTs
    <3>1. c \in Class
      BY <2>1, <2>2, ASTsAssumption DEF TranslationUnits
    <3>2. MemberTypes(ast_context, ClassList(ast_context, c)) \subseteq function_map[f]
      BY <2>1 DEF Dependencies, ClassDependencies
    <3>3. MemberTypes(ast_context, AllBaseClasses(ast_context, c))
             \subseteq MemberTypes(ast_context, ClassList(ast_context, c))
      BY <1>1, <2>2, <3>1 DEF MemberTypes
    <3> QED
      BY <3>2, <3>3
  <2>3. CASE ast_context \notin ASTs
    <3>1. phase = "created"
      BY <2>3 DEF TypeOK
    <3> QED
      BY <3>1 DEF NothingSaved
  <2> QED
    BY <2>2, <2>3
<1>3. Spec => []TypeOK
  BY TypeCorrect
<1>4. Spec => []EnumerationComplete
  BY EnumerationCorrect
<1> QED
  BY <1>2, <1>3, <1>4, SavedNone, PTL DEF Spec

-----------------------------------------------------------------------------
(* The visitor never goes around in circles.                               *)

(* The sets that count more than the one that shrinks are as they were.    *)
LEMMA AdvancesAt ==
    ASSUME NEW i \in 1 .. 11, PhasesLeft' = PhasesLeft, Shrinks(Remaining'[i], Remaining[i]),
           \A j \in 1 .. i - 1 : Remaining'[j] = Remaining[j]
    PROVE  Advances
BY DEF Advances

LEMMA StagesAdvance ==
    ASSUME TypeOK, phase # "finalized",
           \/ \E tu \in ASTs : Initialize(tu)
           \/ CollectClassesFails \/ BeginFinalize \/ RemoveDuplicates \/ EndFinalize
    PROVE  Advances
<1>1. PhasesLeft' < PhasesLeft
  BY DEF Initialize, CollectClassesFails, BeginFinalize, RemoveDuplicates, EndFinalize, PhasesLeft
<1> QED
  BY <1>1 DEF Advances

LEMMA EnumerationAdvances ==
    ASSUME TypeOK, EnumerationStep, ~CollectClassesFails
    PROVE  Advances
<1>1. ASSUME NEW f \in Function, VisitFunctionDecl(f) PROVE Advances
  <2>1. PhasesLeft' = PhasesLeft /\ Shrinks(unvisited', unvisited)
    BY <1>1 DEF VisitFunctionDecl, PhasesLeft, Shrinks
  <2> QED
    BY <2>1, AdvancesAt DEF Remaining
<1>2. ASSUME NEW t \in Type, EnumerateRoot(t) PROVE Advances
  <2>1. PhasesLeft' = PhasesLeft /\ Shrinks(roots', roots)
    BY <1>2 DEF EnumerateRoot, PhasesLeft, Shrinks
  <2>2. UNCHANGED <<unvisited, unfiltered, unchecked, decl>>
    BY <1>2 DEF EnumerateRoot, banVars, filterVars
  <2> QED
    BY <2>1, <2>2, AdvancesAt DEF Remaining
<1>3. ASSUME NEW t \in Type, SkipKnownType(t) PROVE Advances
  <2>1. PhasesLeft' = PhasesLeft /\ Shrinks(queue', queue)
    BY <1>3 DEF SkipKnownType, PhasesLeft, Shrinks
  <2>2. UNCHANGED <<unvisited, unfiltered, unchecked, decl, roots, enumerated_type_list>>
    BY <1>3 DEF SkipKnownType, treeVars, banVars, filterVars
  <2> QED
    BY <2>1, <2>2, AdvancesAt DEF Remaining
<1>4. ASSUME NEW t \in Type, ExpandType(t) PROVE Advances
  <2>1. PhasesLeft' = PhasesLeft
        /\ Shrinks(Type \ enumerated_type_list', Type \ enumerated_type_list)
    BY <1>4 DEF ExpandType, PhasesLeft, Shrinks
  <2>2. UNCHANGED <<unvisited, unfiltered, unchecked, decl, roots>>
    BY <1>4 DEF ExpandType, banVars, filterVars
  <2> QED
    BY <2>1, <2>2, AdvancesAt DEF Remaining
<1>5. CASE SaveFunction
  <2>1. PhasesLeft' = PhasesLeft /\ Shrinks({decl'} \ {NoFunction}, {decl} \ {NoFunction})
    BY <1>5, NoFunctionAssumption DEF SaveFunction, TypeOK, PhasesLeft, Shrinks
  <2>2. UNCHANGED <<unvisited, unfiltered, unchecked>>
    BY <1>5 DEF SaveFunction, visitVars, banVars, filterVars
  <2> QED
    BY <2>1, <2>2, AdvancesAt DEF Remaining
<1> QED
  BY <1>1, <1>2, <1>3, <1>4, <1>5 DEF EnumerationStep

LEMMA BlacklistAdvances ==
    ASSUME TypeOK, NEW t \in Type, SkipBlacklisted(t) \/ CheckType(t) \/ Propagate(t)
    PROVE  Advances
<1>1. PhasesLeft' = PhasesLeft /\ UNCHANGED <<unvisited, unfiltered>>
  BY DEF SkipBlacklisted, CheckType, Propagate, visitVars, filterVars, PhasesLeft
<1>2. CASE SkipBlacklisted(t) \/ CheckType(t)
  <2>1. Shrinks(unchecked', unchecked)
    BY <1>2 DEF SkipBlacklisted, CheckType, Shrinks
  <2> QED
    BY <1>1, <2>1, AdvancesAt DEF Remaining
<1>3. CASE Propagate(t)
  <2>1. UNCHANGED <<unchecked, decl, roots, enumerated_type_list, queue>>
    BY <1>3 DEF Propagate, visitVars, treeVars
  <2>2. CASE t \in propagated_types
    <3>1. Shrinks(propagation_queue', propagation_queue) /\ UNCHANGED propagated_types
      BY <1>3, <2>2 DEF Propagate, Shrinks
    <3> QED
      BY <1>1, <2>1, <3>1, AdvancesAt DEF Remaining
  <2>3. CASE t \notin propagated_types
    <3>1. Shrinks(Type \ propagated_types', Type \ propagated_types)
      BY <1>3, <2>3 DEF Propagate, Shrinks
    <3> QED
      BY <1>1, <2>1, <3>1, AdvancesAt DEF Remaining
  <2> QED
    BY <2>2, <2>3
<1> QED
  BY <1>2, <1>3

LEMMA FilterAdvances ==
    ASSUME TypeOK,
           \/ \E f \in Function : JudgeFunction(f) \/ RejectFunction(f)
           \/ DescendBadTypes \/ ReportBadTypes
    PROVE  Advances
<1>1. PhasesLeft' = PhasesLeft /\ UNCHANGED unvisited
  BY DEF JudgeFunction, RejectFunction, DescendBadTypes, ReportBadTypes, visitVars, PhasesLeft
<1>2. ASSUME NEW f \in Function, JudgeFunction(f) \/ RejectFunction(f) PROVE Advances
  <2>1. Shrinks(unfiltered', unfiltered)
    BY <1>2 DEF JudgeFunction, RejectFunction, Shrinks
  <2> QED
    BY <1>1, <2>1, AdvancesAt DEF Remaining
<1>3. CASE DescendBadTypes
  <2>1. UNCHANGED <<unfiltered, unchecked, decl, roots, enumerated_type_list, queue,
                    propagated_types, propagation_queue>>
    BY <1>3 DEF DescendBadTypes, visitVars, treeVars, banVars
  <2>2. CASE bad_type_queue \subseteq visited_types
    <3>1. bad_type_queue' = {} /\ bad_type_queue # {} /\ visited_types' = visited_types
      BY <1>3, <2>2 DEF DescendBadTypes, Related
    <3>2. Shrinks(bad_type_queue', bad_type_queue)
      BY <3>1 DEF Shrinks
    <3> QED
      BY <1>1, <2>1, <3>1, <3>2, AdvancesAt DEF Remaining
  <2>3. CASE ~(bad_type_queue \subseteq visited_types)
    <3>1. Shrinks(Type \ visited_types', Type \ visited_types)
      BY <1>3, <2>3 DEF DescendBadTypes, TypeOK, Shrinks
    <3> QED
      BY <1>1, <2>1, <3>1, AdvancesAt DEF Remaining
  <2> QED
    BY <2>2, <2>3
<1>4. CASE ReportBadTypes
  <2>1. Shrinks({decl'} \ {NoFunction}, {decl} \ {NoFunction})
    BY <1>4, NoFunctionAssumption DEF ReportBadTypes, TypeOK, Shrinks
  <2>2. UNCHANGED <<unfiltered, unchecked>>
    BY <1>4 DEF ReportBadTypes, banVars
  <2> QED
    BY <1>1, <2>1, <2>2, AdvancesAt DEF Remaining
<1> QED
  BY <1>2, <1>3, <1>4

LEMMA AdvancesNext == TypeOK /\ phase # "finalized" /\ Next => Advances
BY StagesAdvance, EnumerationAdvances, BlacklistAdvances, FilterAdvances
   DEF Next, Step, FinalizeStep

(* Each step of the visitor leaves it less to do, whatever the cycles of   *)
(* the type graph and the order of its containers: the propagation and the *)
(* descent are not endless, and a unit is done after finitely many steps   *)
(* if the sets of types and functions are finite.                          *)
THEOREM VisitorAdvances == Spec => EveryStepAdvances
<1>1. TypeOK /\ [Next]_vars => [phase # "finalized" => Advances]_vars
  BY AdvancesNext
<1> QED
  BY <1>1, TypeInit, TypeStep, PTL DEF Spec, EveryStepAdvances

(* The same in natural numbers, which cannot go down for ever.             *)
Sizes == [i \in 1 .. 11 |-> Cardinality(Remaining[i])]

SizesAdvance ==
    \/ PhasesLeft' < PhasesLeft
    \/ /\ PhasesLeft' = PhasesLeft
       /\ \E i \in 1 .. 11 : /\ Sizes'[i] < Sizes[i]
                             /\ \A j \in 1 .. i - 1 : Sizes'[j] = Sizes[j]

LEMMA RemainingFinite ==
    ASSUME TypeOK, IsFiniteSet(Type), IsFiniteSet(Function), NEW i \in 1 .. 11
    PROVE  IsFiniteSet(Remaining[i])
<1>1. \/ Remaining[i] \in SUBSET Type
      \/ Remaining[i] \in SUBSET Function
  BY DEF TypeOK, Remaining
<1> QED
  BY <1>1, FS_Subset

(* Where a unit has finitely many types and functions, as each has that    *)
(* clang has read, what the visitor has left to do is counted by twelve    *)
(* natural numbers, which go down in lexicographic order.                  *)
THEOREM VisitorCountsDown ==
    IsFiniteSet(Type) /\ IsFiniteSet(Function)
        => (Spec => /\ [](PhasesLeft \in 0 .. 4 /\ Sizes \in [1 .. 11 -> Nat])
                    /\ [][phase # "finalized" => SizesAdvance]_vars)
<1> SUFFICES ASSUME IsFiniteSet(Type), IsFiniteSet(Function)
             PROVE  Spec => /\ [](PhasesLeft \in 0 .. 4 /\ Sizes \in [1 .. 11 -> Nat])
                            /\ [][phase # "finalized" => SizesAdvance]_vars
  OBVIOUS
<1>1. TypeOK => PhasesLeft \in 0 .. 4 /\ Sizes \in [1 .. 11 -> Nat]
  <2>1. TypeOK => \A i \in 1 .. 11 : Cardinality(Remaining[i]) \in Nat
    BY RemainingFinite, FS_CardinalityType
  <2>2. PhasesLeft \in 0 .. 4
    BY DEF PhasesLeft
  <2> QED
    BY <2>1, <2>2 DEF Sizes
<1>2. ASSUME TypeOK, Advances PROVE SizesAdvance
  <2>1. ASSUME NEW i \in 1 .. 11, Shrinks(Remaining'[i], Remaining[i])
        PROVE  Sizes'[i] < Sizes[i]
    <3> DEFINE S == Remaining[i]
               T == Remaining'[i]
    <3>1. IsFiniteSet(S) /\ T \in SUBSET S /\ T # S
      BY <1>2, <2>1, RemainingFinite DEF Shrinks
    <3> HIDE DEF S, T
    <3>2. /\ IsFiniteSet(T) /\ Cardinality(T) <= Cardinality(S)
          /\ Cardinality(S) # Cardinality(T)
      BY <3>1, FS_Subset
    <3>3. Cardinality(S) \in Nat /\ Cardinality(T) \in Nat
      BY <3>1, <3>2, FS_CardinalityType
    <3>4. Cardinality(T) < Cardinality(S)
      BY <3>2, <3>3
    <3>5. Sizes'[i] = Cardinality(T) /\ Sizes[i] = Cardinality(S)
      BY DEF Sizes, S, T
    <3> QED
      BY <3>4, <3>5
  <2>2. ASSUME NEW j \in 1 .. 11, Remaining'[j] = Remaining[j] PROVE Sizes'[j] = Sizes[j]
    BY <2>2 DEF Sizes
  <2>3. CASE PhasesLeft' < PhasesLeft
    BY <2>3 DEF SizesAdvance
  <2>4. CASE ~(PhasesLeft' < PhasesLeft)
    <3>1. PICK i \in 1 .. 11 : /\ Shrinks(Remaining'[i], Remaining[i])
                              /\ \A j \in 1 .. i - 1 : Remaining'[j] = Remaining[j]
      BY <1>2, <2>4 DEF Advances
    <3>2. Sizes'[i] < Sizes[i]
      BY <2>1, <3>1
    <3>3. \A j \in 1 .. i - 1 : j \in 1 .. 11
      OBVIOUS
    <3>4. \A j \in 1 .. i - 1 : Sizes'[j] = Sizes[j]
      BY <2>2, <3>1, <3>3
    <3> QED
      BY <1>2, <2>4, <3>2, <3>4 DEF SizesAdvance, Advances
  <2> QED
    BY <1>2, <2>3, <2>4 DEF Advances
<1>3. TypeOK /\ [phase # "finalized" => Advances]_vars
         => [phase # "finalized" => SizesAdvance]_vars
  BY <1>2
<1> QED
  BY <1>1, <1>3, TypeCorrect, VisitorAdvances, PTL DEF EveryStepAdvances

-----------------------------------------------------------------------------
(* The visitor implements the abstract filter.                             *)

(* The rules the abstract filter is written with are those of this module. *)
LEMMA SameRules ==
    ASSUME NEW tu
    PROVE  Filter!Verdicts(tu) = {<<n, Verdict(tu, n)>> : n \in {tu.mangled[f] : f \in tu.decls}}
<1>1. ASSUME NEW t \in Type PROVE /\ Filter!IsFunction(tu, t) = IsFunction(tu, t)
                                  /\ Filter!ChildTypes(tu, t) = ChildTypes(tu, t)
  BY DEF Filter!IsFunction, IsFunction, Filter!ChildTypes, ChildTypes,
         Filter!ClassDependencies, ClassDependencies, Filter!MemberTypes, MemberTypes,
         Filter!ParameterTypes, ParameterTypes, Filter!ClassMethods, ClassMethods,
         Filter!ClassList, ClassList
<1>2. Filter!Bannable(tu) = Bannable(tu)
  BY <1>1 DEF Filter!Bannable, Bannable, Filter!ClosedUpward, ClosedUpward
<1>3. ASSUME NEW f PROVE Filter!Dependencies(tu, f) = Dependencies(tu, f)
  BY DEF Filter!Dependencies, Dependencies,
         Filter!ClassDependencies, ClassDependencies, Filter!MemberTypes, MemberTypes,
         Filter!ParameterTypes, ParameterTypes, Filter!ClassMethods, ClassMethods,
         Filter!ClassList, ClassList
<1>4. ASSUME NEW f PROVE Filter!FunctionVerdict(tu, f) = FunctionVerdict(tu, f)
  BY <1>2, <1>3 DEF Filter!FunctionVerdict, FunctionVerdict
<1>5. ASSUME NEW n PROVE Filter!Verdict(tu, n) = Verdict(tu, n)
  BY <1>4 DEF Filter!Verdict, Verdict, Filter!Declared, Declared
<1> QED
  BY <1>5 DEF Filter!Verdicts

LEMMA RefinementInit == Init => Filter!AbsInit
BY DEF Init, Filter!AbsInit, stage, verdicts

(* The steps between Initialize and the end are invisible: the visitor is  *)
(* busy before and after, and has no result to show.                       *)
LEMMA BusyStep ==
    ASSUME phase \in {"visiting", "enumerating", "blacklisting", "filtering", "explaining"},
           phase' \in {"visiting", "enumerating", "blacklisting", "filtering", "explaining"},
           ast_context' = ast_context
    PROVE  UNCHANGED Filter!avars
BY DEF Filter!avars, stage, verdicts

LEMMA RefinementStep ==
    TypeOK /\ NamesInv /\ VerdictsSound /\ [Next]_vars => [Filter!AbsNext]_(Filter!avars)
<1> SUFFICES ASSUME TypeOK, NamesInv, VerdictsSound, [Next]_vars
             PROVE  [Filter!AbsNext]_(Filter!avars)
  OBVIOUS
<1>1. ASSUME NEW tu \in ASTs, Initialize(tu) PROVE Filter!AbsNext
  BY <1>1 DEF Initialize, Filter!AbsNext, Filter!Begin, stage, verdicts
<1>2. ASSUME NEW f \in Function, VisitFunctionDecl(f) PROVE UNCHANGED Filter!avars
  BY <1>2, BusyStep DEF VisitFunctionDecl
<1>3. ASSUME NEW t \in Type, EnumerateRoot(t) \/ SkipKnownType(t) \/ ExpandType(t)
      PROVE  UNCHANGED Filter!avars
  BY <1>3, BusyStep DEF EnumerateRoot, SkipKnownType, ExpandType
<1>4. CASE SaveFunction
  BY <1>4, BusyStep DEF SaveFunction
<1>5. CASE CollectClassesFails
  <2>1. ast_context.dependent # {}
    BY <1>5 DEF CollectClassesFails
  <2> QED
    BY <1>5, <2>1 DEF CollectClassesFails, Filter!AbsNext, Filter!Fail, stage, verdicts
<1>6. CASE BeginFinalize
  BY <1>6, BusyStep DEF BeginFinalize
<1>7. ASSUME NEW t \in Type, SkipBlacklisted(t) \/ CheckType(t) \/ Propagate(t)
      PROVE  UNCHANGED Filter!avars
  BY <1>7, BusyStep DEF SkipBlacklisted, CheckType, Propagate
<1>8. CASE RemoveDuplicates
  BY <1>8, BusyStep DEF RemoveDuplicates
<1>9. ASSUME NEW f \in Function, JudgeFunction(f) \/ RejectFunction(f)
      PROVE  UNCHANGED Filter!avars
  BY <1>9, BusyStep DEF JudgeFunction, RejectFunction
<1>10. CASE DescendBadTypes \/ ReportBadTypes
  BY <1>10, BusyStep DEF DescendBadTypes, ReportBadTypes
<1>11. CASE EndFinalize
  <2> DEFINE names == {ast_context.mangled[f] : f \in ast_context.decls}
  <2>1. /\ phase = "filtering" /\ phase' = "finalized" /\ ast_context' = ast_context
        /\ unfiltered = {} /\ decl = NoFunction /\ UNCHANGED resultVars
    BY <1>11 DEF EndFinalize, NamesInv, filterVars
  <2>2. PendingNames = {}
    BY <2>1 DEF PendingNames
  <2>3. BlacklistedNames \cup whitelisted_function_list = names
    BY <2>1, <2>2 DEF NamesInv, NamesAccounted
  <2>4. {<<e.mangled_name, e.reason>> : e \in blacklisted_function_list} =
            {<<n, Verdict(ast_context, n)>> : n \in BlacklistedNames}
    BY DEF VerdictsSound, BlacklistedNames
  <2>5. {<<n, "Whitelisted">> : n \in whitelisted_function_list} =
            {<<n, Verdict(ast_context, n)>> : n \in whitelisted_function_list}
    BY DEF VerdictsSound
  <2>6. verdicts' = {<<n, Verdict(ast_context, n)>> : n \in names}
    BY <2>1, <2>3, <2>4, <2>5 DEF verdicts, resultVars
  <2>7. verdicts' = Filter!Verdicts(ast_context)
    BY <2>6, SameRules
  <2>8. stage = "busy" /\ stage' = "done"
    BY <2>1 DEF stage
  <2> QED
    BY <2>1, <2>7, <2>8 DEF Filter!AbsNext, Filter!Decide
<1>12. CASE UNCHANGED vars
  BY <1>12 DEF vars, filterVars, resultVars, Filter!avars, stage, verdicts
<1> QED
  BY <1>1, <1>2, <1>3, <1>4, <1>5, <1>6, <1>7, <1>8, <1>9, <1>10, <1>11, <1>12
     DEF Next, Step, EnumerationStep, FinalizeStep

(* The safety part of ImplementsAbiFilter: seen from its caller, whatever  *)
(* the order of every walk, the visitor goes from a translation unit to    *)
(* the verdicts on that unit in one step, or fails, and does nothing else. *)
THEOREM VisitorRefinesFilter ==
    (TRUE \notin StaleFront) => (Spec => Filter!AbsInit /\ [][Filter!AbsNext]_(Filter!avars))
<1> SUFFICES ASSUME TRUE \notin StaleFront
             PROVE  Spec => Filter!AbsInit /\ [][Filter!AbsNext]_(Filter!avars)
  OBVIOUS
<1>1. Spec => []VerdictsSound
  BY VerdictsCorrect
<1> QED
  BY <1>1, RefinementInit, RefinementStep, TypeInit, TypeStep, TreeInit, TreeStep,
     EnumerationInit, EnumerationStepInv, NamesInit, NamesStep, PTL DEF Spec
=============================================================================
