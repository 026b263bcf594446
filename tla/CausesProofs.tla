----------------------------- MODULE CausesProofs -----------------------------
(***************************************************************************)
(* The causes that finalize() reports for the functions it rejects, for    *)
(* every set of translation units and every order of the loops.            *)
(***************************************************************************)
EXTENDS ASTVisitorProofs

-----------------------------------------------------------------------------
(* The bannable types below R have R's own, and the bannable children of   *)
(* each of them, and are the least such set.                               *)
LEMMA BelowClosed ==
    ASSUME NEW tu \in ASTs, NEW R
    PROVE  /\ BannableBelow(tu, R) \subseteq Bannable(tu)
           /\ R \cap Bannable(tu) \subseteq BannableBelow(tu, R)
           /\ \A s \in BannableBelow(tu, R) :
                 ChildTypes(tu, s) \cap Bannable(tu) \subseteq BannableBelow(tu, R)
<1> DEFINE bad == Bannable(tu)
           Below(S) == (R \cap bad) \cup UNION {ChildTypes(tu, s) \cap bad : s \in S} \subseteq S
<1>1. BannableBelow(tu, R) = {t \in bad : \A S \in SUBSET bad : Below(S) => t \in S}
  BY DEF BannableBelow
<1>2. ASSUME NEW s \in BannableBelow(tu, R), NEW c \in ChildTypes(tu, s) \cap bad
      PROVE  c \in BannableBelow(tu, R)
  <2> SUFFICES ASSUME NEW S \in SUBSET bad, Below(S) PROVE c \in S
    BY <1>1
  <2>1. s \in S
    BY <1>1
  <2>2. c \in UNION {ChildTypes(tu, r) \cap bad : r \in S}
    BY <2>1
  <2> QED
    BY <2>2
<1>3. R \cap bad \subseteq BannableBelow(tu, R)
  BY <1>1
<1> QED
  BY <1>1, <1>2, <1>3

LEMMA BelowLeast ==
    ASSUME NEW tu \in ASTs, NEW R, NEW S \in SUBSET Bannable(tu),
           R \cap Bannable(tu) \subseteq S,
           \A s \in S : ChildTypes(tu, s) \cap Bannable(tu) \subseteq S
    PROVE  BannableBelow(tu, R) \subseteq S
<1>1. (R \cap Bannable(tu)) \cup UNION {ChildTypes(tu, s) \cap Bannable(tu) : s \in S}
         \subseteq S
  OBVIOUS
<1> QED
  BY <1>1 DEF BannableBelow

-----------------------------------------------------------------------------
(* The types a declaration depends on have a location.                     *)
LocationsInv ==
    /\ \A f \in DOMAIN function_map : Dependencies(ast_context, f) \subseteq type_info_map
    /\ phase = "enumerating" => Dependencies(ast_context, decl) \subseteq type_info_map

LEMMA LocationsNext == TypeOK /\ LocationsInv /\ [Next]_vars => LocationsInv'
<1> SUFFICES ASSUME TypeOK, LocationsInv, [Next]_vars PROVE LocationsInv'
  OBVIOUS
<1> USE DEF LocationsInv
<1>1. ASSUME NEW tu \in ASTs, Initialize(tu) PROVE LocationsInv'
  BY <1>1 DEF Initialize, NoFunctions
<1>2. ASSUME NEW f \in Function, VisitFunctionDecl(f) PROVE LocationsInv'
  <2>1. Dependencies(ast_context, f) \subseteq DeclInformation(ast_context, f)
    BY DEF Dependencies, DeclInformation, ClassInformation
  <2> QED
    BY <1>2, <2>1 DEF VisitFunctionDecl
<1>3. ASSUME NEW t \in Type, EnumerateRoot(t) \/ SkipKnownType(t) \/ ExpandType(t)
      PROVE  LocationsInv'
  <2>1. UNCHANGED <<ast_context, decl, function_map, phase>>
        /\ type_info_map \subseteq type_info_map'
    BY <1>3 DEF EnumerateRoot, SkipKnownType, ExpandType
  <2> QED
    BY <2>1
<1>4. CASE SaveFunction
  BY <1>4 DEF SaveFunction, visitVars
<1>5. CASE CollectClassesFails
  BY <1>5 DEF CollectClassesFails, visitVars
<1>6. CASE FinalizeStep \/ UNCHANGED vars
  <2>1. /\ UNCHANGED <<ast_context, type_info_map>>
        /\ phase' # "enumerating" \/ UNCHANGED vars
        /\ DOMAIN function_map' \subseteq DOMAIN function_map
    BY <1>6 DEF FinalizeStep, BeginFinalize, SkipBlacklisted, CheckType, Propagate,
         RemoveDuplicates, JudgeFunction, RejectFunction, DescendBadTypes, ReportBadTypes,
         EndFinalize, visitVars, vars
  <2> QED
    BY <1>6, <2>1 DEF vars, visitVars
<1> QED
  BY <1>1, <1>2, <1>3, <1>4, <1>5, <1>6 DEF Next, Step, EnumerationStep

-----------------------------------------------------------------------------
(* The descent: what was found is below the function's dependencies, all   *)
(* of its bad dependencies were found, and what is related to a type that  *)
(* was visited was found too.                                              *)
Found == visited_types \cup bad_type_queue

DescentInv ==
    phase = "explaining" =>
        /\ Found \subseteq type_dependency_tree
        /\ Found \subseteq BannableBelow(ast_context, Dependencies(ast_context, decl))
        /\ BadDependencies(decl) \subseteq Found
        /\ \A t \in visited_types : Related({t}) \subseteq Found

(* What front() of an empty queue can keep from the blacklist.             *)
MayBeMissed(t) == TRUE \in StaleFront /\ Bare(t)

(* What the descent relates to a type is its bannable children, but for    *)
(* those that were missed.                                                 *)
LEMMA RelatedBounded ==
    ASSUME TypeOK, TreeConsistent, EnumerationComplete, BlacklistSound, BlacklistComplete,
           phase \in {"filtering", "explaining"}, NEW t \in type_dependency_tree
    PROVE  /\ Related({t}) \subseteq ChildTypes(ast_context, t) \cap Bannable(ast_context)
           /\ \A c \in ChildTypes(ast_context, t) \cap Bannable(ast_context) :
                 c \in Related({t}) \/ MayBeMissed(c)
<1>1. t \in Type /\ ast_context \in ASTs /\ queue = {}
  BY DEF TypeOK, TreeConsistent
<1>2. children[t] = ChildTypes(ast_context, t) /\ children[t] \subseteq type_dependency_tree
  BY <1>1 DEF TreeConsistent, TypeOK
<1>3. blacklisted_type_list # {} => blacklisted_type_list \subseteq Bannable(ast_context)
  BY DEF BlacklistSound
<1>4. \A c \in type_dependency_tree \cap Bannable(ast_context) :
         c \in blacklisted_type_list \/ MayBeMissed(c)
  BY DEF BlacklistComplete, MayBeMissed
<1>5. Related({t}) = blacklisted_type_list \cap children[t]
  BY DEF Related
<1> QED
  BY <1>2, <1>3, <1>4, <1>5

LEMMA DescentNext ==
    TypeOK /\ TreeConsistent /\ EnumerationInv /\ EnumerationComplete /\ NamesInv
        /\ BlacklistSound /\ BlacklistComplete /\ DescentInv /\ [Next]_vars
        => DescentInv'
<1> SUFFICES ASSUME TypeOK, TreeConsistent, EnumerationInv, EnumerationComplete, NamesInv,
                    BlacklistSound, BlacklistComplete, DescentInv, [Next]_vars,
                    phase' = "explaining"
             PROVE  DescentInv'
  BY DEF DescentInv
<1>1. ASSUME NEW f \in Function, RejectFunction(f) PROVE DescentInv'
  <2>1. /\ phase = "filtering" /\ f \in unfiltered /\ decl' = f
        /\ bad_type_queue' = BadDependencies(f) /\ visited_types' = {}
        /\ UNCHANGED <<ast_context, function_map, blacklisted_type_list>>
    BY <1>1 DEF RejectFunction, banVars
  <2>2. f \in DOMAIN function_map /\ ast_context \in ASTs
    BY <2>1 DEF TypeOK
  <2>3. BadDependencies(f) \subseteq Dependencies(ast_context, f) \cap Bannable(ast_context)
    BY <2>1, <2>2, BadDependenciesBounded
  <2>4. BadDependencies(f) \subseteq BannableBelow(ast_context, Dependencies(ast_context, f))
    BY <2>2, <2>3, BelowClosed
  <2>5. Found' = BadDependencies(f) /\ BadDependencies(f)' = BadDependencies(f)
    BY <2>1 DEF Found, BadDependencies
  <2>6. BadDependencies(f) \subseteq type_dependency_tree /\ UNCHANGED type_dependency_tree
    BY <1>1, <2>2 DEF BadDependencies, EnumerationInv, RejectFunction, treeVars
  <2>7. BadDependencies(decl)' = BadDependencies(f)
    BY <2>1 DEF BadDependencies
  <2> QED
    BY <2>1, <2>4, <2>5, <2>6, <2>7 DEF DescentInv
<1>2. CASE DescendBadTypes
  <2> DEFINE below == BannableBelow(ast_context, Dependencies(ast_context, decl))
  <2>1. /\ phase = "explaining" /\ visited_types' = visited_types \cup bad_type_queue
        /\ bad_type_queue' = Related(bad_type_queue \ visited_types)
        /\ UNCHANGED <<ast_context, decl, function_map, children, type_dependency_tree,
                      blacklisted_type_list>>
    BY <1>2 DEF DescendBadTypes, banVars, treeVars
  <2>2. /\ Found \subseteq type_dependency_tree /\ Found \subseteq below
        /\ BadDependencies(decl) \subseteq Found
        /\ \A t \in visited_types : Related({t}) \subseteq Found
    BY <2>1 DEF DescentInv
  <2>3. visited_types' = Found /\ Found' = Found \cup Related(bad_type_queue \ visited_types)
    BY <2>1 DEF Found
  <2>4. /\ \A x \in Related(bad_type_queue \ visited_types) :
              \E t \in bad_type_queue \ visited_types : x \in Related({t})
        /\ \A t \in bad_type_queue \ visited_types :
              Related({t}) \subseteq Related(bad_type_queue \ visited_types)
    BY DEF Related
  <2>5. ASSUME NEW t \in Found PROVE Related({t}) \subseteq below
    <3>1. Related({t}) \subseteq ChildTypes(ast_context, t) \cap Bannable(ast_context)
      BY <2>1, <2>2, RelatedBounded
    <3>2. ast_context \in ASTs
      BY <2>1 DEF TypeOK
    <3> QED
      BY <2>2, <3>1, <3>2, BelowClosed
  <2>6. Related(bad_type_queue \ visited_types) \subseteq below
    BY <2>4, <2>5 DEF Found
  <2>7. Related(bad_type_queue \ visited_types) \subseteq type_dependency_tree
    <3>1. \A t \in Found : children[t] \subseteq type_dependency_tree
      BY <2>2 DEF TreeConsistent, TypeOK
    <3> QED
      BY <3>1 DEF Related, Found
  <2>8. ASSUME NEW t \in Found PROVE Related({t}) \subseteq Found'
    <3>1. CASE t \in visited_types
      BY <2>2, <2>3, <3>1
    <3>2. CASE t \in bad_type_queue \ visited_types
      BY <2>3, <2>4, <3>2
    <3> QED
      BY <3>1, <3>2 DEF Found
  <2>9. \A T : Related(T)' = Related(T)
    BY <2>1 DEF Related
  <2>10. BadDependencies(decl)' = BadDependencies(decl)
    BY <2>1 DEF BadDependencies
  <2>11. BannableBelow(ast_context, Dependencies(ast_context, decl))' = below
    BY <2>1
  <2> HIDE DEF below
  <2> QED
    BY <2>1, <2>2, <2>3, <2>6, <2>7, <2>8, <2>9, <2>10, <2>11 DEF DescentInv
<1>3. CASE UNCHANGED vars
  BY <1>3 DEF vars, treeVars, banVars, filterVars, causeVars, DescentInv, Found,
       BadDependencies, Related
<1> QED
  BY <1>1, <1>2, <1>3 DEF Next, Initialize, Step, EnumerationStep, VisitFunctionDecl,
       EnumerateRoot, SkipKnownType, ExpandType, SaveFunction, CollectClassesFails,
       FinalizeStep, BeginFinalize, SkipBlacklisted, CheckType, Propagate, RemoveDuplicates,
       JudgeFunction, ReportBadTypes, EndFinalize

-----------------------------------------------------------------------------
(* When the queue is empty, the types that lead from the dependencies of   *)
(* the function to a function type have been visited, but for those that   *)
(* were missed.  These see no other type, so nothing is lost behind them.  *)
LEMMA DescentComplete ==
    ASSUME TypeOK, TreeConsistent, EnumerationInv, EnumerationComplete, NamesInv,
           BlacklistSound, BlacklistComplete, DescentInv,
           phase = "explaining", bad_type_queue = {}
    PROVE  LET below == BannableBelow(ast_context, Dependencies(ast_context, decl))
           IN  visited_types \subseteq below /\ \A t \in below \ visited_types : MayBeMissed(t)
<1> DEFINE below == BannableBelow(ast_context, Dependencies(ast_context, decl))
           S == visited_types \cup {t \in below : MayBeMissed(t)}
<1>1. ast_context \in ASTs /\ decl \in DOMAIN function_map
  BY DEF TypeOK, NamesInv
<1>2. /\ visited_types \subseteq type_dependency_tree
      /\ visited_types \subseteq below
      /\ BadDependencies(decl) \subseteq visited_types
      /\ \A t \in visited_types : Related({t}) \subseteq visited_types
  BY DEF DescentInv, Found
<1>3. /\ below \subseteq Bannable(ast_context)
      /\ Dependencies(ast_context, decl) \cap Bannable(ast_context) \subseteq below
      /\ \A t \in below : ChildTypes(ast_context, t) \cap Bannable(ast_context) \subseteq below
  BY <1>1, BelowClosed
<1> HIDE DEF below
<1>4. Dependencies(ast_context, decl) \cap Bannable(ast_context) \subseteq S
  BY <1>1, <1>2, <1>3, BadDependenciesBounded DEF MayBeMissed
<1>5. ASSUME NEW t \in S, NEW c \in ChildTypes(ast_context, t) \cap Bannable(ast_context)
      PROVE  c \in S
  <2>1. c \in below
    BY <1>2, <1>3
  <2>2. CASE t \in visited_types
    BY <1>2, <2>1, <2>2, RelatedBounded
  <2>3. CASE MayBeMissed(t)
    BY <2>3 DEF MayBeMissed, Bare
  <2> QED
    BY <2>2, <2>3
<1>6. below \subseteq S
  BY <1>1, <1>2, <1>3, <1>4, <1>5, BelowLeast DEF below
<1> QED
  BY <1>2, <1>6 DEF below

LEMMA CausesNext ==
    TypeOK /\ TreeConsistent /\ EnumerationInv /\ EnumerationComplete /\ NamesInv
        /\ BlacklistSound /\ BlacklistComplete /\ LocationsInv /\ DescentInv
        /\ CausesBounded /\ [Next]_vars => CausesBounded'
<1> SUFFICES ASSUME TypeOK, TreeConsistent, EnumerationInv, EnumerationComplete, NamesInv,
                    BlacklistSound, BlacklistComplete, LocationsInv, DescentInv,
                    CausesBounded, [Next]_vars
             PROVE  CausesBounded'
  OBVIOUS
<1>1. ASSUME NEW tu \in ASTs, Initialize(tu) PROVE CausesBounded'
  BY <1>1 DEF Initialize, ClearResults, CausesBounded
<1>2. CASE EnumerationStep
  <2>1. blacklisted_function_list = {} /\ UNCHANGED blacklisted_function_list
    BY <1>2 DEF EnumerationStep, VisitFunctionDecl, EnumerateRoot, SkipKnownType, ExpandType,
         SaveFunction, CollectClassesFails, filterVars, resultVars, NamesInv
  <2> QED
    BY <2>1 DEF CausesBounded
<1>3. CASE BeginFinalize \/ EndFinalize \/ DescendBadTypes
           \/ (\E t \in Type : SkipBlacklisted(t) \/ CheckType(t) \/ Propagate(t))
           \/ (\E f \in Function : RejectFunction(f)) \/ UNCHANGED vars
  <2>1. UNCHANGED <<ast_context, type_info_map, blacklisted_function_list>>
    BY <1>3 DEF BeginFinalize, EndFinalize, DescendBadTypes, SkipBlacklisted, CheckType,
         Propagate, RejectFunction, filterVars, resultVars, visitVars, vars
  <2> QED
    BY <2>1 DEF CausesBounded, Bare
<1>4. CASE RemoveDuplicates
  <2>1. \A e \in blacklisted_function_list' : e.reason = "DuplicateName"
    BY <1>4 DEF RemoveDuplicates, Blacklisted
  <2> QED
    BY <2>1 DEF CausesBounded
<1>5. ASSUME NEW f \in Function, JudgeFunction(f) PROVE CausesBounded'
  <2>1. UNCHANGED <<ast_context, type_info_map>>
    BY <1>5 DEF JudgeFunction, visitVars
  <2>2. \A e \in blacklisted_function_list' :
           e \in blacklisted_function_list \/ e.reason \in {"Variadic", "Templated"}
    BY <1>5 DEF JudgeFunction, Blacklisted
  <2> QED
    BY <2>1, <2>2 DEF CausesBounded, Bare
<1>6. CASE ReportBadTypes
  <2> DEFINE below == BannableBelow(ast_context, Dependencies(ast_context, decl))
  <2>1. /\ phase = "explaining" /\ bad_type_queue = {}
        /\ blacklisted_function_list' = blacklisted_function_list \cup {CauseEntry}
        /\ UNCHANGED <<ast_context, type_info_map>>
    BY <1>6 DEF ReportBadTypes, visitVars
  <2>2. CauseEntry.decl = decl /\ CauseEntry.reason_data = visited_types \cap type_info_map
    BY <2>1 DEF CauseEntry, Blacklisted
  <2>3. visited_types \subseteq below /\ \A t \in below \ visited_types : MayBeMissed(t)
    BY <2>1, DescentComplete
  <2>4. visited_types \cap type_info_map # {}
    <3>1. decl \in DOMAIN function_map /\ BadDependencies(decl) # {}
      BY <2>1 DEF NamesInv
    <3>2. BadDependencies(decl) \subseteq Dependencies(ast_context, decl)
      BY <2>1, <3>1, BadDependenciesBounded
    <3>3. BadDependencies(decl) \subseteq visited_types
      BY <2>1 DEF DescentInv, Found
    <3> QED
      BY <3>1, <3>2, <3>3 DEF LocationsInv
  <2> HIDE DEF below
  <2>5. ASSUME NEW e \in blacklisted_function_list', e.reason = "FunctionPointer"
        PROVE  LET causes == type_info_map
                     \cap BannableBelow(ast_context, Dependencies(ast_context, e.decl))
               IN  /\ e.reason_data # {}
                   /\ e.reason_data \subseteq causes
                   /\ \A t \in causes \ e.reason_data : MayBeMissed(t)
    <3>1. CASE e \in blacklisted_function_list
      BY <2>5, <3>1 DEF CausesBounded, MayBeMissed
    <3>2. CASE e = CauseEntry
      BY <2>2, <2>3, <2>4, <3>2 DEF below
    <3> QED
      BY <2>1, <3>1, <3>2
  <2>6. \A t : MayBeMissed(t)' <=> MayBeMissed(t)
    BY <2>1 DEF MayBeMissed, Bare
  <2> QED
    BY <2>1, <2>5, <2>6 DEF CausesBounded, MayBeMissed
<1> QED
  BY <1>1, <1>2, <1>3, <1>4, <1>5, <1>6 DEF Next, Step, FinalizeStep

(* Whatever front() of an empty queue returns, a function that is rejected *)
(* for its types names its causes: at least one, all of them types that    *)
(* lead from its dependencies to a function type, and every such type that *)
(* has a location, unless it is a function type that sees no other type.   *)
THEOREM CausesBoundedAlways == Spec => []CausesBounded
<1>1. Init => LocationsInv /\ DescentInv /\ CausesBounded
  BY DEF Init, LocationsInv, DescentInv, CausesBounded, NoFunctions
<1>2. TypeOK /\ TreeConsistent /\ EnumerationInv /\ EnumerationComplete /\ NamesInv
         /\ BlacklistSound /\ BlacklistComplete /\ DescentInv /\ [Next]_vars => DescentInv'
  BY DescentNext
<1>3. TypeOK /\ TreeConsistent /\ EnumerationInv /\ EnumerationComplete /\ NamesInv
         /\ BlacklistSound /\ BlacklistComplete /\ LocationsInv /\ DescentInv
         /\ CausesBounded /\ [Next]_vars => CausesBounded'
  BY CausesNext
<1> QED
  BY <1>1, <1>2, <1>3, LocationsNext, TypeInit, TypeStep, TreeInit, TreeStep,
     EnumerationInit, EnumerationStepInv, EnumerationCorrect, NamesInit, NamesStep,
     BlacklistSoundness, BlacklistCompleteness, PTL DEF Spec

(* When front() of an empty queue is harmless, none is left out: the       *)
(* causes are exactly the located types that lead from the dependencies of *)
(* the function to a function type.                                        *)
THEOREM CausesCorrect == (TRUE \notin StaleFront) => (Spec => []CausesExact)
<1> SUFFICES ASSUME TRUE \notin StaleFront PROVE Spec => []CausesExact
  OBVIOUS
<1>1. CausesBounded => CausesExact
  BY DEF CausesBounded, CausesExact
<1> QED
  BY <1>1, CausesBoundedAlways, PTL
===============================================================================
