----------------------------- MODULE ASTVisitor -----------------------------
(***************************************************************************)
(* The AST visitor of the generate command (src/src/astvisitor.cpp): the   *)
(* object the compiler front end drives with initialize(), one             *)
(* VisitFunctionDecl() per declaration, and finalize().                    *)
(*                                                                         *)
(* Every container the code iterates over, or fills from an iteration, is  *)
(* an unordered_set or an unordered_map keyed by pointers, so the order of *)
(* every loop is unknown: a loop is an action that takes any element that  *)
(* is left.  The two std::queues hold what such loops push; the model lets *)
(* any element leave them first, which allows every order the code can     *)
(* produce and more.                                                       *)
(***************************************************************************)
EXTENDS AbiRules, Naturals

CONSTANTS
    NoFunction, \* no declaration is being worked on
    StaleFront  \* whether propagation_queue.front() of an EMPTY queue may
                \* return the type under test: {FALSE}, or BOOLEAN for the
                \* undefined behaviour at astvisitor.cpp:500

ASSUME NoFunctionAssumption == NoFunction \notin Function
ASSUME StaleFrontAssumption == StaleFront # {} /\ StaleFront \subseteq BOOLEAN

VARIABLES
    phase,                      \* the loop being run
    ast_context,                \* the translation unit given to initialize()
    unvisited,                  \* the declarations the traversal has yet to visit
    decl,                       \* the declaration in VisitFunctionDecl, or in finalize's loop
    roots,                      \* the root types VisitFunctionDecl has yet to descend into
    queue,                      \* the queue of enumerateTypeDependencies
    enumerated_type_list,       \* d->enumerated_type_list
    type_dependency_tree,       \* the keys of d->type_dependency_tree
    children, parents,          \* the two sets of each TypeDependencyNode
    type_info_map,              \* the keys of d->type_info_map
    function_map,               \* d->function_map
    unchecked,                  \* the nodes finalize has yet to test
    blacklisted_type_list,
    propagation_queue,
    propagated_types,
    unfiltered,                 \* the functions finalize has yet to judge
    bad_type_queue,
    visited_types,
    blacklisted_function_list,  \* d->blacklisted_function_list
    whitelisted_function_list   \* d->whitelisted_function_list

treeVars    == <<enumerated_type_list, type_dependency_tree, children, parents>>
visitVars   == <<unvisited, roots, queue, type_info_map>>
banVars     == <<unchecked, blacklisted_type_list, propagation_queue, propagated_types>>
causeVars   == <<bad_type_queue, visited_types>>
resultVars  == <<blacklisted_function_list, whitelisted_function_list>>
filterVars  == <<unfiltered, causeVars, resultVars>>
vars        == <<phase, ast_context, decl, function_map, treeVars, visitVars, banVars,
                 filterVars>>

NoFunctions == [f \in {} |-> {}]

Reason == {"DuplicateName", "FunctionPointer", "Variadic", "Templated"}

-----------------------------------------------------------------------------
Init ==
    /\ phase = "created" /\ ast_context = NoAST /\ decl = NoFunction
    /\ unvisited = {} /\ roots = {} /\ queue = {}
    /\ enumerated_type_list = {} /\ type_dependency_tree = {}
    /\ children = [t \in Type |-> {}] /\ parents = [t \in Type |-> {}]
    /\ type_info_map = {} /\ function_map = NoFunctions
    /\ unchecked = {} /\ blacklisted_type_list = {}
    /\ propagation_queue = {} /\ propagated_types = {}
    /\ unfiltered = {} /\ bad_type_queue = {} /\ visited_types = {}
    /\ blacklisted_function_list = {} /\ whitelisted_function_list = {}

(* A plausible bug: the results of the previous unit are kept.             *)
KeepResults == UNCHANGED resultVars

ClearResults == blacklisted_function_list' = {} /\ whitelisted_function_list' = {}

(* A plausible bug: the list of known types outlives the tree.             *)
ClearTreeOnly ==
    /\ type_dependency_tree' = {} /\ UNCHANGED enumerated_type_list
    /\ children' = [t \in Type |-> {}] /\ parents' = [t \in Type |-> {}]

ClearTree ==
    /\ enumerated_type_list' = {} /\ type_dependency_tree' = {}
    /\ children' = [t \in Type |-> {}] /\ parents' = [t \in Type |-> {}]

(* initialize(), then the traversal starts.  One visitor may be handed     *)
(* several translation units in turn.                                      *)
Initialize(tu) ==
    /\ phase \in {"created", "finalized"}
    /\ phase' = "visiting" /\ ast_context' = tu /\ unvisited' = tu.decls
    /\ ClearTree /\ ClearResults
    /\ type_info_map' = {} /\ function_map' = NoFunctions
    /\ UNCHANGED <<decl, roots, queue, banVars, unfiltered, causeVars>>

-----------------------------------------------------------------------------
(* The visit of one declaration: collect its types, descend into them, and *)
(* save the function.                                                      *)

VisitFunctionDecl(f) ==
    /\ phase = "visiting" /\ f \in unvisited
    /\ ast_context.owner[f] \notin ast_context.dependent
    /\ phase' = "enumerating" /\ decl' = f /\ unvisited' = unvisited \ {f}
    /\ roots' = Dependencies(ast_context, f)
    /\ type_info_map' = type_info_map \cup DeclInformation(ast_context, f)
    /\ UNCHANGED <<ast_context, queue, function_map, treeVars, banVars, filterVars>>

EnumerateRoot(t) ==
    /\ phase = "enumerating" /\ queue = {} /\ t \in roots
    /\ roots' = roots \ {t} /\ queue' = {t}
    /\ UNCHANGED <<phase, ast_context, decl, function_map, unvisited, type_info_map,
                   treeVars, banVars, filterVars>>

SkipKnownType(t) ==
    /\ phase = "enumerating" /\ t \in queue /\ t \in enumerated_type_list
    /\ queue' = queue \ {t}
    /\ UNCHANGED <<phase, ast_context, decl, function_map, unvisited, roots,
                   type_info_map, treeVars, banVars, filterVars>>

(* The class of a record type; NoClass when expanding it collects no class *)
ExpandedClass(t) ==
    IF ast_context.kind[t] = "Record" THEN ast_context.record[t] ELSE NoClass

(* A plausible bug: the node of the type itself is not inserted.           *)
NodesWithout(t) == type_dependency_tree

(* The types that have a node once t has one of its own.                   *)
NodesWith(t) == type_dependency_tree \cup {t}

(* A plausible bug: only a new child learns its parent.                    *)
ParentsOfNew(t, found) ==
    [c \in Type |-> IF c \in found \ NodesWith(t) THEN {t} ELSE parents[c]]

ParentsWith(t, found) ==
    [c \in Type |-> IF c \in found THEN parents[c] \cup {t} ELSE parents[c]]

(* A plausible bug: only the first level of types is enumerated.           *)
NoNewTypes(t, found) == {}

(* A child is queued when it gets its node here, not when it was met before. *)
NewTypes(t, found) == found \ NodesWith(t)

ExpandType(t) ==
    /\ phase = "enumerating" /\ t \in queue /\ t \notin enumerated_type_list
    /\ ExpandedClass(t) \notin ast_context.dependent
    /\ LET found == ChildTypes(ast_context, t)
       IN  /\ children' = [children EXCEPT ![t] = @ \cup found]
           /\ parents' = ParentsWith(t, found)
           /\ type_dependency_tree' = NodesWith(t) \cup found
           /\ queue' = (queue \ {t}) \cup NewTypes(t, found)
    /\ enumerated_type_list' = enumerated_type_list \cup {t}
    /\ type_info_map' = IF ExpandedClass(t) = NoClass THEN type_info_map
                        ELSE type_info_map \cup ClassInformation(ast_context, ExpandedClass(t))
    /\ UNCHANGED <<phase, ast_context, decl, function_map, unvisited, roots, banVars,
                   filterVars>>

SaveFunction ==
    /\ phase = "enumerating" /\ queue = {} /\ roots = {}
    /\ function_map' = [f \in DOMAIN function_map \cup {decl} |->
                          IF f = decl THEN Dependencies(ast_context, f) ELSE function_map[f]]
    /\ phase' = "visiting" /\ decl' = NoFunction
    /\ UNCHANGED <<ast_context, treeVars, visitVars, banVars, filterVars>>

(* A base class whose class is not known: assert(cxx_record_decl != nullptr) *)
(* stops the program, and so does the null dereference that follows it when  *)
(* assertions are compiled out.                                              *)
CollectClassesFails ==
    /\ \/ phase = "visiting" /\ \E f \in unvisited :
              ast_context.owner[f] \in ast_context.dependent
       \/ phase = "enumerating" /\ \E t \in queue \ enumerated_type_list :
              ExpandedClass(t) \in ast_context.dependent
    /\ phase' = "crashed"
    /\ UNCHANGED <<ast_context, decl, function_map, treeVars, visitVars, banVars, filterVars>>

-----------------------------------------------------------------------------
(* finalize(): blacklist the types that lead to a function type.           *)

BeginFinalize ==
    /\ phase = "visiting" /\ unvisited = {}
    /\ phase' = "blacklisting"
    /\ unchecked' = type_dependency_tree /\ blacklisted_type_list' = {}
    /\ UNCHANGED <<ast_context, decl, function_map, treeVars, visitVars, filterVars,
                   propagation_queue, propagated_types>>

SkipBlacklisted(t) ==
    /\ phase = "blacklisting" /\ propagation_queue = {}
    /\ t \in unchecked \cap blacklisted_type_list
    /\ unchecked' = unchecked \ {t}
    /\ UNCHANGED <<phase, ast_context, decl, function_map, treeVars, visitVars, filterVars,
                   blacklisted_type_list, propagation_queue, propagated_types>>

(* A plausible bug: any child at all makes a type bannable.                *)
AnyChildren(t) == children[t]

BannedChildren(t) == {c \in children[t] : IsFunction(ast_context, c)}

(* The test of line 500 reads the front of the queue: a function child when *)
(* there is one, and anything at all when the queue is empty.               *)
CheckType(t) ==
    /\ phase = "blacklisting" /\ propagation_queue = {}
    /\ t \in unchecked \ blacklisted_type_list
    /\ unchecked' = unchecked \ {t} /\ propagated_types' = {}
    /\ \/ BannedChildren(t) # {} /\ propagation_queue' = BannedChildren(t) \cup {t}
       \/ /\ BannedChildren(t) = {}
          /\ \E stale \in StaleFront :
                propagation_queue' = IF IsFunction(ast_context, t) /\ ~stale THEN {t} ELSE {}
    /\ UNCHANGED <<phase, ast_context, decl, function_map, treeVars, visitVars, filterVars,
                   blacklisted_type_list>>

(* A plausible bug: the status moves one level up, and no further.         *)
UpwardOnce(t) == {}

(* What is queued after a type: its parents and grandparents.              *)
Upward(t) == parents[t] \cup UNION {parents[p] : p \in parents[t]}

(* A plausible bug: what was propagated before is propagated again.        *)
PropagateAgain(t) ==
    /\ phase = "blacklisting" /\ t \in propagation_queue
    /\ propagated_types' = propagated_types \cup {t}
    /\ blacklisted_type_list' = blacklisted_type_list \cup {t} \cup parents[t]
    /\ propagation_queue' = (propagation_queue \ {t}) \cup Upward(t)
    /\ UNCHANGED <<phase, ast_context, decl, function_map, treeVars, visitVars, filterVars,
                   unchecked>>

(* One turn of the propagation loop: a type that was already propagated    *)
(* is dropped; else it and its parents are blacklisted, and its parents    *)
(* and grandparents are queued.                                            *)
Propagate(t) ==
    /\ phase = "blacklisting" /\ t \in propagation_queue
    /\ IF t \in propagated_types
         THEN /\ propagation_queue' = propagation_queue \ {t}
              /\ UNCHANGED <<blacklisted_type_list, propagated_types>>
         ELSE /\ propagated_types' = propagated_types \cup {t}
              /\ blacklisted_type_list' = blacklisted_type_list \cup {t} \cup parents[t]
              /\ propagation_queue' = (propagation_queue \ {t}) \cup Upward(t)
    /\ UNCHANGED <<phase, ast_context, decl, function_map, treeVars, visitVars, filterVars,
                   unchecked>>

-----------------------------------------------------------------------------
(* finalize(): drop the functions that share a mangled name, then judge    *)
(* the others one at a time.                                               *)

Named(n) == {f \in DOMAIN function_map : ast_context.mangled[f] = n}

(* A plausible bug: a name clashes from its third declaration on.          *)
ClashingThrice ==
    {n \in Name : \E f, g, h \in Named(n) : f # g /\ g # h /\ f # h}

Clashing == {n \in Name : \E g, h \in Named(n) : g # h}

Blacklisted(f, reason, data) ==
    [decl |-> f, mangled_name |-> ast_context.mangled[f], reason |-> reason,
     reason_data |-> data]

(* One entry per clashing name.  Which declaration comes first depends on  *)
(* the order of function_map, the others become the reason.                *)
RemoveDuplicates ==
    /\ phase = "blacklisting" /\ unchecked = {} /\ propagation_queue = {}
    /\ LET kept == {f \in DOMAIN function_map : ast_context.mangled[f] \notin Clashing}
       IN  /\ \E first \in [Clashing -> Function] :
                /\ \A n \in Clashing : first[n] \in Named(n)
                /\ blacklisted_function_list' =
                      {Blacklisted(first[n], "DuplicateName", Named(n) \ {first[n]}) :
                          n \in Clashing}
           /\ function_map' = [f \in kept |-> function_map[f]]
           /\ unfiltered' = kept
    /\ phase' = "filtering"
    /\ UNCHANGED <<ast_context, decl, treeVars, visitVars, banVars, causeVars,
                   whitelisted_function_list>>

(* A plausible bug: only a parameter that is itself a function is bad.     *)
DirectBadDependencies(f) ==
    {t \in function_map[f] \cap blacklisted_type_list : IsFunction(ast_context, t)}

BadDependencies(f) == function_map[f] \cap blacklisted_type_list

(* A function none of whose dependencies is blacklisted.                   *)
JudgeFunction(f) ==
    /\ phase = "filtering" /\ f \in unfiltered /\ BadDependencies(f) = {}
    /\ unfiltered' = unfiltered \ {f}
    /\ \/ /\ f \in ast_context.variadic
          /\ blacklisted_function_list' =
                blacklisted_function_list \cup {Blacklisted(f, "Variadic", {})}
          /\ UNCHANGED whitelisted_function_list
       \/ /\ f \in ast_context.templated \ ast_context.variadic
          /\ blacklisted_function_list' =
                blacklisted_function_list \cup {Blacklisted(f, "Templated", {})}
          /\ UNCHANGED whitelisted_function_list
       \/ /\ f \notin ast_context.templated \cup ast_context.variadic
          /\ whitelisted_function_list' =
                whitelisted_function_list \cup {ast_context.mangled[f]}
          /\ UNCHANGED blacklisted_function_list
    /\ UNCHANGED <<phase, ast_context, decl, function_map, treeVars, visitVars, banVars,
                   causeVars>>

(* A function with a blacklisted dependency: look for the types that are   *)
(* related to the function pointer, one level per turn of the while loop.  *)
RejectFunction(f) ==
    /\ phase = "filtering" /\ f \in unfiltered /\ BadDependencies(f) # {}
    /\ unfiltered' = unfiltered \ {f} /\ decl' = f
    /\ bad_type_queue' = BadDependencies(f) /\ visited_types' = {}
    /\ phase' = "explaining"
    /\ UNCHANGED <<ast_context, function_map, treeVars, visitVars, banVars, resultVars>>

(* A plausible bug: the descent also follows the harmless types.           *)
AllRelated(types) == UNION {children[t] : t \in types}

Related(types) == blacklisted_type_list \cap UNION {children[t] : t \in types}

(* A plausible bug: the types found in a turn are not handed to the next.  *)
DescendOnce ==
    /\ phase = "explaining" /\ bad_type_queue # {}
    /\ visited_types' = visited_types \cup bad_type_queue /\ bad_type_queue' = {}
    /\ UNCHANGED <<phase, ast_context, decl, function_map, treeVars, visitVars, banVars,
                   unfiltered, resultVars>>

DescendBadTypes ==
    /\ phase = "explaining" /\ bad_type_queue # {}
    /\ visited_types' = visited_types \cup bad_type_queue
    /\ bad_type_queue' = Related(bad_type_queue \ visited_types)
    /\ UNCHANGED <<phase, ast_context, decl, function_map, treeVars, visitVars, banVars,
                   unfiltered, resultVars>>

(* Only the types that have a location are reported.                       *)
CauseEntry == Blacklisted(decl, "FunctionPointer", visited_types \cap type_info_map)

(* A plausible bug: the function is judged again after it was rejected.    *)
ReportAndGoOn ==
    /\ phase = "explaining" /\ bad_type_queue = {}
    /\ blacklisted_function_list' = blacklisted_function_list \cup {CauseEntry}
    /\ whitelisted_function_list' = whitelisted_function_list \cup {ast_context.mangled[decl]}
    /\ phase' = "filtering" /\ decl' = NoFunction /\ visited_types' = {}
    /\ UNCHANGED <<ast_context, function_map, treeVars, visitVars, banVars, unfiltered,
                   bad_type_queue>>

ReportBadTypes ==
    /\ phase = "explaining" /\ bad_type_queue = {}
    /\ blacklisted_function_list' = blacklisted_function_list \cup {CauseEntry}
    /\ phase' = "filtering" /\ decl' = NoFunction /\ visited_types' = {}
    /\ UNCHANGED <<ast_context, function_map, treeVars, visitVars, banVars, unfiltered,
                   bad_type_queue, whitelisted_function_list>>

(* finalize() returns: its own containers go, those of d stay.             *)
EndFinalize ==
    /\ phase = "filtering" /\ unfiltered = {}
    /\ phase' = "finalized" /\ blacklisted_type_list' = {} /\ propagated_types' = {}
    /\ UNCHANGED <<ast_context, decl, function_map, treeVars, visitVars, filterVars, unchecked,
                   propagation_queue>>

-----------------------------------------------------------------------------
EnumerationStep ==
    \/ \E f \in Function : VisitFunctionDecl(f)
    \/ \E t \in Type : EnumerateRoot(t) \/ SkipKnownType(t) \/ ExpandType(t)
    \/ SaveFunction
    \/ CollectClassesFails

FinalizeStep ==
    \/ BeginFinalize
    \/ \E t \in Type : SkipBlacklisted(t) \/ CheckType(t) \/ Propagate(t)
    \/ RemoveDuplicates
    \/ \E f \in Function : JudgeFunction(f) \/ RejectFunction(f)
    \/ DescendBadTypes
    \/ ReportBadTypes
    \/ EndFinalize

Step == EnumerationStep \/ FinalizeStep

Next == (\E tu \in ASTs : Initialize(tu)) \/ Step

Spec == Init /\ [][Next]_vars

(* The visitor is sequential code: started, it runs on.  Nothing obliges   *)
(* the caller to hand over a translation unit.                             *)
FairSpec == Spec /\ WF_vars(Step)

-----------------------------------------------------------------------------
(* Type correctness: which sets the containers of the visitor draw on, and *)
(* when each phase leaves them empty.                                      *)
TypeOK ==
    /\ phase \in {"created", "visiting", "enumerating", "blacklisting", "filtering",
                  "explaining", "finalized", "crashed"}
    /\ IF phase = "created" THEN ast_context = NoAST ELSE ast_context \in ASTs
    /\ unvisited \subseteq Function /\ unfiltered \subseteq DOMAIN function_map
    /\ decl \in Function \cup {NoFunction}
    /\ phase \in {"enumerating", "explaining"} => decl \in Function
    /\ phase \notin {"filtering", "explaining"} => unfiltered = {}
    /\ roots \subseteq Type /\ queue \subseteq Type
    /\ enumerated_type_list \subseteq type_dependency_tree
    /\ type_dependency_tree \subseteq Type
    /\ children \in [Type -> SUBSET Type] /\ parents \in [Type -> SUBSET Type]
    /\ type_info_map \subseteq Type
    /\ function_map \in [DOMAIN function_map -> SUBSET Type]
    /\ DOMAIN function_map \subseteq Function
    /\ unchecked \subseteq Type /\ blacklisted_type_list \subseteq Type
    /\ propagation_queue \subseteq Type /\ propagated_types \subseteq Type
    /\ bad_type_queue \subseteq Type /\ visited_types \subseteq Type
    /\ \A e \in blacklisted_function_list :
          /\ e.decl \in Function /\ e.mangled_name \in Name /\ e.reason \in Reason
          /\ e.reason_data \subseteq Function \cup Type
    /\ whitelisted_function_list \subseteq Name

(* The tree is the type graph of the translation unit, as far as it has    *)
(* been walked, at every step of every walk: a node that was expanded has  *)
(* exactly the child types of its type, parents mirror children, every     *)
(* type named by a node has a node of its own (so the at() calls of        *)
(* finalize() cannot throw), and a node that was not expanded yet is in    *)
(* the queue (so that no part of the graph is left behind when a walk      *)
(* meets types that an earlier walk already knows).                        *)
TreeConsistent ==
    /\ \A t \in Type : children[t] =
          IF t \in enumerated_type_list THEN ChildTypes(ast_context, t) ELSE {}
    /\ \A t, c \in Type : c \in children[t] <=> t \in parents[c]
    /\ \A t \in enumerated_type_list : children[t] \subseteq type_dependency_tree
    /\ type_dependency_tree \subseteq enumerated_type_list \cup queue
    /\ queue # {} => phase \in {"enumerating", "crashed"}

(* What finalize() works on is complete: every function of the map has its *)
(* dependencies in the tree, and from a type of the tree no child type     *)
(* leads out of it, whichever declarations and types came first.           *)
EnumerationComplete ==
    /\ \A f \in DOMAIN function_map : function_map[f] = Dependencies(ast_context, f)
    /\ phase \notin {"created", "enumerating", "crashed"} =>
          /\ \A f \in DOMAIN function_map : function_map[f] \subseteq type_dependency_tree
          /\ \A t \in type_dependency_tree :
                ChildTypes(ast_context, t) \subseteq type_dependency_tree
    /\ phase = "blacklisting" => DOMAIN function_map = ast_context.decls

(* No type is blacklisted, or about to be, that does not lead to a         *)
(* function type.                                                          *)
BlacklistSound ==
    blacklisted_type_list \cup propagation_queue # {} =>
        blacklisted_type_list \cup propagation_queue \subseteq Bannable(ast_context)

(* A function type that sees no other type: a prototype as it is.          *)
Bare(t) == IsFunction(ast_context, t) /\ ChildTypes(ast_context, t) = {}

(* Once the propagation is over, every type of the tree that leads to a    *)
(* function type is blacklisted, in whatever order the nodes were tested   *)
(* and although a node that is already blacklisted is not tested at all.   *)
(* If front() of an empty queue may return anything, bare function types   *)
(* can be missed, and nothing else.                                        *)
BlacklistComplete ==
    phase \in {"filtering", "explaining"} =>
        \A t \in type_dependency_tree \cap Bannable(ast_context) :
            t \in blacklisted_type_list \/ (TRUE \in StaleFront /\ Bare(t))

BlacklistedNames == {e.mangled_name : e \in blacklisted_function_list}
PendingNames ==
    {ast_context.mangled[f] : f \in unfiltered \cup ({decl} \ {NoFunction})}

(* Every declared name is accounted for exactly once, at each step of the  *)
(* filter: as a blacklisted function, as a whitelisted one, or as one that *)
(* is still to be judged; and no two blacklisted functions share a name.   *)
NamesAccounted ==
    phase \in {"filtering", "explaining", "finalized"} =>
        /\ BlacklistedNames \cup whitelisted_function_list \cup PendingNames
              = {ast_context.mangled[f] : f \in ast_context.decls}
        /\ BlacklistedNames \cap whitelisted_function_list = {}
        /\ PendingNames \cap (BlacklistedNames \cup whitelisted_function_list) = {}
        /\ \A d, e \in blacklisted_function_list :
              d.mangled_name = e.mangled_name => d = e

(* The verdicts are those of the rules: no function that is whitelisted    *)
(* depends on a type that leads to a function type, is variadic, is        *)
(* templated or shares its name, and each blacklisted function carries the *)
(* first reason that applies to it.                                        *)
VerdictsSound ==
    /\ \A n \in whitelisted_function_list : Verdict(ast_context, n) = "Whitelisted"
    /\ \A e \in blacklisted_function_list :
          e.reason = Verdict(ast_context, e.mangled_name)

(* A function that is rejected because of its types names its causes: at   *)
(* least one (the "Failed to determine the type locations" branch is never *)
(* taken), and all the located types that lead from its dependencies to a  *)
(* function type, and only those.                                          *)
CausesExact ==
    \A e \in blacklisted_function_list : e.reason = "FunctionPointer" =>
        /\ e.reason_data # {}
        /\ e.reason_data =
              BannableBelow(ast_context, Dependencies(ast_context, e.decl)) \cap type_info_map

(* The same when front() of an empty queue may return anything: all it can *)
(* cost are verdicts on functions whose every bad dependency is a bare     *)
(* function type, given by value; a pointer to a function, or a struct     *)
(* that holds one, is never let through.                                   *)
OnlyBareFunctions(f) ==
    LET bad == Dependencies(ast_context, f) \cap Bannable(ast_context)
    IN  bad # {} /\ \A t \in bad : Bare(t)

VerdictsBounded ==
    /\ \A n \in whitelisted_function_list :
          Verdict(ast_context, n) = "Whitelisted"
            \/ \E f \in Declared(ast_context, n) : OnlyBareFunctions(f)
    /\ \A e \in blacklisted_function_list :
          e.reason = Verdict(ast_context, e.mangled_name) \/ OnlyBareFunctions(e.decl)

(* And of the causes that a rejected function names: there is at least one *)
(* and no wrong one, and one that is left out is a bare function type.     *)
CausesBounded ==
    \A e \in blacklisted_function_list : e.reason = "FunctionPointer" =>
        LET causes == type_info_map
                        \cap BannableBelow(ast_context, Dependencies(ast_context, e.decl))
        IN  /\ e.reason_data # {}
            /\ e.reason_data \subseteq causes
            /\ \A t \in causes \ e.reason_data : TRUE \in StaleFront /\ Bare(t)

-----------------------------------------------------------------------------
(* What is left to do for a unit, the part that counts most first: stages  *)
(* of the visitor, and then sets that a loop empties, or whose complement  *)
(* it fills.                                                               *)
PhasesLeft ==
    CASE phase = "created" -> 4 [] phase \in {"visiting", "enumerating"} -> 3
      [] phase = "blacklisting" -> 2 [] phase \in {"filtering", "explaining"} -> 1 [] OTHER -> 0

Remaining ==
    <<unvisited, unfiltered, unchecked, {decl} \ {NoFunction}, roots,
      Type \ enumerated_type_list, queue, Type \ propagated_types, propagation_queue,
      Type \ visited_types, bad_type_queue>>

Shrinks(S, T) == S \subseteq T /\ S # T

Advances ==
    \/ PhasesLeft' < PhasesLeft
    \/ /\ PhasesLeft' = PhasesLeft
       /\ \E i \in 1 .. 11 : /\ Shrinks(Remaining'[i], Remaining[i])
                             /\ \A j \in 1 .. i - 1 : Remaining'[j] = Remaining[j]

(* No step of a walk, of the propagation (which goes around the cycles of  *)
(* recursive types), of the filter or of the descent leaves the visitor    *)
(* with as much to do as before; only a new unit does.                     *)
EveryStepAdvances == [][phase # "finalized" => Advances]_vars

-----------------------------------------------------------------------------
stage == CASE phase = "created"   -> "idle"
           [] phase = "finalized" -> "done"
           [] phase = "crashed"   -> "failed"
           [] OTHER               -> "busy"

verdicts ==
    IF phase # "finalized" THEN {}
    ELSE {<<e.mangled_name, e.reason>> : e \in blacklisted_function_list}
            \cup {<<n, "Whitelisted">> : n \in whitelisted_function_list}

Filter == INSTANCE AbiFilter WITH unit <- ast_context

(* The visitor implements the abstract filter: for every order in which    *)
(* containers are walked, and however many units were handed over before,  *)
(* it ends, and its results are the verdicts on that unit alone.           *)
ImplementsAbiFilter == Filter!AbsSpec

-----------------------------------------------------------------------------
(* Claims of comments and assertions of the code, which it does not keep.  *)

(* The class, its base classes, the base classes of these, and so on.      *)
AllBaseClasses(tu, c) ==
    {b \in Class : \A S \in SUBSET Class :
        ({c} \cup UNION {tu.bases[k] : k \in S} \subseteq S) => b \in S}

(* astvisitor.h, collectClasses: "Returns the class itself plus all the    *)
(* base classes"; a method depends on the fields of what it returns.       *)
AllBaseClassesCollected ==
    \A f \in DOMAIN function_map : ast_context.owner[f] # NoClass =>
        MemberTypes(ast_context, AllBaseClasses(ast_context, ast_context.owner[f]))
            \subseteq function_map[f]

(* astvisitor.h, enumerateTypeDependencies: "Descends into the given type, *)
(* enumerating all child types"; what a reference refers to is one.        *)
ReferentsEnumerated ==
    phase = "finalized" => \A t \in enumerated_type_list :
        ast_context.kind[t] = "Reference" => ast_context.inner[t] \in enumerated_type_list
=============================================================================
