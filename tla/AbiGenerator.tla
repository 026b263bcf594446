---------------------------- MODULE AbiGenerator ----------------------------
(***************************************************************************)
(* What the generate command promises to whoever runs it, without the      *)
(* search, the visitor or the output files: it asks the compiler about     *)
(* lists of headers, and then either delivers an ABI library, for a list   *)
(* that compiles, with names that can all be mangled, and with the verdicts *)
(* of the rules on what that list declares; or gives up and delivers       *)
(* nothing.                                                                *)
(***************************************************************************)
EXTENDS AbiRules

CONSTANTS
    List,      \* the lists of headers there may be
    ast,       \* the translation unit that a list parses to
    Unmanglable, \* the functions whose name the mangler reports an error for
    NoLibrary

VARIABLES
    stage,            \* "working", "delivered" or "failed"
    compiles, fails,  \* the lists that compile, and that do not, as far as known
    library

genVars == <<stage, compiles, fails, library>>

(* The library for a list of headers: what it includes, the functions it   *)
(* names, and those it leaves out, with the reason.                        *)
LibraryFor(list) ==
    [header_list |-> list,
     whitelisted |-> {v[1] : v \in {w \in Verdicts(ast[list]) : w[2] = "Whitelisted"}},
     blacklisted |-> {v \in Verdicts(ast[list]) : v[2] # "Whitelisted"}]

-----------------------------------------------------------------------------
GenInit == stage = "working" /\ compiles = {} /\ fails = {} /\ library = NoLibrary

(* The compiler does not contradict itself.                                *)
Answer(list) ==
    \/ list \notin fails /\ compiles' = compiles \cup {list} /\ UNCHANGED fails
    \/ list \notin compiles /\ fails' = fails \cup {list} /\ UNCHANGED compiles

Ask(list) == stage = "working" /\ Answer(list) /\ UNCHANGED <<stage, library>>

Deliver ==
    /\ stage = "working" /\ stage' = "delivered"
    /\ \E list \in compiles :
          ast[list].decls \cap Unmanglable = {} /\ library' = LibraryFor(list)
    /\ UNCHANGED <<compiles, fails>>

(* The last list asked about may be what it gives up on.                   *)
GiveUp ==
    /\ stage = "working" /\ stage' = "failed" /\ UNCHANGED library
    /\ UNCHANGED <<compiles, fails>> \/ \E list \in List : Answer(list)

GenNext == (\E list \in List : Ask(list)) \/ Deliver \/ GiveUp

(* It asks for a while, not for ever.                                      *)
GenSpec == GenInit /\ [][GenNext]_genVars /\ <>(stage # "working")
=============================================================================
