------------------------ MODULE MCGenerateWithVisitor ------------------------
(***************************************************************************)
(* Three headers.  "a.h" declares a struct T and two functions, f, which   *)
(* is given a pointer to T, and g.  "b.h" defines T, as a recursive struct *)
(* with a callback, and declares a variadic function h.  "c.h" declares g  *)
(* again.  So the verdicts on f and on g depend on what is included.       *)
(* Under its prefix, "b.h" is another header: a class template T whose     *)
(* base is the parameter, and a function template t whose pattern has no   *)
(* mangled name.                                                           *)
(***************************************************************************)
EXTENDS GenerateWithVisitor

MCHeader == {"a", "b", "c"}
MCDirective == {"a.h", "b.h", "sub/b.h", "c.h"}
MCDirectives == [a |-> <<"a.h">>, b |-> <<"b.h", "sub/b.h">>, c |-> <<"c.h">>]
MCFolders == <<MCHeader>>

MCType == {"T", "T_p", "fun_p", "fun"}
MCClass == {"T"}
MCFunction == {"f", "g", "g2", "h", "t"}
MCName == {"f", "g", "h", "t"}
MCUnmanglable == {"t"}

UnitOf(included) ==
    [kind |-> [T |-> "Record", T_p |-> "Pointer", fun_p |-> "Pointer", fun |-> "Function"],
     inner |-> [T |-> "T", T_p |-> "T", fun_p |-> "fun", fun |-> "fun"],
     desugared |-> [t \in MCType |-> t],
     record |-> [t \in MCType |-> IF t = "T" THEN "T" ELSE NoClass],
     class_type |-> [T |-> {}], bases |-> [T |-> {}],
     dependent |-> IF "sub/b.h" \in included THEN {"T"} ELSE {},
     fields |-> [T |-> IF "b.h" \in included THEN {"T_p", "fun_p"} ELSE {}],
     methods |-> [T |-> {}],
     decls |-> (IF "a.h" \in included THEN {"f", "g"} ELSE {})
                  \cup (IF "b.h" \in included THEN {"h"} ELSE {})
                  \cup (IF "sub/b.h" \in included THEN {"t"} ELSE {})
                  \cup (IF "c.h" \in included THEN {"g2"} ELSE {}),
     params |-> [m \in MCFunction |-> IF m = "f" THEN {"T_p"} ELSE {}],
     owner |-> [m \in MCFunction |-> NoClass],
     mangled |-> [m \in MCFunction |-> IF m = "g2" THEN "g" ELSE m],
     variadic |-> {"h"}, templated |-> {"t"}]

MCAst == [list \in List |-> UnitOf(ToSet(list))]
MCASTs == {UnitOf(included) : included \in SUBSET MCDirective}

(* In C every name is the identifier; in C++ that of g is mangled.         *)
InCXX == {"f", "h", "t"}
==============================================================================
