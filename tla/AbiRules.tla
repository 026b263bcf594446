------------------------------- MODULE AbiRules -------------------------------
(***************************************************************************)
(* The rules abigen applies to a translation unit, stated without any of   *)
(* the loops and containers that apply them: which types are bannable, and *)
(* the verdict on each declared name.  Bannable is written as an           *)
(* intersection of closed sets rather than by recursion, so that it can be *)
(* reasoned about.                                                         *)
(***************************************************************************)
EXTENDS TranslationUnit

(* The types that reach a function type through ChildTypes, as the least   *)
(* set that holds the function types and, with a type, every type that has *)
(* it as a child.                                                          *)
ClosedUpward(tu, S) ==
    \A t \in Type : (IsFunction(tu, t) \/ ChildTypes(tu, t) \cap S # {}) => t \in S

Bannable(tu) == {t \in Type : \A S \in SUBSET Type : ClosedUpward(tu, S) => t \in S}

(* The bannable types below the types in R, R's own included, which is     *)
(* what a rejected function is reported to be caused by.                   *)
BannableBelow(tu, R) ==
    LET bad == Bannable(tu)
    IN  {t \in bad : \A S \in SUBSET bad :
            (R \cap bad) \cup UNION {ChildTypes(tu, s) \cap bad : s \in S} \subseteq S
                => t \in S}

(* The verdict on a function that has its name for itself: the reasons are *)
(* tried in this order.                                                    *)
FunctionVerdict(tu, f) ==
    IF Dependencies(tu, f) \cap Bannable(tu) # {} THEN "FunctionPointer"
    ELSE IF f \in tu.variadic THEN "Variadic"
    ELSE IF f \in tu.templated THEN "Templated"
    ELSE "Whitelisted"

Declared(tu, n) == {f \in tu.decls : tu.mangled[f] = n}

(* The verdict on a declared name.                                         *)
Verdict(tu, n) ==
    IF \E g, h \in Declared(tu, n) : g # h
      THEN "DuplicateName"
      ELSE FunctionVerdict(tu, CHOOSE f \in Declared(tu, n) : TRUE)

Verdicts(tu) ==
    {<<n, Verdict(tu, n)>> : n \in {tu.mangled[f] : f \in tu.decls}}
===============================================================================
