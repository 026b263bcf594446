---------------------------- MODULE MCASTVisitor ----------------------------
(***************************************************************************)
(* Small translation units for the AST visitor.  The types:                *)
(*   "int"    a builtin type                "fun"   a function type         *)
(*   "fun_p"  a pointer to "fun"            "T"     a struct                *)
(*   "T_p"    a pointer to "T"              "T_r"   a reference to "T"      *)
(***************************************************************************)
EXTENDS ASTVisitor

MCClass    == {"T", "B", "A"}
MCFunction == {"f", "g", "h"}
MCName     == {"f", "g", "h"}

MCType          == {"int", "fun", "fun_p", "T", "T_p"}
MCTypeReference == MCType \cup {"T_r"}

kinds == [t \in Type |-> CASE t = "int" -> "Builtin" [] t = "fun" -> "Function"
                           [] t = "T" -> "Record" [] t = "T_r" -> "Reference"
                           [] OTHER -> "Pointer"]
inners == [t \in Type |-> CASE t = "fun_p" -> "fun" [] t \in {"T_p", "T_r"} -> "T"
                            [] OTHER -> t]

(* A unit in C: a struct T with the given fields, three functions with the *)
(* given parameters.                                                       *)
Unit(fields, f, g, h) ==
    [kind |-> kinds, inner |-> inners, desugared |-> [t \in Type |-> t],
     record |-> [t \in Type |-> IF t = "T" THEN "T" ELSE NoClass],
     class_type |-> [c \in MCClass |-> {}], bases |-> [c \in MCClass |-> {}],
     dependent |-> {}, fields |-> [c \in MCClass |-> IF c = "T" THEN fields ELSE {}],
     methods |-> [c \in MCClass |-> {}], decls |-> MCFunction,
     params |-> [m \in MCFunction |-> CASE m = "f" -> f [] m = "g" -> g [] m = "h" -> h],
     owner |-> [m \in MCFunction |-> NoClass], mangled |-> [m \in MCFunction |-> m],
     variadic |-> {}, templated |-> {}]

(* A callback in a recursive struct; a plain function; a function that is  *)
(* given a function by value, which keeps its type as it was written.      *)
Callbacks == Unit({"T_p", "fun_p"}, {"T_p"}, {"int"}, {"fun"})

(* Two declarations of f, and a variadic function.                         *)
Redeclared == [Unit({"int", "T_p"}, {"int"}, {"T_p"}, {"int"}) EXCEPT
                 !.mangled["g"] = "f", !.variadic = {"h"}]

(* Class T derives from B, whose method h takes a function pointer; f is a *)
(* method of T, g a templated function given a T.                          *)
Classes == [Unit({"int"}, {"int"}, {"T_p"}, {"fun_p"}) EXCEPT
              !.class_type["T"] = {"T"}, !.bases["T"] = {"B"},
              !.methods["T"] = {"f"}, !.methods["B"] = {"h"},
              !.owner["f"] = "T", !.owner["h"] = "B", !.templated = {"g"}]

(* A class whose fields are harmless, with a templated method and a        *)
(* variadic one, and a function in the same unit.                          *)
Templates == [Unit({"int", "T_p"}, {"int"}, {"int"}, {"T"}) EXCEPT
                !.class_type["T"] = {"T"}, !.methods["T"] = {"f", "g"},
                !.owner["f"] = "T", !.owner["g"] = "T",
                !.templated = {"f", "g"}, !.variadic = {"f"}]

Units == {Callbacks, Redeclared, Classes, Templates}

-----------------------------------------------------------------------------
(* A class template whose base depends on the parameter: reached through a *)
(* method, and through a parameter of another function.                    *)
DependentBase ==
    {[Templates EXCEPT !.dependent = {"T"}],
     [Templates EXCEPT !.dependent = {"T"}, !.decls = {"h"}]}

(* T derives from B, B from A, and A has a field that is a callback.       *)
Inherited == {[Templates EXCEPT !.bases["T"] = {"B"}, !.bases["B"] = {"A"},
                                !.fields["A"] = {"fun_p"}, !.decls = {"f"}]}

(* A struct with a callback, given by reference.                           *)
ByReference == {[Unit({"fun_p"}, {"T_r"}, {"int"}, {"int"}) EXCEPT
                    !.decls = {"f"}]}

-----------------------------------------------------------------------------
(* Every unit over a struct "T", a pointer "T_p", a third type "fun_p" and *)
(* a last type "fun": any fields, any pointee, the third a pointer as well *)
(* or a name for one of the others, the last a function type or not, and   *)
(* two functions that take any parameters.                                 *)
Graphs ==
    {[Unit(fields, f, g, {}) EXCEPT
        !.kind["fun"] = last, !.kind["fun_p"] = IF under = "T_p" THEN "Pointer" ELSE last,
        !.inner["T_p"] = pointee, !.inner["fun_p"] = IF under = "T_p" THEN pointee ELSE "fun_p",
        !.desugared["fun_p"] = under, !.decls = {"f", "g"}] :
            fields \in SUBSET {"T_p", "fun_p", "fun"}, pointee \in {"T", "fun"},
            under \in {"T_p", "fun"}, last \in {"Function", "Builtin"},
            f \in {{"T"}, {"T_p"}, {"fun_p"}, {"fun"}},
            g \in {{"T_p", "fun"}, {"fun_p", "T"}}}

(* Those where a function takes the struct and the third type.             *)
RootedGraphs == {tu \in Graphs : tu.params["g"] = {"fun_p", "T"}}

MCASTs == Units \cup DependentBase \cup RootedGraphs
=============================================================================
