--------------------------- MODULE TranslationUnit ---------------------------
(***************************************************************************)
(* What abigen reads of one parsed translation unit, and the pure queries  *)
(* ASTVisitor makes of it (src/src/astvisitor.cpp).                        *)
(*                                                                         *)
(* The clang AST is external: a translation unit is a record that keeps    *)
(* only what those queries look at.  A type is identified by its           *)
(* clang::Type pointer, so a typedef of a type is another type; "kind" is  *)
(* the kind of the CANONICAL type, because the predicates the code calls   *)
(* (isPointerType, isRecordType, isFunctionType, ...) see through sugar.   *)
(***************************************************************************)
CONSTANTS
    Type,      \* the clang::Type nodes
    Class,     \* the record declarations, of C and of C++
    Function,  \* the clang::FunctionDecl nodes, methods included
    Name,      \* the mangled names
    NoClass,   \* the null record declaration
    ASTs,      \* the translation units considered
    NoAST      \* the null translation unit

Kind == {"Pointer", "Record", "Array", "Function", "Reference", "Builtin"}

(***************************************************************************)
(* inner      the pointee of a pointer, the element of an array, what a    *)
(*            reference refers to                                          *)
(* desugared  the type one sugar step below (the type itself: canonical)   *)
(* record     the declaration of a record type                             *)
(* class_type the type of a DEFINED C++ class (getTypeForDecl); {} for a C *)
(*            struct and for a class that is only declared                 *)
(* bases      the DIRECT base classes that are known                       *)
(* dependent  the classes that have a base whose class is not known, which *)
(*            is the case of a base that depends on a template parameter   *)
(* fields     the types of the fields that were written in the source      *)
(* methods    the methods the class declares, implicit ones included       *)
(* decls      the declarations the RecursiveASTVisitor visits              *)
(* params     the types of the parameters that were written in the source  *)
(* owner      the class of a method                                        *)
(***************************************************************************)
TranslationUnits ==
    [kind : [Type -> Kind], inner : [Type -> Type], desugared : [Type -> Type],
     record : [Type -> Class \cup {NoClass}], class_type : [Class -> SUBSET Type],
     bases : [Class -> SUBSET Class], dependent : SUBSET Class,
     fields : [Class -> SUBSET Type], methods : [Class -> SUBSET Function],
     decls : SUBSET Function, params : [Function -> SUBSET Type],
     owner : [Function -> Class \cup {NoClass}], mangled : [Function -> Name],
     variadic : SUBSET Function, templated : SUBSET Function]

ASSUME ASTsAssumption ==
    /\ NoClass \notin Class /\ NoAST \notin ASTs
    /\ ASTs \subseteq TranslationUnits
    /\ \A tu \in ASTs, t \in Type :
          /\ tu.kind[t] = "Record" => tu.record[t] \in Class
          /\ tu.kind[tu.desugared[t]] = tu.kind[t]

-----------------------------------------------------------------------------
(* The class and its direct base classes: the bases of the bases are not   *)
(* followed.                                                               *)
ClassList(tu, c) == {c} \cup tu.bases[c]

ClassTypes(tu, class_list) == UNION {tu.class_type[c] : c \in class_list}

MemberTypes(tu, class_list) == UNION {tu.fields[c] : c \in class_list}

ClassMethods(tu, class_list) == UNION {tu.methods[c] : c \in class_list}

ParameterTypes(tu, methods) == UNION {tu.params[m] : m \in methods}

(* What a class refers to: the types of the fields and of the parameters   *)
(* of the methods.  The type a method returns is not collected.            *)
ClassDependencies(tu, c) ==
    MemberTypes(tu, ClassList(tu, c))
        \cup ParameterTypes(tu, ClassMethods(tu, ClassList(tu, c)))

(* A method depends on everything its class refers to.                     *)
Dependencies(tu, f) ==
    IF tu.owner[f] # NoClass THEN ClassDependencies(tu, tu.owner[f]) ELSE tu.params[f]

(* The types that enter type_info_map when a class, or a declaration, is   *)
(* collected.                                                              *)
ClassInformation(tu, c) ==
    ClassTypes(tu, ClassList(tu, c)) \cup ClassDependencies(tu, c)

DeclInformation(tu, f) ==
    IF tu.owner[f] # NoClass THEN ClassInformation(tu, tu.owner[f]) ELSE tu.params[f]

(* The types one step below a type.  A reference is canonical and has no   *)
(* child, nor has a function type.                                         *)
ChildTypes(tu, t) ==
    CASE tu.kind[t] \in {"Pointer", "Array"} -> {tu.inner[t]}
      [] tu.kind[t] = "Record"               -> ClassDependencies(tu, tu.record[t])
      [] OTHER                               -> {tu.desugared[t]} \ {t}

(* A function type or a pointer to one, through any sugar.                 *)
IsFunction(tu, t) ==
    \/ tu.kind[t] = "Function"
    \/ tu.kind[t] = "Pointer" /\ tu.kind[tu.inner[t]] = "Function"
=============================================================================
