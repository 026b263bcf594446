------------------------- MODULE HeaderDependencies -------------------------
(***************************************************************************)
(* What the passes of the generate command are for: headers that compile   *)
(* only after others.  GenerateCommand lets the compiler answer freely;    *)
(* here are the answers it gives when a directive parses after the headers *)
(* that it needs, and headers never conflict.  The order of the directory  *)
(* iterator should then have no influence on which headers the library     *)
(* gets.                                                                   *)
(***************************************************************************)
EXTENDS GenerateCommand

CONSTANTS
    good,   \* the directives that parse once their needs are met
    needs   \* the headers that a directive needs before it

ASSUME NeedsAssumption ==
    /\ good \subseteq Directive
    /\ needs \in [Directive -> SUBSET Header]
ASSUME FoundAssumption == Header = UNION {folders[i] : i \in 1 .. Len(folders)}

-----------------------------------------------------------------------------
(* The headers that the first directives of a list bring in.               *)
Provided(list, count) ==
    {h \in Header : \E i \in 1 .. count : list[i] \in ToSet(directives[h])}

(* The base includes parse on their own, and so does the empty list.       *)
Parses(list) ==
    \A j \in 1 .. Len(list) : list[j] \in good /\ needs[list[j]] \subseteq Provided(list, j - 1)

(* The compiler has answered so, up to now.                                *)
AnsweredByNeeds ==
    /\ \A list \in compiles : Parses(list)
    /\ \A list \in fails : ~Parses(list)

-----------------------------------------------------------------------------
(* The headers that can be included at all, in some order: the least set   *)
(* that has each header all of whose needs, for one of its directives, are *)
(* in the set.  Headers that need each other are not in it.                *)
Closed(S) ==
    \A h \in Header :
        (\E d \in ToSet(directives[h]) : d \in good /\ needs[d] \subseteq S) => h \in S

Importable == {h \in Header : \A S \in SUBSET Header : Closed(S) => h \in S}

(* Whatever the order in which the folders list their headers, and though  *)
(* a header is refused each time it comes before what it needs: when the   *)
(* passes stop, exactly the headers that could be included are included.   *)
IncludedExact ==
    ~OutOfMemory /\ AnsweredByNeeds /\ pc \in {"visit", "compile", "render", "open", "write"}
        => Included = Importable
=============================================================================
