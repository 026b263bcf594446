-------------------------- MODULE MCGenerateCommand --------------------------
(***************************************************************************)
(* Two folders of headers: "a" and "b" in the first, "c", "d" and "e" in   *)
(* the second.  "b" is in a subfolder and may be included with its prefix; *)
(* "c" has the name of "a", so that the two headers share a directive.     *)
(*                                                                         *)
(* Of the answers of the compiler, IncludedExact picks those where "a"     *)
(* needs "b", which parses under its prefix only and needs "c", and where  *)
(* "d" and "e" need each other.                                            *)
(***************************************************************************)
EXTENDS HeaderDependencies

MCHeader     == {"a", "b", "c", "d", "e"}
MCDirective  == {"a.h", "b.h", "sub/b.h", "sub/a.h", "d.h", "e.h"}
MCDirectives == [a |-> <<"a.h">>, b |-> <<"b.h", "sub/b.h">>, c |-> <<"a.h", "sub/a.h">>,
                 d |-> <<"d.h">>, e |-> <<"e.h">>]
MCFolders    == <<{"a", "b"}, {"c", "d", "e"}>>

MCGood  == MCDirective \ {"b.h"}
MCNeeds == [d \in MCDirective |-> CASE d = "a.h"     -> {"b"}
                                    [] d = "sub/b.h" -> {"c"}
                                    [] d = "d.h"     -> {"e"}
                                    [] d = "e.h"     -> {"d"}
                                    [] OTHER         -> {}]
==============================================================================
