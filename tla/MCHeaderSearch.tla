--------------------------- MODULE MCHeaderSearch ---------------------------
(***************************************************************************)
(* Two header folders, "inc" and "lib/", the second written with a slash.  *)
(* Both have a header "x"; "z" has its name for itself; "y" is two folders *)
(* down, and the profile has another "y", which comes first.  The library  *)
(* is written to a folder of its own, and is called "z" as well.           *)
(***************************************************************************)
EXTENDS HeaderSearch

MCFileName == {"inc", "lib", "sub", "deep", "usr", "out", "x", "y", "z"}
MCHeaderName == {"x", "y", "z"}

MCFiles == {<<"inc", "x">>, <<"inc", "sub", "deep", "y">>, <<"lib", "x">>, <<"lib", "z">>,
            <<"usr", "y">>}

MCProfileFolders == <<<<"usr">>>>
MCHeaderFolders == <<[path |-> <<"inc">>, slash |-> FALSE], [path |-> <<"lib">>, slash |-> TRUE]>>

MCOutput == <<"out", "z">>
=============================================================================
