------------------------------- MODULE MCMain -------------------------------
(***************************************************************************)
(* Four profile files, two of which give the same name and one of which is *)
(* malformed, spread over the two root folders; and command lines of up to *)
(* two subcommands.                                                        *)
(***************************************************************************)
EXTENDS Main

MCFile    == {"f1", "f2", "f3", "f4"}
MCName    == {"ubuntu", "debian"}
MCContent == [f \in MCFile |-> CASE f \in {"f1", "f2"} -> "ubuntu"
                                 [] f = "f3" -> "debian" [] f = "f4" -> Malformed]

(* The working directory has no root, an empty one, one with a malformed   *)
(* file, or one with all the files; the system has "f1" installed, or not. *)
MCDisks ==
    {[exists |-> roots, files |-> [r \in Root |-> IF r = "working" THEN files ELSE {"f1"}]] :
        roots \in SUBSET Root, files \in {{}, {"f4"}, MCFile}}

MCFolder     == {"include", "headers"}
MCDefinition == DOMAIN language_descriptors \cup {"cobol"}

Given(command, name, language, gnu, folders) ==
    [command |-> command, profile_name |-> name, language |-> language, gnu |-> gnu,
     include_folders |-> folders,
     header_folders |-> IF command = "generate" THEN {"headers"} ELSE {}]

Plain(command) == Given(command, "ubuntu", "c99", FALSE, {})

(* Alone: each command, with each language, profile and flag.              *)
Single ==
    {Plain("version"), Plain("list_profiles"), Plain("list_languages")}
        \cup {Given(c, "ubuntu", l, TRUE, {"include"}) :
                c \in {"generate", "compile"}, l \in MCDefinition}
        \cup {Given(c, "debian", l, FALSE, {}) :
                c \in {"generate", "compile"}, l \in {"c11", "cxx14"}}

(* Two commands on one line, which share their options.                    *)
Pairs ==
    {{Given(c, n, l, TRUE, {"include"}), Given(d, m, k, FALSE, {})} :
        c \in {"generate", "compile"}, d \in {"compile", "generate"}, n \in {"ubuntu"},
        m \in MCName, l \in {"c11", "cxx14"}, k \in {"c11", "cxx14", "cobol"}}
        \cup {{Plain("version"), Plain("compile")}, {Plain("generate"), Plain("version")}}

MCCommandLines ==
    {{}} \cup {{s} : s \in Single}
        \cup {p \in Pairs : \A s, t \in p : s.command = t.command => s = t}

(* For the claim about the folders: one command, one well formed file.   *)
OneDisk == {[exists |-> {"install"}, files |-> [r \in Root |-> {"f1"}]]}
WithFolders == {{Given("generate", "ubuntu", "c11", FALSE, {"include"})},
                {Given("compile", "ubuntu", "c11", FALSE, {"include"})}}
=============================================================================
