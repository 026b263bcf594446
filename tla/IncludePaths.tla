---------------------------- MODULE IncludePaths ----------------------------
(***************************************************************************)
(* How a header on disk becomes the text of an #include, and which file    *)
(* that text names (src/src/generate_utils.cpp).                           *)
(*                                                                         *)
(* A path is the sequence of its names from the root.  A header folder is  *)
(* the path it was given as, and whether it was written with a trailing    *)
(* slash: stdfs::absolute keeps the slash, and a path that has one never   *)
(* equals a path that was built by parent_path().                          *)
(***************************************************************************)
EXTENDS Naturals, Sequences, FiniteSets

CONSTANTS
    FileName,
    HeaderName,       \* the names with one of the valid extensions
    files,            \* the paths of the regular files on disk
    profile_folders,  \* the system include folders of the profile, in order
    header_folders    \* cmdline_options.header_folders, in order

Path == Seq(FileName) \ {<<>>}
Folder == [path : Seq(FileName), slash : BOOLEAN]

ASSUME PathsAssumption ==
    /\ HeaderName \subseteq FileName
    /\ files \subseteq Path /\ IsFiniteSet(files)
    /\ profile_folders \in Seq(Seq(FileName))
    /\ header_folders \in Seq(Folder)

-----------------------------------------------------------------------------
NameOf(path) == path[Len(path)]

(* The last k folders of a path.                                           *)
LastFolders(path, k) == SubSeq(path, Len(path) - k, Len(path) - 1)

Below(path, folder) ==
    Len(folder) < Len(path) /\ SubSeq(path, 1, Len(folder)) = folder

(* The headers that the recursive iterator finds in a folder.              *)
Found(folder) == {p \in files : Below(p, folder.path) /\ NameOf(p) \in HeaderName}

(* The parent path that the loop looks at in its (k+1)-th turn.            *)
ParentPath(path, k) == SubSeq(path, 1, Len(path) - 1 - k)

EndsAt(folder, parent) == parent = <<>> \/ (~folder.slash /\ parent = folder.path)

(* The turns of the loop: as many as no parent before has ended it.        *)
Turns(folder, path) ==
    {k \in 1 .. Len(path) - 1 :
        \A j \in 0 .. k - 1 : ~EndsAt(folder, ParentPath(path, j))}

(* A plausible bug: a prefix is one folder, not joined to the one before.  *)
LastFolderOnly(folder, path) == [k \in Turns(folder, path) |-> <<path[Len(path) - k]>>]

(* Each prefix puts one more folder before the previous one.               *)
PossiblePrefixes(folder, path) ==
    [k \in Turns(folder, path) |-> LastFolders(path, k)]

(* The name alone comes first, then the name after each prefix.            *)
IncludeDirectives(folder, path) ==
    LET prefixes == PossiblePrefixes(folder, path)
    IN  <<<<NameOf(path)>>>> \o [k \in DOMAIN prefixes |-> Append(prefixes[k], NameOf(path))]

-----------------------------------------------------------------------------
NoFile == <<>>

(* Where clang looks for an #include <...>: the folders of the profile,    *)
(* then the folders that are scanned, as additional include folders.       *)
SearchList == profile_folders \o [i \in DOMAIN header_folders |-> header_folders[i].path]

(* The first of the candidates that is a file of the disk.                 *)
IsFirst(i, candidates, disk) ==
    candidates[i] \in disk /\ \A j \in 1 .. i - 1 : candidates[j] \notin disk

FirstFile(candidates, disk) ==
    IF \E i \in DOMAIN candidates : IsFirst(i, candidates, disk)
      THEN candidates[CHOOSE i \in DOMAIN candidates : IsFirst(i, candidates, disk)]
      ELSE NoFile

(* The file that #include <directive> names.                               *)
Resolve(directive) ==
    FirstFile([i \in DOMAIN SearchList |-> SearchList[i] \o directive], files)

(* The file that #include "directive" names in a file of the given folder: *)
(* that folder comes first.                                                *)
ResolveFrom(folder, directive, disk) ==
    FirstFile(<<folder \o directive>> \o
                [i \in DOMAIN SearchList |-> SearchList[i] \o directive], disk)

-----------------------------------------------------------------------------
(* The path of a header from the folder it was found in.                   *)
RelativePath(folder, path) == SubSeq(path, Len(folder.path) + 1, Len(path))
=============================================================================
