---------------------------- MODULE HeaderSearch ----------------------------
(***************************************************************************)
(* The search of the generate command over headers that are files on disk: *)
(* GenerateCommand with its headers found in the header folders, its       *)
(* directives built from their paths, and a compiler that refuses any list *)
(* with an #include that names no file.  What a directive was tried for    *)
(* and the file that it names can then be compared.                        *)
(*                                                                         *)
(* The disk does not change while the program runs, except for the output. *)
(***************************************************************************)
EXTENDS IncludePaths, SequencesExt

CONSTANT output   \* the path of the header that is written: -o, with ".h"

ASSUME OutputAssumption == output \in Path

(* The same file is another header in another folder.                      *)
HeadersOf(i) == {<<i, path>> : path \in Found(header_folders[i])}

Header == UNION {HeadersOf(i) : i \in DOMAIN header_folders}

FolderOf(h) == header_folders[h[1]]
PathOf(h) == h[2]

Directives == [h \in Header |-> IncludeDirectives(FolderOf(h), PathOf(h))]

VARIABLES
    pc, folder, header_files, header_desc_it, include_directive, active_include_headers,
    previous_active_header_count, compiles, fails, header_file, cpp_file, outcome

Generate == INSTANCE GenerateCommand WITH
    Directive <- Path, directives <- Directives,
    folders <- [i \in DOMAIN header_folders |-> HeadersOf(i)], OutOfMemory <- FALSE,
    MangleErrors <- TRUE

vars == <<pc, folder, header_files, header_desc_it, include_directive,
          active_include_headers, previous_active_header_count, compiles, fails, header_file,
          cpp_file, outcome>>

-----------------------------------------------------------------------------
Init == Generate!Init

(* An #include that names no file is an error.                             *)
AllResolve(list) == \A j \in DOMAIN list : Resolve(list[j]) # NoFile

Next == Generate!Next /\ \A list \in compiles' \ compiles : AllResolve(list)

Spec == Init /\ [][Next]_vars

-----------------------------------------------------------------------------
Searched == pc \in {"visit", "compile", "render", "open", "write"}

Erased == Header \ ToSet(header_files)

Imported(h) ==
    \E j \in DOMAIN active_include_headers : Resolve(active_include_headers[j]) = PathOf(h)

UniquelyNamed(h) == \A path \in files : NameOf(path) = NameOf(PathOf(h)) => path = PathOf(h)

(* A header that has its name for itself on the disk is imported when it   *)
(* is taken off the list: whatever prefixes were tried for it, and however *)
(* its folder was written, none of them can name another file.             *)
UniquelyNamedImported ==
    Searched => \A h \in Erased : UniquelyNamed(h) => Imported(h)

(* A header that is left in the list was seen by the compiler: unless      *)
(* another file hides it on the search path, one of the directives that    *)
(* were refused after the final list names that very file, however deep it *)
(* is in its folder.                                                       *)
Hidden(h) == Resolve(RelativePath(FolderOf(h), PathOf(h))) # PathOf(h)

DiscardedForItsContent ==
    Searched => \A h \in ToSet(header_files) : ~Hidden(h) =>
        \E directive \in ToSet(Directives[h]) :
            /\ Resolve(directive) = PathOf(h)
            /\ Append(active_include_headers, directive) \in fails

(* No file is imported twice, unless two of the headers that were taken    *)
(* off the list have its name.                                             *)
NamesakesOf(file) == {h \in Erased : NameOf(PathOf(h)) = NameOf(file)}

FilesImportedOnce ==
    \A j, k \in DOMAIN active_include_headers :
        LET file == Resolve(active_include_headers[j])
        IN  j # k /\ file = Resolve(active_include_headers[k]) =>
                \E g, h \in NamesakesOf(file) : g # h

-----------------------------------------------------------------------------
(* Claims of comments of the code, which it does not keep.                 *)

(* generate_command.cpp:94: "Print a list of the headers we couldn't       *)
(* import"; the headers that are not in that list were imported.           *)
HeadersImported == Searched => \A h \in Erased : Imported(h)

(* generate_command.h:32: #include "clang/Frontend/Utils.h"; the file that *)
(* was compiled is the file that the library includes by that name.        *)
WrittenAsCompiled ==
    outcome = "success" => \A j \in DOMAIN active_include_headers :
        ResolveFrom(SubSeq(output, 1, Len(output) - 1), active_include_headers[j],
                    files \cup {output})
            = Resolve(active_include_headers[j])
=============================================================================
