--------------------------- MODULE ProfileManager ---------------------------
(***************************************************************************)
(* The profile manager (src/src/profilemanager.cpp): its constructor finds *)
(* the folder of the profiles, reads every profile.json below it in the    *)
(* order of the directory iterator, and keeps them by name.                *)
(***************************************************************************)
EXTENDS FiniteSets

CONSTANTS
    File,         \* the profile.json files
    ProfileName,
    Malformed,    \* the content of a file that loadProfile refuses
    content,      \* the name given by each file, or Malformed
    Disks         \* which root folders exist, and the files below each

Root == {"working", "install"}
NoRoot == "none"

ASSUME ContentAssumption ==
    /\ Malformed \notin ProfileName
    /\ content \in [File -> ProfileName \cup {Malformed}]
ASSUME DisksAssumption ==
    Disks \subseteq [exists : SUBSET Root, files : [Root -> SUBSET File]]

VARIABLES
    disk,
    pm,                   \* where the construction is
    profiles_root,        \* d->profiles_root
    unread,               \* the files the iterator has yet to return
    output,               \* the profiles read so far: name -> file
    profile_descriptors,  \* d->profile_descriptors
    status                \* what create() returned

pmVars == <<disk, pm, profiles_root, unread, output, profile_descriptors, status>>

NoProfiles == [n \in {} |-> Malformed]

-----------------------------------------------------------------------------
PMInit ==
    /\ disk \in Disks
    /\ pm = "locating" /\ profiles_root = NoRoot /\ unread = {}
    /\ output = NoProfiles /\ profile_descriptors = NoProfiles /\ status = "none"

CreateFails(why) == pm' = "failed" /\ status' = why

(* The data folder of the working directory hides the installed one.       *)
GetProfilesRootPath ==
    /\ pm = "locating"
    /\ \E r \in disk.exists :
          /\ r = "install" => "working" \notin disk.exists
          /\ profiles_root' = r /\ unread' = disk.files[r]
    /\ pm' = "enumerating"
    /\ UNCHANGED <<disk, output, profile_descriptors, status>>

MissingProfilesRoot ==
    /\ pm = "locating" /\ disk.exists = {}
    /\ CreateFails("MissingProfilesRoot")
    /\ UNCHANGED <<disk, profiles_root, unread, output, profile_descriptors>>

AllocationFails ==
    /\ pm = "locating"
    /\ CreateFails("MemoryAllocationFailure")
    /\ UNCHANGED <<disk, profiles_root, unread, output, profile_descriptors>>

(* current_path() may throw what create() does not catch.                  *)
CurrentPathThrows ==
    /\ pm = "locating"
    /\ pm' = "crashed"
    /\ UNCHANGED <<disk, profiles_root, unread, output, profile_descriptors, status>>

(* A plausible bug: the profile read last replaces the one read before.    *)
InsertOrAssign(f) ==
    [n \in DOMAIN output \cup {content[f]} |-> IF n = content[f] THEN f ELSE output[n]]

(* unordered_map::insert: a name that is there already keeps its profile.  *)
Insert(f) ==
    [n \in DOMAIN output \cup {content[f]} |-> IF n \in DOMAIN output THEN output[n] ELSE f]

(* A plausible bug: what loadProfile returns is not tested.                *)
LoadUnchecked(f) ==
    /\ pm = "enumerating" /\ f \in unread
    /\ unread' = unread \ {f} /\ output' = Insert(f)
    /\ UNCHANGED <<disk, pm, profiles_root, profile_descriptors, status>>

(* A plausible bug: a malformed file ends the loop.                        *)
LoadUntilMalformed(f) ==
    /\ pm = "enumerating" /\ f \in unread
    /\ unread' = IF content[f] = Malformed THEN {} ELSE unread \ {f}
    /\ output' = IF content[f] = Malformed THEN output ELSE Insert(f)
    /\ UNCHANGED <<disk, pm, profiles_root, profile_descriptors, status>>

(* The test for a duplicate name looks into the list that is filled when   *)
(* the enumeration is over.                                                *)
LoadProfile(f) ==
    /\ pm = "enumerating" /\ f \in unread
    /\ IF content[f] \in DOMAIN profile_descriptors
         THEN CreateFails("ProfileEnumerationError") /\ UNCHANGED <<unread, output>>
         ELSE /\ unread' = unread \ {f}
              /\ output' = IF content[f] = Malformed THEN output ELSE Insert(f)
              /\ UNCHANGED <<pm, status>>
    /\ UNCHANGED <<disk, profiles_root, profile_descriptors>>

(* The iterator throws, which is caught, and the list stays empty.         *)
EnumerationThrows ==
    /\ pm = "enumerating"
    /\ CreateFails("ProfileEnumerationError") /\ output' = NoProfiles
    /\ UNCHANGED <<disk, profiles_root, unread, profile_descriptors>>

EndEnumeration ==
    /\ pm = "enumerating" /\ unread = {}
    /\ profile_descriptors' = output /\ output' = NoProfiles
    /\ IF output = NoProfiles THEN CreateFails("ProfilesMissing")
       ELSE pm' = "created" /\ status' = "succeeded"
    /\ UNCHANGED <<disk, profiles_root, unread>>

PMNext ==
    \/ GetProfilesRootPath \/ MissingProfilesRoot
    \/ AllocationFails \/ CurrentPathThrows
    \/ \E f \in File : LoadProfile(f)
    \/ EnumerationThrows \/ EndEnumeration

-----------------------------------------------------------------------------
(* A manager that was created knows exactly the names of the well formed   *)
(* files below one root, each by a file that gives that name, and the      *)
(* installed root only when the working directory has none: a profile is   *)
(* never lost to the file that was refused, or repeated, before it.        *)
ProfilesExact ==
    /\ pm = "created" =>
          /\ DOMAIN profile_descriptors
                = {content[f] : f \in disk.files[profiles_root]} \ {Malformed}
          /\ \A n \in DOMAIN profile_descriptors :
                /\ profile_descriptors[n] \in disk.files[profiles_root]
                /\ content[profile_descriptors[n]] = n
          /\ profiles_root = "working" \/ "working" \notin disk.exists
    /\ status = "ProfilesMissing" =>
          {content[f] : f \in disk.files[profiles_root]} \subseteq {Malformed}

(* Two files may give the same name: the one read first stands for it, to  *)
(* the end, and the other is ignored without a word (the test that would   *)
(* refuse it never sees a name).                                           *)
FirstProfileKept ==
    [][\A n \in DOMAIN output :
          /\ pm' = "enumerating" => n \in DOMAIN output' /\ output'[n] = output[n]
          /\ pm' = "created" => profile_descriptors'[n] = output[n]]_pmVars
=============================================================================
