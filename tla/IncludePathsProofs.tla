------------------------- MODULE IncludePathsProofs -------------------------
(***************************************************************************)
(* Theorems about the directives of a header, for every disk and every     *)
(* header folder.                                                          *)
(***************************************************************************)
EXTENDS IncludePaths, SequenceTheorems, TLAPS

(* The number of prefixes of a header.                                     *)
LastTurn(folder, path) ==
    IF folder.slash THEN Len(path) - 1 ELSE Len(path) - 1 - Len(folder.path)

(* The last n names of a path.                                             *)
LastNames(path, n) == SubSeq(path, Len(path) - n + 1, Len(path))

-----------------------------------------------------------------------------
LEMMA FoundType ==
    ASSUME NEW f \in Folder, NEW path \in Found(f)
    PROVE  /\ path \in files /\ path \in Path /\ path \in Seq(FileName)
           /\ Len(path) \in Nat \ {0} /\ Len(f.path) \in Nat /\ Len(f.path) < Len(path)
           /\ SubSeq(path, 1, Len(f.path)) = f.path
           /\ f.slash \in BOOLEAN
           /\ LastTurn(f, path) \in 0 .. Len(path) - 1
<1>1. path \in files /\ Below(path, f.path)
  BY DEF Found
<1>2. path \in Path
  BY <1>1, PathsAssumption
<1>3. path \in Seq(FileName) /\ path # <<>>
  BY <1>2 DEF Path
<1>4. Len(path) \in Nat \ {0}
  BY <1>3, EmptySeq
<1>5. f.path \in Seq(FileName) /\ f.slash \in BOOLEAN
  BY DEF Folder
<1>6. Len(f.path) \in Nat
  BY <1>5, LenProperties
<1>7. Len(f.path) < Len(path) /\ SubSeq(path, 1, Len(f.path)) = f.path
  BY <1>1 DEF Below
<1>8. LastTurn(f, path) \in 0 .. Len(path) - 1
  BY <1>4, <1>6, <1>7 DEF LastTurn
<1> QED
  BY <1>1, <1>2, <1>3, <1>4, <1>5, <1>6, <1>7, <1>8

(* The loop ends at the root, or where the parent is as long as the        *)
(* folder, and a folder with a slash never ends it.                        *)
LEMMA EndsAtTurn ==
    ASSUME NEW f \in Folder, NEW path \in Found(f), NEW j \in 0 .. Len(path) - 1
    PROVE  EndsAt(f, ParentPath(path, j)) <=>
              j = Len(path) - 1 \/ (~f.slash /\ j = Len(path) - 1 - Len(f.path))
<1> USE FoundType
<1>1. /\ ParentPath(path, j) \in Seq(FileName)
      /\ Len(ParentPath(path, j)) = Len(path) - 1 - j
  <2>1. \A i \in 1 .. Len(path) - 1 - j : path[i] \in FileName
    BY ElementOfSeq
  <2> QED
    BY <2>1, SubSeqProperties DEF ParentPath
<1>2. ParentPath(path, j) = <<>> <=> j = Len(path) - 1
  BY <1>1, EmptySeq
<1>3. ParentPath(path, j) = f.path <=> j = Len(path) - 1 - Len(f.path)
  BY <1>1 DEF ParentPath
<1> QED
  BY <1>2, <1>3 DEF EndsAt

LEMMA TurnsExact ==
    ASSUME NEW f \in Folder, NEW path \in Found(f)
    PROVE  Turns(f, path) = 1 .. LastTurn(f, path)
<1> USE FoundType
<1>1. ASSUME NEW k \in 1 .. Len(path) - 1
      PROVE  k \in Turns(f, path) <=> k <= LastTurn(f, path)
  <2>1. ASSUME NEW j \in 0 .. k - 1
        PROVE  EndsAt(f, ParentPath(path, j)) <=> ~f.slash /\ j = LastTurn(f, path)
    BY EndsAtTurn DEF LastTurn
  <2>2. CASE f.slash
    BY <2>1, <2>2 DEF Turns, LastTurn
  <2>3. CASE ~f.slash
    BY <2>1, <2>3 DEF Turns
  <2> QED
    BY <2>2, <2>3
<1>2. Turns(f, path) \subseteq 1 .. Len(path) - 1
  BY DEF Turns
<1>3. \A k : k \in 1 .. LastTurn(f, path) <=> k \in 1 .. Len(path) - 1 /\ k <= LastTurn(f, path)
  <2>1. Len(path) \in Nat /\ LastTurn(f, path) \in Nat /\ LastTurn(f, path) <= Len(path) - 1
    OBVIOUS
  <2> QED
    BY <2>1
<1> QED
  BY <1>1, <1>2, <1>3

(* The i-th directive of a header is the last i names of its path, from    *)
(* its name alone to as many as the loop had turns, and one.               *)
THEOREM DirectivesExact ==
    ASSUME NEW f \in Folder, NEW path \in Found(f)
    PROVE  /\ IncludeDirectives(f, path) \in Seq(Path)
           /\ Len(IncludeDirectives(f, path)) = LastTurn(f, path) + 1
           /\ \A i \in 1 .. LastTurn(f, path) + 1 :
                 IncludeDirectives(f, path)[i] = LastNames(path, i)
<1> DEFINE n == LastTurn(f, path)
           head == <<<<NameOf(path)>>>>
           tail == [k \in 1 .. n |-> Append(LastFolders(path, k), NameOf(path))]
<1>1. /\ n \in Nat /\ n <= Len(path) - 1 /\ 1 \in 1 .. n + 1
      /\ Len(path) \in Nat \ {0} /\ path \in Seq(FileName)
  BY FoundType
<1>2. ASSUME NEW i \in 1 .. n + 1
      PROVE  /\ LastNames(path, i) \in Path
             /\ Len(LastNames(path, i)) = i
             /\ \A j \in 1 .. i : LastNames(path, i)[j] = path[Len(path) - i + j]
  <2>1. i \in 1 .. Len(path)
    BY <1>1
  <2>2. \A j \in Len(path) - i + 1 .. Len(path) : path[j] \in FileName
    BY <1>1, <2>1, ElementOfSeq
  <2> HIDE DEF n
  <2>3. /\ LastNames(path, i) \in Seq(FileName)
        /\ Len(LastNames(path, i)) = i
        /\ \A j \in 1 .. i : LastNames(path, i)[j] = path[Len(path) - i + j]
    BY <1>1, <2>1, <2>2, SubSeqProperties DEF LastNames
  <2>4. LastNames(path, i) # <<>>
    BY <2>1, <2>3, EmptySeq
  <2> QED
    BY <2>3, <2>4 DEF Path
<1>3. LastNames(path, 1) = <<NameOf(path)>>
  <2>1. LastNames(path, 1) \in Path /\ Len(LastNames(path, 1)) = 1
    BY <1>1, <1>2
  <2>2. LastNames(path, 1)[1] = path[Len(path)]
    <3>1. Len(path) - 1 + 1 = Len(path) /\ 1 \in 1 .. 1
      BY <1>1
    <3> QED
      BY <1>1, <1>2, <3>1
  <2>3. LastNames(path, 1) \in Seq(FileName)
    BY <2>1 DEF Path
  <2>4. LastNames(path, 1) = <<LastNames(path, 1)[1]>>
    BY <2>1, <2>3
  <2> QED
    BY <2>2, <2>4 DEF NameOf
<1>4. ASSUME NEW k \in 1 .. n
      PROVE  Append(LastFolders(path, k), NameOf(path)) = LastNames(path, k + 1)
  <2>1. k \in 1 .. Len(path) - 1
    BY <1>1
  <2>2. LastFolders(path, k) = SubSeq(path, Len(path) - k, Len(path) - 1)
    BY DEF LastFolders
  <2>3. LastNames(path, k + 1) = SubSeq(path, Len(path) - k, Len(path))
    BY <1>1, <2>1 DEF LastNames
  <2>4. SubSeq(path, Len(path) - k, Len(path))
          = SubSeq(path, Len(path) - k, Len(path) - 1) \o <<path[Len(path)]>>
    BY <1>1, <2>1, SubSeqRecursiveSecond
  <2>5. \A i \in Len(path) - k .. Len(path) - 1 : path[i] \in FileName
    BY <1>1, <2>1, ElementOfSeq
  <2>6. SubSeq(path, Len(path) - k, Len(path) - 1) \in Seq(FileName)
    BY <1>1, <2>1, <2>5, SubSeqProperties
  <2>7. path[Len(path)] \in FileName
    BY <1>1, ElementOfSeq
  <2>8. Append(SubSeq(path, Len(path) - k, Len(path) - 1), path[Len(path)])
          = SubSeq(path, Len(path) - k, Len(path) - 1) \o <<path[Len(path)]>>
    BY <2>6, <2>7, AppendIsConcat
  <2> QED
    BY <2>2, <2>3, <2>4, <2>8 DEF NameOf
<1>5. IncludeDirectives(f, path) = head \o tail
  BY TurnsExact DEF IncludeDirectives, PossiblePrefixes
<1>6. tail \in Seq(Path) /\ Len(tail) = n /\ \A k \in 1 .. n : tail[k] = LastNames(path, k + 1)
  <2>1. \A k \in 1 .. n : tail[k] = LastNames(path, k + 1)
    BY <1>4
  <2>2. \A k \in 1 .. n : LastNames(path, k + 1) \in Path
    BY <1>1, <1>2
  <2>3. tail \in [1 .. n -> Path]
    BY <1>4, <2>2
  <2> HIDE DEF tail, n
  <2>4. tail \in Seq(Path) /\ DOMAIN tail = 1 .. n
    BY <1>1, <2>3
  <2> QED
    BY <1>1, <2>1, <2>4, LenProperties
<1>7. head \in Seq(Path) /\ Len(head) = 1 /\ head[1] = <<NameOf(path)>>
  <2>1. <<NameOf(path)>> \in Path
    BY <1>1, <1>2, <1>3
  <2> QED
    BY <2>1
<1> HIDE DEF head, tail, n
<1>8. /\ head \o tail \in Seq(Path)
      /\ Len(head \o tail) = n + 1
      /\ \A i \in 1 .. n + 1 : (head \o tail)[i] = IF i <= 1 THEN head[i] ELSE tail[i - 1]
  <2>1. Len(head) + Len(tail) = n + 1
    BY <1>1, <1>6, <1>7
  <2> QED
    BY <1>6, <1>7, <2>1, ConcatProperties
<1>9. \A i \in 1 .. n + 1 : (head \o tail)[i] = LastNames(path, i)
  <2>2. ASSUME NEW i \in 1 .. n + 1, i # 1
        PROVE  (head \o tail)[i] = LastNames(path, i)
    <3>1. i - 1 \in 1 .. n /\ ~(i <= 1) /\ i - 1 + 1 = i
      BY <1>1, <2>2
    <3> QED
      BY <1>6, <1>8, <3>1
  <2>3. (head \o tail)[1] = LastNames(path, 1)
    <3>1. (head \o tail)[1] = head[1]
      BY <1>1, <1>8
    <3> QED
      BY <1>3, <1>7, <3>1
  <2> QED
    BY <2>2, <2>3
<1> QED
  BY <1>5, <1>8, <1>9 DEF n

-----------------------------------------------------------------------------
(* Whatever its depth, a header is tried by its path from the folder that  *)
(* is scanned, which is on the search path of the compiler.                *)
THEOREM RelativePathTried ==
    ASSUME NEW f \in Folder, NEW path \in Found(f)
    PROVE  \E i \in 1 .. Len(IncludeDirectives(f, path)) :
              IncludeDirectives(f, path)[i] = RelativePath(f, path)
<1> USE FoundType
<1>1. Len(path) - Len(f.path) \in 1 .. LastTurn(f, path) + 1
  BY DEF LastTurn
<1>2. LastNames(path, Len(path) - Len(f.path)) = RelativePath(f, path)
  <2>1. Len(path) - (Len(path) - Len(f.path)) + 1 = Len(f.path) + 1
    OBVIOUS
  <2> QED
    BY <2>1 DEF LastNames, RelativePath
<1> QED
  BY <1>1, <1>2, DirectivesExact

(* A folder that is written without a slash bounds the prefixes: the last  *)
(* directive is the path from the folder.  Written with a slash it bounds  *)
(* nothing, and the last directive is the path from the root: the claim    *)
(* PrefixesInsideFolder of HeaderSearch fails for these folders only.      *)
THEOREM LongestDirective ==
    ASSUME NEW f \in Folder, NEW path \in Found(f)
    PROVE  LET longest == IncludeDirectives(f, path)[Len(IncludeDirectives(f, path))]
           IN  longest = IF f.slash THEN path ELSE RelativePath(f, path)
<1> USE FoundType
<1>1. Len(IncludeDirectives(f, path)) = LastTurn(f, path) + 1
  BY DirectivesExact
<1>2. IncludeDirectives(f, path)[LastTurn(f, path) + 1] = LastNames(path, LastTurn(f, path) + 1)
  BY DirectivesExact
<1>3. CASE f.slash
  <2>1. LastTurn(f, path) + 1 = Len(path)
    BY <1>3 DEF LastTurn
  <2>2. LastNames(path, Len(path)) = SubSeq(path, 1, Len(path))
    BY DEF LastNames
  <2>3. SubSeq(path, 1, Len(path)) = path
    BY SubSeqFull
  <2> QED
    BY <1>1, <1>2, <1>3, <2>1, <2>2, <2>3
<1>4. CASE ~f.slash
  <2>1. LastTurn(f, path) + 1 = Len(path) - Len(f.path)
    BY <1>4 DEF LastTurn
  <2>2. LastNames(path, Len(path) - Len(f.path)) = RelativePath(f, path)
    <3>1. Len(path) - (Len(path) - Len(f.path)) + 1 = Len(f.path) + 1
      OBVIOUS
    <3> QED
      BY <3>1 DEF LastNames, RelativePath
  <2> QED
    BY <1>1, <1>2, <1>4, <2>1, <2>2
<1> QED
  BY <1>3, <1>4

(* Every directive of a header ends in its name.                           *)
THEOREM DirectivesEndInName ==
    ASSUME NEW f \in Folder, NEW path \in Found(f),
           NEW i \in 1 .. Len(IncludeDirectives(f, path))
    PROVE  NameOf(IncludeDirectives(f, path)[i]) = NameOf(path)
<1> USE FoundType
<1>1. IncludeDirectives(f, path)[i] = LastNames(path, i) /\ i \in 1 .. LastTurn(f, path) + 1
  BY DirectivesExact
<1>2. i \in 1 .. Len(path)
  BY <1>1
<1>3. \A j \in Len(path) - i + 1 .. Len(path) : path[j] \in FileName
  BY <1>2, ElementOfSeq
<1>4. Len(LastNames(path, i)) = i /\ LastNames(path, i)[i] = path[Len(path)]
  BY <1>2, <1>3, SubSeqProperties DEF LastNames
<1> QED
  BY <1>1, <1>4 DEF NameOf
=============================================================================
