----------------------------- MODULE LibraryIndex -----------------------------
(***************************************************************************)
(* build_library_index of scripts/_capsule_sync.py: the search roots are   *)
(* <partition>/lib64 and <partition>/lib for the fixed partitions, then    *)
(* apex/<entry>/lib64 and apex/<entry>/lib for the APEX entries in sorted  *)
(* order; each root is walked with os.walk and every ".so" file name is    *)
(* recorded with index.setdefault, so the first one found wins.            *)
(*                                                                         *)
(* A search root holds files at its top and in one level of                *)
(* subdirectories.  os.walk visits the top first and then the              *)
(* subdirectories in the order the file system lists them, which no code   *)
(* fixes: the order is a nondeterministic choice at each step.             *)
(***************************************************************************)
EXTENDS Integers, Sequences, SequencesExt, FiniteSets, TLC

CONSTANTS
  Partitions,   \* ("system", "system_ext", "product", "vendor", "odm")
  LibDirs,      \* ("lib64", "lib")
  ApexEntries,  \* sorted(os.listdir(apex)): a sequence in sorted order
  Subdirs,      \* subdirectory names below a search root
  Top,          \* the search root directory itself
  Names,        \* file names
  SoNames,      \* the names that end in ".so"
  DirChoice,    \* SUBSET [Candidates -> BOOLEAN]: which candidates are dirs
  PlaceChoice   \* [Names -> SUBSET SUBSET (Candidates \X Dirs)]

ASSUME SoNames \subseteq Names
ASSUME Top \notin Subdirs

Dirs == {Top} \cup Subdirs

\* The functions f with f[x] \in C[x] for every x.
ChoiceSet(C) ==
  FoldSet(LAMBDA x, fs : {(x :> v) @@ f : f \in fs, v \in C[x]},
          {[x \in {} |-> x]}, DOMAIN C)

\* The candidate search roots, in the order the code appends them:
\* each directory of ds with each library directory, lib64 first.
WithLibDirs(ds) ==
  FlattenSeq([i \in DOMAIN ds |-> [j \in DOMAIN LibDirs |-> <<ds[i], LibDirs[j]>>]])
CandidateSeq == WithLibDirs(Partitions) \o WithLibDirs(ApexEntries)
Candidates == ToSet(CandidateSeq)

VARIABLES
  isDir,      \* os.path.isdir of each candidate (of the APEX entry and of
              \* its library directory)
  place,      \* name -> the directories of candidates that hold a file of
              \* that name (a file or a link, os.walk lists both)
  phase,      \* "collect", "walk" or "done"
  roots,      \* search_roots
  ri,         \* the search root os.walk is in
  visited,    \* the directories of roots[ri] os.walk has yielded
  index       \* name -> <<search root, directory>>

vars == <<isDir, place, phase, roots, ri, visited, index>>

Init ==
  /\ isDir \in DirChoice
  /\ place \in ChoiceSet(PlaceChoice)
  /\ phase = "collect"
  /\ roots = <<>>
  /\ ri = 1
  /\ visited = {}
  /\ index = [n \in {} |-> <<Top, Top>>]

\* Both loops that fill search_roots: the candidates that are directories,
\* partitions first, then the APEX entries in sorted order.
CollectRoots ==
  /\ phase = "collect"
  /\ roots' = SelectSeq(CandidateSeq, LAMBDA c : isDir[c])
  /\ phase' = "walk"
  /\ UNCHANGED <<isDir, place, ri, visited, index>>

\* Variant: index.setdefault(rel, filename), the arguments swapped.
RecordSwapped(idx, root, d) ==
  LET new == {<<root, d, n>> : n \in {m \in SoNames : <<root, d>> \in place[m]}}
  IN idx @@ [k \in new |-> k[3]]

\* Variant: index[filename] = rel, the last file found wins.
RecordOverwrite(idx, root, d) ==
  LET new == {n \in SoNames : <<root, d>> \in place[n]}
  IN [n \in new |-> <<root, d>>] @@ idx

\* index.setdefault(filename, rel) for every ".so" file of one directory.
Record(idx, root, d) ==
  LET new == {n \in SoNames : <<root, d>> \in place[n] /\ n \notin DOMAIN idx}
  IN idx @@ [n \in new |-> <<root, d>>]

\* os.walk yields the search root itself first.
WalkTop ==
  /\ phase = "walk"
  /\ ri \in DOMAIN roots
  /\ visited = {}
  /\ index' = Record(index, roots[ri], Top)
  /\ visited' = {Top}
  /\ UNCHANGED <<isDir, place, phase, roots, ri>>

\* ... then each subdirectory, in whatever order the directory lists them.
WalkSub ==
  /\ phase = "walk"
  /\ ri \in DOMAIN roots
  /\ Top \in visited
  /\ \E s \in Subdirs \ visited :
       /\ index' = Record(index, roots[ri], s)
       /\ visited' = visited \cup {s}
  /\ UNCHANGED <<isDir, place, phase, roots, ri>>

\* The walk of one search root is over: the next one starts.
NextRoot ==
  /\ phase = "walk"
  /\ ri \in DOMAIN roots
  /\ visited = Dirs
  /\ ri' = ri + 1
  /\ visited' = {}
  /\ UNCHANGED <<isDir, place, phase, roots, index>>

\* Every search root has been walked: the index is returned.
Finish ==
  /\ phase = "walk"
  /\ ri = Len(roots) + 1
  /\ phase' = "done"
  /\ UNCHANGED <<isDir, place, roots, ri, visited, index>>

Next == CollectRoots \/ WalkTop \/ WalkSub \/ NextRoot \/ Finish

Spec == Init /\ [][Next]_vars /\ WF_vars(Next)

-----------------------------------------------------------------------------
(* Properties.                                                             *)

TypeOK ==
  /\ isDir \in [Candidates -> BOOLEAN]
  /\ place \in [Names -> SUBSET (Candidates \X Dirs)]
  /\ phase \in {"collect", "walk", "done"}
  /\ roots \in Seq(Candidates)
  /\ visited \subseteq Dirs
  /\ DOMAIN index \subseteq SoNames
  /\ \A n \in DOMAIN index : index[n] \in Candidates \X Dirs

\* The search roots, in the order the code scans them, that hold name n.
RootsWith(n) == SelectSeq(roots, LAMBDA r : \E d \in Dirs : <<r, d>> \in place[n])

\* Precedence (build_library_index, spec 4.2): a ".so" name found in a
\* search root is indexed, to the first search root in scan order that
\* holds it, and to the top of that root when the top holds it; a name in
\* no search root, or not ending in ".so", is not indexed.
IndexPrecedence ==
  phase = "done" =>
    \A n \in Names :
      IF n \in SoNames /\ RootsWith(n) # <<>>
        THEN /\ n \in DOMAIN index
             /\ index[n][1] = Head(RootsWith(n))
             /\ <<index[n][1], Top>> \in place[n] => index[n][2] = Top
        ELSE n \notin DOMAIN index

=============================================================================
