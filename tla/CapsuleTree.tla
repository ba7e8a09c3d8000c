----------------------------- MODULE CapsuleTree -----------------------------
(***************************************************************************)
(* The source tree that scripts/_capsule_sync.py reads, the file-system    *)
(* tests the code makes on it, and the dependency closure the traversal is *)
(* meant to compute.  Shared by CapsuleSync (the code) and CapsuleClosure  *)
(* (what it promises).                                                     *)
(*                                                                         *)
(* The tree is an input of the run.  It is held in variables that          *)
(* TreeInit chooses from small per-path choice sets and no action changes, *)
(* so one model check covers every tree the choice sets allow.  Each path  *)
(* has a kind that decides the file-system tests:                          *)
(*   "file"      a regular file;                                           *)
(*   "rel_link"  a symlink whose target lies in the tree and which the OS  *)
(*               follows there;                                            *)
(*   "abs_link"  a symlink with an absolute target ("/apex/...") that      *)
(*               exists under the source root: resolve_read_path rewrites  *)
(*               it, but the OS follows it to the host's root, where it    *)
(*               is not;                                                   *)
(*   "dangling"  a symlink whose target exists nowhere;                    *)
(*   "absent"    nothing at that path.                                     *)
(* ELF metadata is abstracted to what parse_elf_metadata returns: the      *)
(* DT_NEEDED names in order, the PT_INTERP path, or a format error.        *)
(***************************************************************************)
EXTENDS Integers, Sequences, SequencesExt, Functions, FiniteSets, TLC

CONSTANTS
  Paths,          \* relative paths of the source tree
  LibNames,       \* DT_NEEDED library names
  NoPath,         \* lib_index.get(name) is None
  NoInterp,       \* the file has no PT_INTERP segment
  BinarySpecs,    \* BINARY_SPECS: Seq of [candidates: Seq(Paths), required: BOOLEAN]
  ConfigFiles,    \* CONFIG_FILES: Seq of <<path, required>>
  ConfigDirs,     \* CONFIG_DIRS: Seq of directory names
  DirFiles,       \* files below each configuration directory
  LibIndex,       \* build_library_index(root): name -> first path found
  KindChoice,     \* [Paths -> SUBSET Kinds]: the kinds a path may have
  NeedsChoice,    \* [Paths -> SUBSET Seq(LibNames)]
  InterpChoice,   \* [Paths -> SUBSET (Paths \cup {NoInterp})]
  MalformedChoice,\* SUBSET SUBSET Paths: sets of files that fail to parse
  DirChoice       \* SUBSET [Range(ConfigDirs) -> BOOLEAN]: dirs present

Kinds == {"file", "rel_link", "abs_link", "dangling", "absent"}

ASSUME LibIndex \in [LibNames -> Paths \cup {NoPath}]
ASSUME \A i \in DOMAIN BinarySpecs :
         BinarySpecs[i].candidates \in Seq(Paths) \ {<<>>}
\* Every entry of CONFIG_FILES is optional, so its raise is never reached.
ASSUME \A j \in DOMAIN ConfigFiles : ConfigFiles[j][2] = FALSE
\* The loader is not a root candidate and not a ".so" of the library index.
ASSUME \A p \in Paths : \A i \in InterpChoice[p] \ {NoInterp} :
         /\ \A n \in LibNames : LibIndex[n] # i
         /\ \A j \in DOMAIN BinarySpecs : i \notin ToSet(BinarySpecs[j].candidates)
\* The index is built by os.walk, so every path it holds was found on disk.
ASSUME \A n \in LibNames :
         LibIndex[n] # NoPath => "absent" \notin KindChoice[LibIndex[n]]

VARIABLES kind, needs, interp, malformed, dirPresent

treeVars == <<kind, needs, interp, malformed, dirPresent>>

-----------------------------------------------------------------------------
(* File-system tests, per kind.                                            *)

\* os.path.exists(join(root, p)): follows the link as the OS does
Exists(p) == kind[p] \in {"file", "rel_link"}
\* os.path.exists(p) or os.path.islink(p)
LExists(p) == kind[p] # "absent"
\* os.path.islink(join(root, p))
IsLink(p) == kind[p] \in {"rel_link", "abs_link", "dangling"}
\* os.path.exists(resolve_read_path(root, p)): an absolute link is retried
\* under the source root before the literal path is used
Readable(p) == kind[p] \in {"file", "rel_link", "abs_link"}

\* The configuration files os.path.exists finds (copy_config_file).
ConfigsPresent == {c \in {ConfigFiles[j][1] : j \in DOMAIN ConfigFiles} : Exists(c)}
\* The entries copytree copies out of the configuration directories found.
DirEntriesPresent ==
  {p \in UNION {DirFiles[d] : d \in {e \in ToSet(ConfigDirs) : dirPresent[e]}} :
     LExists(p)}

\* The functions f with f[x] \in C[x] for every x, built one path at a time.
ChoiceSet(C) ==
  FoldSet(LAMBDA x, fs : {(x :> v) @@ f : f \in fs, v \in C[x]},
          {[x \in {} |-> x]}, DOMAIN C)

TreeInit ==
  /\ kind \in ChoiceSet(KindChoice)
  /\ needs \in ChoiceSet(NeedsChoice)
  /\ interp \in ChoiceSet(InterpChoice)
  /\ malformed \in MalformedChoice
  /\ dirPresent \in DirChoice

TreeTypeOK ==
  /\ kind \in [Paths -> Kinds]
  /\ needs \in [Paths -> Seq(LibNames)]
  /\ interp \in [Paths -> Paths \cup {NoInterp}]
  /\ malformed \subseteq Paths

-----
(* Reference definitions: the closure the traversal is meant to compute.   *)

\* The candidate of each spec that root selection picks.
SelectedRoots ==
  {BinarySpecs[i].candidates[SelectInSeq(BinarySpecs[i].candidates, LExists)] :
     i \in {j \in DOMAIN BinarySpecs :
              SelectInSeq(BinarySpecs[j].candidates, LExists) # 0}}

\* Edges out of a parsed file: its interpreter and its indexed libraries.
Succ(p) ==
  ({interp[p]} \ {NoInterp})
  \cup {LibIndex[n] : n \in {m \in ToSet(needs[p]) :
                               LibIndex[m] # NoPath /\ LExists(LibIndex[m])}}

\* Paths reachable from front, following edges only out of files that can
\* be read and parsed.
RECURSIVE Reach(_, _)
Reach(front, done) ==
  IF front = {} THEN done
  ELSE LET d == done \cup front
       IN Reach(UNION {Succ(p) : p \in {q \in front :
                                   Readable(q) /\ q \notin malformed}} \ d, d)

Closure == Reach(SelectedRoots, {})

\* Every (file, name) pair whose name the index does not know.
MissingPairs ==
  {pn \in Closure \X LibNames :
     /\ Readable(pn[1])
     /\ pn[2] \in ToSet(needs[pn[1]])
     /\ LibIndex[pn[2]] = NoPath}

\* A fault the traversal raises on at once: a file that fails to parse, or
\* an interpreter os.path.exists does not find.
ClosureFault ==
  \E p \in Closure :
    /\ Readable(p)
    /\ \/ p \in malformed
       \/ interp[p] # NoInterp /\ ~Exists(interp[p])

\* Some required spec has no candidate on disk.
RootsMissing ==
  \E i \in DOMAIN BinarySpecs :
    /\ BinarySpecs[i].required
    /\ SelectInSeq(BinarySpecs[i].candidates, LExists) = 0

ConfigPaths == {ConfigFiles[j][1] : j \in DOMAIN ConfigFiles}
DirPaths == UNION {DirFiles[d] : d \in ToSet(ConfigDirs)}

=============================================================================
