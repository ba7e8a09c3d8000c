----------------------------- MODULE CapsuleSync -----------------------------
(***************************************************************************)
(* The dependency-closure engine of scripts/_capsule_sync.py: sync_artifacts *)
(* (root selection, the breadth-first worklist, the ledger check, copying   *)
(* artifacts, configuration files and directories) followed by             *)
(* write_manifest, over a source tree of CapsuleTree.                      *)
(***************************************************************************)
EXTENDS CapsuleTree

CONSTANTS
  DestChoice,  \* SUBSET [Paths -> DestKinds]: destination before the run
  MaxCrashes   \* how many times a run may be interrupted while copying

Roles == {"binary", "interpreter", "library", "config"}
DestKinds == {"none", "file", "link"}
Phases == {"roots", "expand", "copy", "configs", "dirs", "manifest",
           "done", "failed"}
Errors == {"none", "MissingRequired", "FormatError", "MissingInterpreter",
           "MissingLibs", "CopyTreeError"}

VARIABLES
  \* the destination as the run finds it
  dest0,
  \* the locals of sync_artifacts
  phase, specIdx, queue, seen, artifactTypes, ledger, providedExternals,
  missingRequired, optionalMissing, error, configPrefixes,
  \* the destination tree and the manifest written
  dest, manifest,
  \* history: the paths this run has written into the destination
  written,
  \* interruptions so far
  crashes

runVars == <<phase, specIdx, queue, seen, artifactTypes, ledger,
             providedExternals, missingRequired, optionalMissing, error,
             configPrefixes, dest, manifest, written>>
vars == <<treeVars, dest0, runVars, crashes>>

-----------------------------------------------------------------------------
(* Helpers and the initial state.                                          *)

\* The entry copy_entry leaves at the destination: a link is recreated
\* (unlink, then symlink); a file goes through shutil.copy2, which opens
\* the destination following a link already there, so that entry stays a
\* link and the bytes land wherever it points.
CopyEntry(d, p) == IF IsLink(p) \/ d[p] = "link" THEN "link" ELSE "file"

\* artifact_types[p] = r (overwrites) and artifact_types.pop(p)
SetRole(f, p, r) == (p :> r) @@ f
\* Variant: artifact_types[p] = None instead of the pop.
DropRoleNone(f, p) == (p :> "none") @@ f

DropRole(f, p) == Restrict(f, DOMAIN f \ {p})

Init ==
  /\ TreeInit
  /\ dest0 \in DestChoice
  /\ phase = "roots"
  /\ specIdx = 1
  /\ queue = <<>>
  /\ seen = {}
  /\ artifactTypes = [p \in {} |-> "binary"]
  /\ ledger = <<>>
  /\ providedExternals = {}
  /\ missingRequired = {}
  /\ optionalMissing = {}
  /\ error = "none"
  /\ configPrefixes = {}
  /\ dest = dest0
  /\ manifest = [p \in {} |-> "config"]
  /\ written = {}
  /\ crashes = 0

-----------------------------------------------------------------------------
(* Root selection: one iteration of the loop over BINARY_SPECS.           *)

Candidates == BinarySpecs[specIdx].candidates

\* The first candidate that exists (or is a link) is queued as a binary.
SelectRoot ==
  /\ phase = "roots"
  /\ specIdx \in DOMAIN BinarySpecs
  /\ SelectInSeq(Candidates, LExists) # 0
  /\ LET selected == Candidates[SelectInSeq(Candidates, LExists)]
     IN /\ queue' = Append(queue, selected)
        /\ artifactTypes' = SetRole(artifactTypes, selected, "binary")
  /\ specIdx' = specIdx + 1
  /\ UNCHANGED <<treeVars, dest0, phase, seen, ledger, providedExternals,
                 missingRequired, optionalMissing, error, configPrefixes,
                 dest, manifest, written>>

\* No candidate exists and the spec is required: recorded, not raised yet.
RequiredMissing ==
  /\ phase = "roots"
  /\ specIdx \in DOMAIN BinarySpecs
  /\ SelectInSeq(Candidates, LExists) = 0
  /\ BinarySpecs[specIdx].required
  /\ missingRequired' = missingRequired \cup {specIdx}
  /\ specIdx' = specIdx + 1
  /\ UNCHANGED <<treeVars, dest0, phase, queue, seen, artifactTypes, ledger,
                 providedExternals, optionalMissing, error, configPrefixes,
                 dest, manifest, written>>

\* No candidate exists and the spec is optional: a warning, skipped.
OptionalMissing ==
  /\ phase = "roots"
  /\ specIdx \in DOMAIN BinarySpecs
  /\ SelectInSeq(Candidates, LExists) = 0
  /\ ~BinarySpecs[specIdx].required
  /\ optionalMissing' = optionalMissing \cup {specIdx}
  /\ specIdx' = specIdx + 1
  /\ UNCHANGED <<treeVars, dest0, phase, queue, seen, artifactTypes, ledger,
                 providedExternals, missingRequired, error, configPrefixes,
                 dest, manifest, written>>

\* Variant: the traversal starts without looking at missing_required.
StartTraversalUnchecked ==
  /\ phase = "roots"
  /\ specIdx = Len(BinarySpecs) + 1
  /\ phase' = "expand"
  /\ UNCHANGED <<treeVars, dest0, specIdx, queue, seen, artifactTypes, ledger,
                 providedExternals, missingRequired, optionalMissing, error,
                 configPrefixes, dest, manifest, written>>

\* After the loop, with every required binary found: the traversal starts.
StartTraversal ==
  /\ phase = "roots"
  /\ specIdx = Len(BinarySpecs) + 1
  /\ missingRequired = {}
  /\ phase' = "expand"
  /\ UNCHANGED <<treeVars, dest0, specIdx, queue, seen, artifactTypes, ledger,
                 providedExternals, missingRequired, optionalMissing, error,
                 configPrefixes, dest, manifest, written>>

\* After the loop: any missing required binary raises before the traversal.
FailMissingRequired ==
  /\ phase = "roots"
  /\ specIdx = Len(BinarySpecs) + 1
  /\ missingRequired # {}
  /\ phase' = "failed"
  /\ error' = "MissingRequired"
  /\ UNCHANGED <<treeVars, dest0, specIdx, queue, seen, artifactTypes, ledger,
                 providedExternals, missingRequired, optionalMissing,
                 configPrefixes, dest, manifest, written>>

-----------------------------------------------------------------------------
(* The worklist: one iteration of `while queue:`, split by the branch the  *)
(* popped path takes.                                                      *)

Current == Head(queue)
\* The interpreter still has to be classified (and so checked).
InterpPending(p) ==
  /\ interp[p] # NoInterp
  /\ interp[p] \notin DOMAIN artifactTypes

\* The path was expanded before: `continue`.
PopSeen ==
  /\ phase = "expand"
  /\ queue # <<>>
  /\ Current \in seen
  /\ queue' = Tail(queue)
  /\ UNCHANGED <<treeVars, dest0, phase, specIdx, seen, artifactTypes, ledger,
                 providedExternals, missingRequired, optionalMissing, error,
                 configPrefixes, dest, manifest, written>>

\* The resolved path does not exist: provided externally, unclassified.
PopProvided ==
  /\ phase = "expand"
  /\ queue # <<>>
  /\ Current \notin seen
  /\ ~Readable(Current)
  /\ queue' = Tail(queue)
  /\ providedExternals' = providedExternals \cup {Current}
  /\ artifactTypes' = DropRole(artifactTypes, Current)
  /\ seen' = seen \cup {Current}
  /\ UNCHANGED <<treeVars, dest0, phase, specIdx, ledger, missingRequired,
                 optionalMissing, error, configPrefixes, dest, manifest,
                 written>>

\* parse_elf_metadata raises (bad magic, class, encoding or STRTAB).
PopMalformed ==
  /\ phase = "expand"
  /\ queue # <<>>
  /\ Current \notin seen
  /\ Readable(Current)
  /\ Current \in malformed
  /\ queue' = Tail(queue)
  /\ phase' = "failed"
  /\ error' = "FormatError"
  /\ UNCHANGED <<treeVars, dest0, specIdx, seen, artifactTypes, ledger,
                 providedExternals, missingRequired, optionalMissing,
                 configPrefixes, dest, manifest, written>>

\* A new interpreter that os.path.exists does not find: raised at once.
PopMissingInterp ==
  /\ phase = "expand"
  /\ queue # <<>>
  /\ Current \notin seen
  /\ Readable(Current)
  /\ Current \notin malformed
  /\ InterpPending(Current)
  /\ ~Exists(interp[Current])
  /\ queue' = Tail(queue)
  /\ phase' = "failed"
  /\ error' = "MissingInterpreter"
  /\ UNCHANGED <<treeVars, dest0, specIdx, seen, artifactTypes, ledger,
                 providedExternals, missingRequired, optionalMissing,
                 configPrefixes, dest, manifest, written>>

\* Variant: an unknown name replaces the ledger instead of joining it.
NeedStepOverwrite(p, acc, n) ==
  LET lib == LibIndex[n] IN
  CASE lib = NoPath -> [acc EXCEPT !.ledger = <<<<p, n>>>>]
    [] ~LExists(lib) -> [acc EXCEPT !.ext = @ \cup {lib}]
    [] lib \in DOMAIN acc.types -> acc
    [] OTHER -> [acc EXCEPT !.types = SetRole(@, lib, "library"),
                            !.queue = Append(@, lib)]

\* One DT_NEEDED name of path p, folded over the state the loop body keeps:
\* unknown names go to the ledger, index hits that are gone from disk are
\* provided externally, new libraries are classified and queued.
NeedStep(p, acc, n) ==
  LET lib == LibIndex[n] IN
  CASE lib = NoPath ->
         [acc EXCEPT !.ledger = Append(@, <<p, n>>)]
    [] ~LExists(lib) ->
         [acc EXCEPT !.ext = @ \cup {lib}]
    [] lib \in DOMAIN acc.types ->
         acc
    [] OTHER ->
         [acc EXCEPT !.types = SetRole(@, lib, "library"),
                     !.queue = Append(@, lib)]

\* The path is parsed; its interpreter, then each needed name, is handled;
\* the path is marked seen.
PopExpand ==
  /\ phase = "expand"
  /\ queue # <<>>
  /\ Current \notin seen
  /\ Readable(Current)
  /\ Current \notin malformed
  /\ InterpPending(Current) => Exists(interp[Current])
  /\ LET p == Current
         i == interp[p]
         start == IF InterpPending(p)
                    THEN [types |-> SetRole(artifactTypes, i, "interpreter"),
                          queue |-> Append(Tail(queue), i),
                          ledger |-> ledger, ext |-> providedExternals]
                    ELSE [types |-> artifactTypes, queue |-> Tail(queue),
                          ledger |-> ledger, ext |-> providedExternals]
         acc == FoldLeft(LAMBDA a, n : NeedStep(p, a, n), start, needs[p])
     IN /\ artifactTypes' = acc.types
        /\ queue' = acc.queue
        /\ ledger' = acc.ledger
        /\ providedExternals' = acc.ext
        /\ seen' = seen \cup {p}
  /\ UNCHANGED <<treeVars, dest0, phase, specIdx, missingRequired, optionalMissing,
                 error, configPrefixes, dest, manifest, written>>

\* Variant: copying starts without looking at the ledger.
LedgerCleanUnchecked ==
  /\ phase = "expand"
  /\ queue = <<>>
  /\ phase' = "copy"
  /\ UNCHANGED <<treeVars, dest0, specIdx, queue, seen, artifactTypes, ledger,
                 providedExternals, missingRequired, optionalMissing, error,
                 configPrefixes, dest, manifest, written>>

\* The queue has drained and no library is missing: copying starts.
LedgerClean ==
  /\ phase = "expand"
  /\ queue = <<>>
  /\ ledger = <<>>
  /\ phase' = "copy"
  /\ UNCHANGED <<treeVars, dest0, specIdx, queue, seen, artifactTypes, ledger,
                 providedExternals, missingRequired, optionalMissing, error,
                 configPrefixes, dest, manifest, written>>

\* The queue has drained with unresolved names: one error lists them all.
FailMissingLibs ==
  /\ phase = "expand"
  /\ queue = <<>>
  /\ ledger # <<>>
  /\ phase' = "failed"
  /\ error' = "MissingLibs"
  /\ UNCHANGED <<treeVars, dest0, specIdx, queue, seen, artifactTypes, ledger,
                 providedExternals, missingRequired, optionalMissing,
                 configPrefixes, dest, manifest, written>>

-----------------------------------------------------------------------------
(* Materialisation and the manifest.                                       *)

\* Variant: copy_entry leaves an entry already at the destination alone.
CopyAllMissing(d, S) ==
  [p \in Paths |-> IF p \in S /\ d[p] = "none" THEN CopyEntry(d, p) ELSE d[p]]

\* dest after copy_entry of every path in S
CopyAll(d, S) == [p \in Paths |-> IF p \in S THEN CopyEntry(d, p) ELSE d[p]]

\* copytree(symlinks=True, dirs_exist_ok=True): a link is made with
\* os.symlink, which fails on an entry already at the destination; copytree
\* collects the error, goes on with the other entries and raises
\* shutil.Error at the end.  Files go through copy2.
LinkClashes(d, S) == {p \in S : IsLink(p) /\ d[p] # "none"}
TreeCopy(d, S) == CopyAll(d, S \ LinkClashes(d, S))

\* Variant: only artifacts that os.path.exists finds are copied.
CopyArtifactsExisting ==
  /\ phase = "copy"
  /\ LET S == {p \in DOMAIN artifactTypes : Exists(p)}
     IN /\ dest' = CopyAll(dest, S)
        /\ written' = written \cup S
  /\ phase' = "configs"
  /\ UNCHANGED <<treeVars, dest0, specIdx, queue, seen, artifactTypes, ledger,
                 providedExternals, missingRequired, optionalMissing, error,
                 configPrefixes, manifest>>

\* for rel in sorted(artifact_types): copy_entry(...)
CopyArtifacts ==
  /\ phase = "copy"
  /\ dest' = CopyAll(dest, DOMAIN artifactTypes)
  /\ written' = written \cup DOMAIN artifactTypes
  /\ phase' = "configs"
  /\ UNCHANGED <<treeVars, dest0, specIdx, queue, seen, artifactTypes, ledger,
                 providedExternals, missingRequired, optionalMissing, error,
                 configPrefixes, manifest>>


\* Every configuration file is optional (CONFIG_FILES): present ones are
\* copied and classified "config" unless already classified; missing ones
\* only warn.
CopyConfigFiles ==
  /\ phase = "configs"
  /\ LET C == ConfigsPresent
     IN /\ dest' = CopyAll(dest, C)
        /\ written' = written \cup C
        /\ artifactTypes' = artifactTypes @@ [p \in C |-> "config"]
  /\ phase' = "dirs"
  /\ UNCHANGED <<treeVars, dest0, specIdx, queue, seen, ledger, providedExternals,
                 missingRequired, optionalMissing, error, configPrefixes,
                 manifest>>

\* copytree(symlinks=True) of each configuration directory that exists.
\* CONFIG_DIRS has one entry, so one copytree call copies every entry.
CopyConfigDirs ==
  /\ phase = "dirs"
  /\ LET clash == LinkClashes(dest, DirEntriesPresent)
     IN /\ dest' = TreeCopy(dest, DirEntriesPresent)
        /\ written' = written \cup (DirEntriesPresent \ clash)
        /\ IF clash = {}
             THEN /\ configPrefixes' = {d \in ToSet(ConfigDirs) : dirPresent[d]}
                  /\ phase' = "manifest"
                  /\ UNCHANGED error
             ELSE /\ phase' = "failed"
                  /\ error' = "CopyTreeError"
                  /\ UNCHANGED configPrefixes
  /\ UNCHANGED <<treeVars, dest0, specIdx, queue, seen, artifactTypes, ledger,
                 providedExternals, missingRequired, optionalMissing, manifest>>

\* The manifest type of a destination entry: links are "symlink", else the
\* classification, else "config" (by prefix or by default).
EntryType(p) ==
  CASE dest[p] = "link" -> "symlink"
    [] p \in DOMAIN artifactTypes -> artifactTypes[p]
    [] OTHER -> "config"

\* write_manifest: one record per entry os.walk finds, sorted by path.
WriteManifest ==
  /\ phase = "manifest"
  /\ manifest' = [p \in {q \in Paths : dest[q] # "none"} |-> EntryType(p)]
  /\ phase' = "done"
  /\ UNCHANGED <<treeVars, dest0, specIdx, queue, seen, artifactTypes, ledger,
                 providedExternals, missingRequired, optionalMissing, error,
                 configPrefixes, dest, written>>

\* The paths the copy loop the run is in still has to copy.
Pending ==
  CASE phase = "copy" -> DOMAIN artifactTypes
    [] phase = "configs" -> ConfigsPresent
    [] OTHER -> DirEntriesPresent

\* The process is killed part-way through a copy loop (no rollback: what
\* was copied stays) and sync_artifacts is run again from the start over
\* the same source tree and destination.
CrashAndRerun ==
  /\ phase \in {"copy", "configs", "dirs"}
  /\ crashes < MaxCrashes
  /\ \E S \in SUBSET Pending :
       IF phase = "dirs"
         THEN /\ dest' = TreeCopy(dest, S)
              /\ written' = written \cup (S \ LinkClashes(dest, S))
         ELSE /\ dest' = CopyAll(dest, S)
              /\ written' = written \cup S
  /\ crashes' = crashes + 1
  /\ phase' = "roots"
  /\ specIdx' = 1
  /\ queue' = <<>>
  /\ seen' = {}
  /\ artifactTypes' = [p \in {} |-> "binary"]
  /\ ledger' = <<>>
  /\ providedExternals' = {}
  /\ missingRequired' = {}
  /\ optionalMissing' = {}
  /\ error' = "none"
  /\ configPrefixes' = {}
  /\ manifest' = [p \in {} |-> "config"]
  /\ UNCHANGED <<treeVars, dest0>>

RunStep ==
  \/ SelectRoot \/ RequiredMissing \/ OptionalMissing
  \/ StartTraversal \/ FailMissingRequired
  \/ PopSeen \/ PopProvided \/ PopMalformed \/ PopMissingInterp \/ PopExpand
  \/ LedgerClean \/ FailMissingLibs
  \/ CopyArtifacts \/ CopyConfigFiles \/ CopyConfigDirs
  \/ WriteManifest

Next == (RunStep /\ UNCHANGED crashes) \/ CrashAndRerun

\* The run is one single-threaded process that keeps stepping until it
\* exits: weak fairness on its next-state relation.
Spec == Init /\ [][Next]_vars /\ WF_vars(Next)

-----------------------------------------------------------------------------
(* Properties.                                                             *)

TypeOK ==
  /\ TreeTypeOK
  /\ phase \in Phases
  /\ specIdx \in 1..Len(BinarySpecs) + 1
  /\ queue \in Seq(Paths)
  /\ seen \subseteq Paths
  /\ DOMAIN artifactTypes \subseteq Paths
  /\ \A p \in DOMAIN artifactTypes : artifactTypes[p] \in Roles
  /\ ledger \in Seq(Paths \X LibNames)
  /\ providedExternals \subseteq Paths
  /\ error \in Errors
  /\ dest \in [Paths -> DestKinds]
  /\ written \subseteq Paths
  /\ crashes \in 0..MaxCrashes

\* Aggregated failure (sync_artifacts, the ledger missing_libs): once the
\* queue has drained, every file of the closure has been expanded and the
\* ledger names every (file, unknown library) pair of the whole closure,
\* not only those met before the first one.
LedgerAggregatesAll ==
  (phase \in {"copy", "configs", "dirs", "manifest", "done"}
     \/ error = "MissingLibs")
    => /\ seen = Closure
       /\ ToSet(ledger) = MissingPairs

\* A successful run copies every readable file of the closure, and nothing
\* outside the closure and the configuration files and directories.
CopiesCoverClosure ==
  phase = "done" =>
    /\ {p \in Closure : Readable(p)} \subseteq written
    /\ written \subseteq Closure \cup ConfigPaths \cup DirPaths

\* Nothing is copied into the destination unless every required binary was
\* found, the whole closure was traversed without a fault and the ledger
\* is empty: the errors that stop a run are raised before any copy, so even
\* a run interrupted while copying has passed every check.
NoCopyBeforeCleanClosure ==
  written # {} =>
    /\ ~RootsMissing
    /\ ~ClosureFault
    /\ MissingPairs = {}

\* Rerunning is safe (spec section 8, idempotence; the copy loops keep no
\* record and roll nothing back): after a run that completes, whatever
\* earlier runs over the same tree were interrupted while copying, each
\* destination entry is what this run copies there, or what the
\* destination held before any run.
RerunIdempotent ==
  phase = "done" =>
    \A p \in Paths :
      dest[p] = IF p \in DOMAIN artifactTypes \cup DirEntriesPresent
                  THEN IF IsLink(p) THEN "link" ELSE "file"
                  ELSE dest0[p]

\* A run fails only on a fault of the source tree (spec sections 7 and 9:
\* the error taxonomy, and a rerun restarts from scratch): a required root
\* with no candidate, a file that fails to parse or names a missing
\* interpreter, or an unresolved library name, whatever the destination
\* directory already holds.
FailsOnlyOnTreeFault ==
  phase = "failed" => RootsMissing \/ ClosureFault \/ MissingPairs # {}

\* A path reported as provided externally (sync_artifacts, the
\* provided_externals set: "not copied (provided by base system/apex)") is
\* never copied into the destination by a successful run.
ProvidedNeverCopied ==
  phase = "done" => providedExternals \cap written = {}

\* The run fails with a missing interpreter only when some parsed file of
\* the closure names an interpreter that cannot be read from the source tree.
InterpreterErrorMeansAbsent ==
  error = "MissingInterpreter" =>
    \E p \in Closure :
      /\ Readable(p)
      /\ interp[p] # NoInterp
      /\ ~Readable(interp[p])

-----------------------------------------------------------------------------
(* Refinement: the run implements CapsuleClosure.  The abstract outcome is *)
(* decided when the run writes its manifest or raises, and what it copied  *)
(* is visible from then on.                                                *)

Abs == INSTANCE CapsuleClosure
         WITH outcome <- CASE phase = "done" -> "ok"
                           [] phase = "failed" -> "failed"
                           [] OTHER -> "running",
              copied <- IF phase \in {"done", "failed"} THEN written ELSE {}

\* Every run of sync_artifacts and write_manifest ends, fails exactly on the
\* faults of its tree having copied nothing, and otherwise copies the
\* readable closure and the configuration found and nothing beyond.
ImplementsClosure == Abs!AbsSpec

=============================================================================
