---------------------------- MODULE MCCapsuleSync ----------------------------
(***************************************************************************)
(* Source trees for CapsuleSync.  The paths stand for the ones of          *)
(* _capsule_sync.py: the three BINARY_SPECS binaries (property_service has *)
(* a bootstrap fallback), two libraries of the index, the loader           *)
(* system/bin/linker64, system/etc/ld.config.txt and one file below        *)
(* system/etc/selinux.                                                     *)
(***************************************************************************)
EXTENDS CapsuleSync

CONSTANTS sm, hwsm, ps, psb, l1, l2, ld, cfg, sel,  \* paths
          n1, n2, n3,                                \* DT_NEEDED names
          selinux                                    \* CONFIG_DIRS entry

MCPaths == {sm, hwsm, ps, psb, l1, l2, ld, cfg, sel}
MCLibNames == {n1, n2, n3}

\* BINARY_SPECS
MCBinarySpecs ==
  << [candidates |-> <<sm>>, required |-> TRUE],
     [candidates |-> <<hwsm>>, required |-> TRUE],
     [candidates |-> <<ps, psb>>, required |-> FALSE] >>
\* CONFIG_FILES (all optional)
MCConfigFiles == << <<cfg, FALSE>> >>
MCConfigDirs == <<selinux>>
MCDirFiles == selinux :> {sel}
\* n3 is in no library directory
MCLibIndex == (n1 :> l1) @@ (n2 :> l2) @@ (n3 :> NoPath)

\* Per path, the kinds, needed lists and interpreters the trees may have.
MCKindChoice ==
  (sm :> {"file", "dangling", "absent"}) @@ (hwsm :> {"file", "abs_link"})
  @@ (ps :> {"file", "absent"}) @@ (psb :> {"file", "absent"})
  @@ (l1 :> {"file", "dangling"}) @@ (l2 :> {"file"})
  @@ (ld :> {"file", "abs_link", "absent"}) @@ (cfg :> {"file", "abs_link"})
  @@ (sel :> {"file"})
MCNeedsChoice ==
  (sm :> {<<>>, <<n1, n3>>, <<n1, n2>>}) @@ (hwsm :> {<<>>, <<n3>>})
  @@ (ps :> {<<n1>>}) @@ (psb :> {<<n1>>})
  @@ (l1 :> {<<>>, <<n2>>}) @@ (l2 :> {<<>>, <<n1>>})
  @@ [p \in MCPaths |-> {<<>>}]
MCInterpChoice ==
  (sm :> {NoInterp, ld}) @@ (hwsm :> {ld}) @@ [p \in MCPaths |-> {NoInterp}]
MCMalformedChoice == {{}, {l2}}
MCDirChoice == {[d \in {selinux} |-> TRUE], [d \in {selinux} |-> FALSE]}
MCDestChoice == {[p \in MCPaths |-> "none"]}

\* A destination where an earlier sync left a plain file at the path where
\* hwservicemanager may now be a link.
MCDestChoiceRerun ==
  {[p \in MCPaths |-> "none"], [p \in MCPaths |-> IF p = hwsm THEN "file" ELSE "none"]}

\* The destination an earlier run of a tree whose selinux entry is a link
\* left: the link is there.
MCDestChoiceDone == {[p \in MCPaths |-> IF p = sel THEN "link" ELSE "none"]}
MCKindChoiceSelLink == (sel :> {"rel_link"}) @@ MCKindChoice

\* A destination where an earlier sync of another image left a link at the
\* path of l2, which is a plain file now.
MCDestChoiceStaleLink == {[p \in MCPaths |-> IF p = l2 THEN "link" ELSE "none"]}

\* Fewer trees for the refinement check: property_service only from its
\* bootstrap path and ld.config.txt a plain file.
MCKindChoiceRefine ==
  (ps :> {"absent"}) @@ (cfg :> {"file"}) @@ MCKindChoice

=============================================================================
