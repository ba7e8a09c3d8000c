---------------------------- MODULE CapsuleClosure ----------------------------
(***************************************************************************)
(* What a capsule sync promises, in one step: a run over a given source    *)
(* tree either fails, copying nothing, or succeeds, copying every readable *)
(* file of the dependency closure of the selected roots together with the  *)
(* configuration files and directories found, and nothing else.  A run     *)
(* fails exactly when a required root binary is missing, a file of the     *)
(* closure cannot be parsed or names a loader that is not found, or a      *)
(* needed library is in no library directory (spec sections 3, 4.3, 7).    *)
(*                                                                         *)
(* A path of the closure that cannot be read is provided externally; the   *)
(* promise leaves open whether such a path is copied.                      *)
(***************************************************************************)
EXTENDS CapsuleTree

VARIABLES
  outcome,  \* "running", "ok" or "failed"
  copied    \* the paths the run has put into the destination

absVars == <<treeVars, outcome, copied>>

\* The run must fail.
Fault == RootsMissing \/ ClosureFault \/ MissingPairs # {}

\* The readable closure and what is copied beside it.
Required == {p \in Closure : Readable(p)} \cup ConfigsPresent \cup DirEntriesPresent
Allowed == Closure \cup ConfigsPresent \cup DirEntriesPresent

\* Any source tree: the tree variables are left unconstrained.
AbsInit ==
  /\ outcome = "running"
  /\ copied = {}

Succeed ==
  /\ outcome = "running"
  /\ ~Fault
  /\ outcome' = "ok"
  /\ copied' \in {Required \cup X : X \in SUBSET (Allowed \ Required)}
  /\ UNCHANGED treeVars

Fail ==
  /\ outcome = "running"
  /\ Fault
  /\ outcome' = "failed"
  /\ copied' = {}
  /\ UNCHANGED treeVars

AbsNext == Succeed \/ Fail

\* Every run ends.
AbsSpec == AbsInit /\ [][AbsNext]_absVars /\ WF_absVars(AbsNext)

=============================================================================
