\* sync_artifacts and write_manifest over every tree of MCCapsuleSync, with one interruption of a copy loop and a rerun, over an empty destination or one holding a stale plain file.
CONSTANTS
  sm = sm
  hwsm = hwsm
  ps = ps
  psb = psb
  l1 = l1
  l2 = l2
  ld = ld
  cfg = cfg
  sel = sel
  n1 = n1
  n2 = n2
  n3 = n3
  selinux = selinux
  NoPath = NoPath
  NoInterp = NoInterp
  Paths <- MCPaths
  LibNames <- MCLibNames
  BinarySpecs <- MCBinarySpecs
  ConfigFiles <- MCConfigFiles
  ConfigDirs <- MCConfigDirs
  DirFiles <- MCDirFiles
  LibIndex <- MCLibIndex
  KindChoice <- MCKindChoice
  NeedsChoice <- MCNeedsChoice
  InterpChoice <- MCInterpChoice
  MalformedChoice <- MCMalformedChoice
  DirChoice <- MCDirChoice
  DestChoice <- MCDestChoiceRerun
  MaxCrashes = 1

SPECIFICATION Spec

INVARIANT TypeOK
INVARIANT LedgerAggregatesAll
INVARIANT CopiesCoverClosure
INVARIANT NoCopyBeforeCleanClosure
INVARIANT RerunIdempotent


\* The process exits after writing the manifest or raising.
CHECK_DEADLOCK FALSE
