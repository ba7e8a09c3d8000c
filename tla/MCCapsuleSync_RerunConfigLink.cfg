\* A sync into the destination an earlier run of the same tree left, when the selinux directory holds a link.
CONSTANTS
  sm = sm
  hwsm = hwsm
  ps = ps
  psb = psb
  l1 = l1
  l2 = l2
  ld = ld
  cfg = cfg
  sel = sel
  n1 = n1
  n2 = n2
  n3 = n3
  selinux = selinux
  NoPath = NoPath
  NoInterp = NoInterp
  Paths <- MCPaths
  LibNames <- MCLibNames
  BinarySpecs <- MCBinarySpecs
  ConfigFiles <- MCConfigFiles
  ConfigDirs <- MCConfigDirs
  DirFiles <- MCDirFiles
  LibIndex <- MCLibIndex
  KindChoice <- MCKindChoiceSelLink
  NeedsChoice <- MCNeedsChoice
  InterpChoice <- MCInterpChoice
  MalformedChoice <- MCMalformedChoice
  DirChoice <- MCDirChoice
  DestChoice <- MCDestChoiceDone
  MaxCrashes = 0

SPECIFICATION Spec

INVARIANT FailsOnlyOnTreeFault


\* The process exits after writing the manifest or raising.
CHECK_DEADLOCK FALSE
