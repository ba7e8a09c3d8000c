CONSTANTS
  sm = sm
  hwsm = hwsm
  ps = ps
  psb = psb
  l1 = l1
  l2 = l2
  ld = ld
  cfg = cfg
  sel = sel
  n1 = n1
  n2 = n2
  n3 = n3
  selinux = selinux
  NoPath = NoPath
  NoInterp = NoInterp
  Paths <- MCPaths
  LibNames <- MCLibNames
  BinarySpecs <- MCBinarySpecs
  ConfigFiles <- MCConfigFiles
  ConfigDirs <- MCConfigDirs
  DirFiles <- MCDirFiles
  LibIndex <- MCLibIndex
  KindChoice <- MCKindChoice
  NeedsChoice <- MCNeedsChoice
  InterpChoice <- MCInterpChoice
  MalformedChoice <- MCMalformedChoice
  DirChoice <- MCDirChoice
  DestChoice <- MCDestChoice
  MaxCrashes = 0

SPECIFICATION Spec

INVARIANT InterpreterErrorMeansAbsent

\* The process exits after writing the manifest or raising.
CHECK_DEADLOCK FALSE
