\* build_library_index over every choice of existing directories and file
\* placement, and every order os.walk may list subdirectories in.
CONSTANTS
  sys = sys  ven = ven  art = art  lib64 = lib64  lib = lib
  hw = hw  egl = egl  top = top  libc = libc  libgl = libgl  readme = readme
  Partitions <- MCPartitions
  LibDirs <- MCLibDirs
  ApexEntries <- MCApexEntries
  Subdirs <- MCSubdirs
  Top = top
  Names <- MCNames
  SoNames <- MCSoNames
  DirChoice <- MCDirChoice
  PlaceChoice <- MCPlaceChoice
SPECIFICATION Spec
INVARIANTS TypeOK IndexPrecedence
\* build_library_index returns: the walk stops at phase "done".
CHECK_DEADLOCK FALSE
