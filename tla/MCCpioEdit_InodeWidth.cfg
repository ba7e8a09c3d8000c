\* An archive whose largest inode is the largest the header field holds,
\* with one entry added.
CONSTANTS
  x = x  y = y  t = t  d = d  h = h  e1 = e1  e2 = e2  et = et
  p1 = p1  p2 = p2  p3 = p3  dflt = dflt
  Trailer <- tr
  Default = dflt
  FieldDigits = 4
  Letters <- MCLetters
  Bytes <- MCBytes
  HostKind <- MCHostKind
  HostData <- MCHostData
  TrailingChoice <- MCTrailingChoice
  CutChoice <- MCCutChoice
  Names <- MCNames
  Ids <- MCIds
  HostPaths <- MCHostPaths
  ArchiveChoice <- MCArchiveChoiceFull
  RenameChoice <- MCRenameChoice
  ReplaceChoice <- MCReplaceChoice
  RemoveChoice <- MCRemoveChoice
  AddChoice <- MCAddChoice
SPECIFICATION Spec
INVARIANT RoundTrip
\* main returns after writing the archive or raising.
CHECK_DEADLOCK FALSE
