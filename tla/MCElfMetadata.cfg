\* parse_elf_metadata over every file of MCElfMetadata, against the reference.
CONSTANTS
  a = a  b = b  z = z
  Files <- MCFiles
  Letters <- MCLetters
  Nul = z
SPECIFICATION Spec
INVARIANT ParseMatchesReference
\* The parse returns or raises: done and error are final.
CHECK_DEADLOCK FALSE
