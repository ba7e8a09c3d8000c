---------------------------- MODULE MCElfMetadata ----------------------------
(* Files with a string table <<0, a, 0, b>> at offset 0 and three dynamic  *)
(* entries after it, at offset 4.  Segment A maps vaddr 8..9 to the        *)
(* dynamic entries; segment B maps vaddr 10..13 to the string table, so    *)
(* DT_STRTAB 10 lies on A's end and B's start, and DT_STRTAB 20 lies in no *)
(* segment.  A needed offset of 3 names b, which no NUL ends before the    *)
(* entries; 9 lies past the end of the data; 0 names the empty string.     *)
EXTENDS ElfMetadata

CONSTANTS a, b, z

MCLetters == {a, b}

Need(v) == [tag |-> DT_NEEDED, val |-> v]
DynCells ==
  {Need(0), Need(1), Need(3), Need(9), [tag |-> DT_STRTAB, val |-> 10],
   [tag |-> DT_STRTAB, val |-> 20], [tag |-> DT_STRSZ, val |-> 1], z}

Ph(t, off, va, sz) == [type |-> t, offset |-> off, vaddr |-> va, filesz |-> sz]
SegA == Ph(PT_LOAD, 4, 8, 2)
SegB == Ph(PT_LOAD, 0, 10, 4)
PtPhdr == Ph(6, 0, 0, 0)

Body(phdrs, phnum, entries) == [phdrs |-> phdrs, phnum |-> phnum,
                             data |-> <<z, a, z, b>> \o entries]

\* Headers: PT_PHDR, the loads, the dynamic segment (of 3 entries, or one
\* more than the file holds), the interpreter (offset 1: "a").
Tables(dynPart) ==
  {<<PtPhdr>> \o ls \o dynPart \o ip :
     ls \in {<<SegA, SegB>>, <<SegB>>, <<>>},
     ip \in {<<>>, <<Ph(PT_INTERP, 1, 0, 2)>>}}

\* e_phnum is the number of headers, or one more than the file holds.
Bodies ==
  UNION {{Body(t, n, <<z, z, z>>) : n \in {Len(t), Len(t) + 1}} : t \in Tables(<<>>)}
  \cup
  UNION {{Body(t, n, d) : n \in {Len(t), Len(t) + 1}, d \in [1..3 -> DynCells]} :
           t \in UNION {Tables(<<Ph(PT_DYNAMIC, 4, 8, s)>>) : s \in {3, 4}}}

MCFiles ==
  {[magic |-> TRUE, cls |-> 2, enc |-> 1] @@ bd : bd \in Bodies}
  \cup
  {[magic |-> m, cls |-> c, enc |-> e] @@ Body(<<PtPhdr, SegB, Ph(PT_DYNAMIC, 4, 8, 3)>>, 3,
                                               <<Need(1), [tag |-> DT_STRTAB, val |-> 10], z>>) :
     <<m, c, e>> \in {<<FALSE, 2, 1>>, <<TRUE, 3, 1>>, <<TRUE, 2, 3>>, <<TRUE, 1, 2>>}}
=============================================================================
