------------------------------ MODULE ElfMetadata ------------------------------
(***************************************************************************)
(* parse_elf_metadata of scripts/_capsule_sync.py, one step per loop       *)
(* iteration: the identification checks, the program-header loop, the     *)
(* dynamic-section loop, virt_to_file and the loop reading the DT_NEEDED   *)
(* names.                                                                  *)
(*                                                                         *)
(* A file is a record:                                                     *)
(*   magic       len(data) >= 16 and the \x7fELF prefix;                   *)
(*   cls, enc    EI_CLASS and EI_DATA;                                     *)
(*   phnum       e_phnum;                                                  *)
(*   phdrs       the program headers the file holds, already decoded      *)
(*               (the struct layouts of ELFCLASS32/64 are not modelled);   *)
(*   data        the file contents as cells.                              *)
(* Offsets count cells.  A cell is the byte Nul, a non-zero byte (a member *)
(* of Letters) or one dynamic entry [tag, val]; entry_size is one cell.    *)
(* Read as a dynamic entry, Nul is the all-zero entry DT_NULL and a letter *)
(* an entry of a tag the parser ignores; read as string bytes, an entry is *)
(* not Nul.                                                                *)
(***************************************************************************)
EXTENDS Integers, Sequences, SequencesExt

CONSTANTS
  Files,    \* the files parsed
  Letters,  \* non-zero bytes
  Nul       \* the byte 0

NoAddr == -1          \* None for an offset or an address
PT_LOAD == 1
PT_DYNAMIC == 2
PT_INTERP == 3
DT_NULL == 0
DT_NEEDED == 1
DT_STRTAB == 5
DT_STRSZ == 10
OtherTag == 7         \* a tag the parser ignores

\* struct.unpack_from of one dynamic entry (d_tag, d_val) from a cell.
DynAt(c) == IF c = Nul THEN [tag |-> DT_NULL, val |-> 0]
            ELSE IF c \in Letters THEN [tag |-> OtherTag, val |-> 0]
            ELSE c

\* data[off : off + n]: a Python slice, cut at the end of the data.
Slice(data, off, n) ==
  SubSeq(data, off + 1, IF off + n < Len(data) THEN off + n ELSE Len(data))

\* segment.split(b"\x00", 1)[0]
BeforeNul(s) == LET z == SelectInSeq(s, LAMBDA c : c = Nul)
                IN IF z = 0 THEN s ELSE SubSeq(s, 1, z - 1)

\* The identification bytes: magic, EI_CLASS 1 or 2, EI_DATA 1 or 2.
IdentOk(fl) == fl.magic /\ fl.cls \in {1, 2} /\ fl.enc \in {1, 2}

\* Variant: seg_vaddr <= vaddr <= seg_vaddr + seg_size.
RECURSIVE VirtToFileUpperIncl(_, _)
VirtToFileUpperIncl(segs, va) ==
  IF segs = <<>> THEN NoAddr
  ELSE IF Head(segs).vaddr <= va /\ va <= Head(segs).vaddr + Head(segs).size
         THEN Head(segs).off + (va - Head(segs).vaddr)
         ELSE VirtToFileUpperIncl(Tail(segs), va)

\* virt_to_file: the first PT_LOAD segment whose file-backed range holds
\* the address.
RECURSIVE VirtToFile(_, _)
VirtToFile(segs, va) ==
  IF segs = <<>> THEN NoAddr
  ELSE IF Head(segs).vaddr <= va /\ va < Head(segs).vaddr + Head(segs).size
         THEN Head(segs).off + (va - Head(segs).vaddr)
         ELSE VirtToFile(Tail(segs), va)

\* data.find(b"\x00", start)
FindNul(data, start) ==
  LET z == SelectInSubSeq(data, start + 1, Len(data), LAMBDA c : c = Nul)
  IN IF z = 0 THEN -1 ELSE z - 1

\* while end < len(data) and data[end] != 0: end += 1
RECURSIVE ScanEnd(_, _)
ScanEnd(data, e) ==
  IF e < Len(data) /\ data[e + 1] # Nul THEN ScanEnd(data, e + 1) ELSE e

\* The bytes of one DT_NEEDED name: up to the NUL that find returns, or,
\* when there is none or it lies past DT_STRSZ, up to the one the scan
\* finds.
NameAt(data, start, off, size) ==
  LET end == FindNul(data, start)
      last == IF end = -1 \/ (size # 0 /\ end >= off + size)
                THEN ScanEnd(data, start) ELSE end
  IN SubSeq(data, start + 1, last)

-----------------------------------------------------------------------------
VARIABLES
  f,          \* the file
  pc,         \* "ident", "phdrs", "dyn", "strtab", "names", "done", "error"
  idx,        \* the program header the loop is at
  loads,      \* load_segments: <<[vaddr, off, size]>>
  dyn,        \* <<>> for None, or <<dyn_segment>>
  interp,     \* <<>> for None, or <<path>>
  cursor,     \* the dynamic entry the loop is at
  neededOffs, \* needed_offsets
  strtab,     \* strtab_vaddr, NoAddr for None
  strsz,      \* strtab_size, 0 for None
  strtabOff,  \* strtab_off
  k,          \* the needed offset the name loop is at
  needed      \* needed

vars == <<f, pc, idx, loads, dyn, interp, cursor, neededOffs, strtab, strsz,
          strtabOff, k, needed>>

Init ==
  /\ f \in Files
  /\ pc = "ident"
  /\ idx = 0 /\ loads = <<>> /\ dyn = <<>> /\ interp = <<>>
  /\ cursor = 0 /\ neededOffs = <<>> /\ strtab = NoAddr /\ strsz = 0
  /\ strtabOff = NoAddr /\ k = 1 /\ needed = <<>>

\* ValueError: not an ELF file, or an unsupported class or data encoding.
BadIdent ==
  /\ pc = "ident" /\ ~IdentOk(f)
  /\ pc' = "error"
  /\ UNCHANGED <<f, idx, loads, dyn, interp, cursor, neededOffs, strtab, strsz,
                 strtabOff, k, needed>>

ReadIdent ==
  /\ pc = "ident" /\ IdentOk(f)
  /\ pc' = "phdrs"
  /\ UNCHANGED <<f, idx, loads, dyn, interp, cursor, neededOffs, strtab, strsz,
                 strtabOff, k, needed>>

\* One iteration of the program-header loop: a PT_LOAD is recorded, the
\* last PT_DYNAMIC and the last PT_INTERP win, other types are skipped.
ScanPhdr ==
  /\ pc = "phdrs" /\ idx < f.phnum /\ idx < Len(f.phdrs)
  /\ LET ph == f.phdrs[idx + 1]
     IN /\ loads' = IF ph.type = PT_LOAD
                      THEN Append(loads, [vaddr |-> ph.vaddr, off |-> ph.offset,
                                          size |-> ph.filesz])
                      ELSE loads
        /\ dyn' = IF ph.type = PT_DYNAMIC
                    THEN <<[off |-> ph.offset, size |-> ph.filesz]>> ELSE dyn
        /\ interp' = IF ph.type = PT_INTERP
                       THEN <<BeforeNul(Slice(f.data, ph.offset, ph.filesz))>>
                       ELSE interp
  /\ idx' = idx + 1
  /\ UNCHANGED <<f, pc, cursor, neededOffs, strtab, strsz, strtabOff, k, needed>>

\* struct.unpack_from past the end of the data raises struct.error.
PhdrOutOfFile ==
  /\ pc = "phdrs" /\ idx < f.phnum /\ idx >= Len(f.phdrs)
  /\ pc' = "error"
  /\ UNCHANGED <<f, idx, loads, dyn, interp, cursor, neededOffs, strtab, strsz,
                 strtabOff, k, needed>>

\* The loop is over; the dynamic section is scanned if there is one.
EndPhdrs ==
  /\ pc = "phdrs" /\ idx = f.phnum
  /\ pc' = IF dyn # <<>> THEN "dyn" ELSE "strtab"
  /\ UNCHANGED <<f, idx, loads, dyn, interp, cursor, neededOffs, strtab, strsz,
                 strtabOff, k, needed>>

\* The dynamic entry at cursor, when the loop reads one.
DynEntryAt == DynAt(f.data[dyn[1].off + cursor + 1])

\* One entry of the dynamic section other than DT_NULL.
ScanDyn ==
  /\ pc = "dyn"
  /\ cursor < dyn[1].size
  /\ dyn[1].off + cursor + 1 <= Len(f.data)
  /\ DynEntryAt.tag # DT_NULL
  /\ LET e == DynEntryAt
     IN /\ neededOffs' = IF e.tag = DT_NEEDED THEN Append(neededOffs, e.val)
                         ELSE neededOffs
        /\ strtab' = IF e.tag = DT_STRTAB THEN e.val ELSE strtab
        /\ strsz' = IF e.tag = DT_STRSZ THEN e.val ELSE strsz
  /\ cursor' = cursor + 1
  /\ UNCHANGED <<f, pc, idx, loads, dyn, interp, strtabOff, k, needed>>

\* The loop runs out of entries.
EndDyn ==
  /\ pc = "dyn" /\ cursor >= dyn[1].size
  /\ pc' = "strtab"
  /\ UNCHANGED <<f, idx, loads, dyn, interp, cursor, neededOffs, strtab, strsz,
                 strtabOff, k, needed>>

\* break: the entry would run past the end of the data.
DynTruncated ==
  /\ pc = "dyn" /\ cursor < dyn[1].size
  /\ dyn[1].off + cursor + 1 > Len(f.data)
  /\ pc' = "strtab"
  /\ UNCHANGED <<f, idx, loads, dyn, interp, cursor, neededOffs, strtab, strsz,
                 strtabOff, k, needed>>

\* break at DT_NULL.
DynNull ==
  /\ pc = "dyn" /\ cursor < dyn[1].size
  /\ dyn[1].off + cursor + 1 <= Len(f.data)
  /\ DynEntryAt.tag = DT_NULL
  /\ pc' = "strtab"
  /\ UNCHANGED <<f, idx, loads, dyn, interp, cursor, neededOffs, strtab, strsz,
                 strtabOff, k, needed>>

\* Without DT_STRTAB no name is read.
NoStrtab ==
  /\ pc = "strtab" /\ strtab = NoAddr
  /\ pc' = "done"
  /\ UNCHANGED <<f, idx, loads, dyn, interp, cursor, neededOffs, strtab, strsz,
                 strtabOff, k, needed>>

\* RuntimeError: no PT_LOAD segment holds DT_STRTAB.
StrtabUnresolved ==
  /\ pc = "strtab" /\ strtab # NoAddr /\ VirtToFile(loads, strtab) = NoAddr
  /\ pc' = "error"
  /\ UNCHANGED <<f, idx, loads, dyn, interp, cursor, neededOffs, strtab, strsz,
                 strtabOff, k, needed>>

StrtabResolved ==
  /\ pc = "strtab" /\ strtab # NoAddr /\ VirtToFile(loads, strtab) # NoAddr
  /\ strtabOff' = VirtToFile(loads, strtab)
  /\ pc' = "names"
  /\ UNCHANGED <<f, idx, loads, dyn, interp, cursor, neededOffs, strtab, strsz,
                 k, needed>>

\* One needed offset: skipped past the end of the data, else its name is
\* appended when not empty.
ReadName ==
  /\ pc = "names" /\ k <= Len(neededOffs)
  /\ LET start == strtabOff + neededOffs[k]
         name == NameAt(f.data, start, strtabOff, strsz)
     IN needed' = IF start < Len(f.data) /\ name # <<>>
                    THEN Append(needed, name) ELSE needed
  /\ k' = k + 1
  /\ UNCHANGED <<f, pc, idx, loads, dyn, interp, cursor, neededOffs, strtab,
                 strsz, strtabOff>>

EndNames ==
  /\ pc = "names" /\ k > Len(neededOffs)
  /\ pc' = "done"
  /\ UNCHANGED <<f, idx, loads, dyn, interp, cursor, neededOffs, strtab, strsz,
                 strtabOff, k, needed>>

Next ==
  \/ BadIdent \/ ReadIdent \/ ScanPhdr \/ PhdrOutOfFile \/ EndPhdrs
  \/ ScanDyn \/ EndDyn \/ DynTruncated \/ DynNull
  \/ NoStrtab \/ StrtabUnresolved \/ StrtabResolved
  \/ ReadName \/ EndNames

\* A pure function: it runs to its return or its raise.
Spec == Init /\ [][Next]_vars /\ WF_vars(Next)

-----------------------------------------------------------------------------
(* The reference: what section 4.1 of the spec says the parser returns,    *)
(* stated over the whole file rather than loop by loop.                    *)

\* The program headers e_phnum names; the file may hold fewer.
Table(fl) == SubSeq(fl.phdrs, 1, fl.phnum)
Truncated(fl) == fl.phnum > Len(fl.phdrs)

\* The last program header of type t, 0 when there is none.
LastOfType(fl, t) == SelectLastInSeq(Table(fl), LAMBDA p : p.type = t)

RefLoads(fl) ==
  LET ls == SelectSeq(Table(fl), LAMBDA p : p.type = PT_LOAD)
  IN [j \in DOMAIN ls |-> [vaddr |-> ls[j].vaddr, off |-> ls[j].offset,
                           size |-> ls[j].filesz]]

\* The interpreter segment's content as a null-terminated string.
RefInterp(fl) ==
  LET i == LastOfType(fl, PT_INTERP)
  IN IF i = 0 THEN <<>>
     ELSE <<BeforeNul(Slice(fl.data, Table(fl)[i].offset, Table(fl)[i].filesz))>>

\* The (tag, value) pairs of the dynamic section the file holds, up to the
\* terminator.
RefDynEntries(fl) ==
  LET i == LastOfType(fl, PT_DYNAMIC)
      cs == IF i = 0 THEN <<>>
            ELSE Slice(fl.data, Table(fl)[i].offset, Table(fl)[i].filesz)
      es == [j \in DOMAIN cs |-> DynAt(cs[j])]
      z == SelectInSeq(es, LAMBDA e : e.tag = DT_NULL)
  IN IF z = 0 THEN es ELSE SubSeq(es, 1, z - 1)

TagValues(fl, t) ==
  LET es == SelectSeq(RefDynEntries(fl), LAMBDA e : e.tag = t)
  IN [j \in DOMAIN es |-> es[j].val]

RefStrtab(fl) ==
  IF TagValues(fl, DT_STRTAB) = <<>> THEN NoAddr ELSE Last(TagValues(fl, DT_STRTAB))

\* The first loadable segment whose virtual range contains the address.
RefStrtabOff(fl) ==
  LET v == RefStrtab(fl)
      ls == RefLoads(fl)
      i == SelectInSeq(ls, LAMBDA s : s.vaddr <= v /\ v < s.vaddr + s.size)
  IN IF i = 0 THEN NoAddr ELSE ls[i].off + v - ls[i].vaddr

StrtabUnresolvable(fl) == RefStrtab(fl) # NoAddr /\ RefStrtabOff(fl) = NoAddr

\* The non-empty null-terminated strings at the needed offsets.
RefNeeded(fl) ==
  LET offs == TagValues(fl, DT_NEEDED)
      names == [j \in DOMAIN offs |->
                  LET start == RefStrtabOff(fl) + offs[j]
                  IN IF start < Len(fl.data)
                       THEN BeforeNul(SubSeq(fl.data, start + 1, Len(fl.data)))
                       ELSE <<>>]
  IN IF RefStrtab(fl) = NoAddr THEN <<>> ELSE SelectSeq(names, LAMBDA n : n # <<>>)

\* The errors section 4.1 names: a bad magic, class or byte order, or a
\* string table no segment holds while needed entries exist; and a
\* program-header table the file does not hold.
SpecFormatError(fl) ==
  \/ ~IdentOk(fl)
  \/ Truncated(fl)
  \/ StrtabUnresolvable(fl) /\ TagValues(fl, DT_NEEDED) # <<>>

\* The run ends as `failing' says, and a run that returns returns the
\* reference result.
ParsesAs(failing) ==
  pc \in {"done", "error"} =>
    IF failing THEN pc = "error"
    ELSE pc = "done" /\ needed = RefNeeded(f) /\ interp = RefInterp(f)

-----------------------------------------------------------------------------
(* Properties.                                                             *)

\* parse_elf_metadata returns the reference result: the loops, the
\* PT_LOAD lookup of virt_to_file (first segment, half-open file-backed
\* range) and the find/scan of each name agree with the whole-file
\* definition, and it raises exactly on a malformed identification, a
\* missing program header, or a DT_STRTAB that no segment holds.
ParseMatchesReference == ParsesAs(SpecFormatError(f) \/ StrtabUnresolvable(f))

=============================================================================
