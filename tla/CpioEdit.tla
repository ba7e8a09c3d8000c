------------------------------- MODULE CpioEdit -------------------------------
(***************************************************************************)
(* scripts/cpio_edit.py: main reads a newc cpio archive (read_cpio),       *)
(* edits it entry by entry (process_archive: remove, rename, replace,      *)
(* then add new entries with fresh inode numbers) and writes it back       *)
(* (write_cpio).                                                           *)
(*                                                                         *)
(* The archive is a sequence of bytes.  A byte is an integer (a hex digit  *)
(* of a header field, or 0 for NUL and padding) or a model value (a letter *)
(* of a name, a byte of file contents).  A header is the six bytes of the  *)
(* magic and thirteen fields of FieldDigits bytes each (8 in the code,     *)
(* 110 bytes in all).  The inode, file size, name size and check fields    *)
(* are hexadecimal digits; the fields the editor only carries along are    *)
(* abstracted to where they come from, repeated over the field's width:    *)
(* mode, mtime and rdev from an input entry or the host path               *)
(* build_entry_from_path read ("mode"), uid, gid, nlink and devmajor/minor *)
(* from an input entry or the defaults of build_entry_from_path ("meta").  *)
(***************************************************************************)
EXTENDS Integers, Sequences, SequencesExt, FiniteSets

CONSTANTS
  Letters,      \* the letters of names
  Bytes,        \* the bytes of file contents
  Names,        \* entry names: sequences of Letters
  Trailer,      \* "TRAILER!!!"
  Ids,          \* the entries of an input archive
  HostPaths,    \* host files given to --replace and --add
  HostKind,     \* [HostPaths -> {"reg", "lnk", "dir", "chr", "blk", "fifo", "missing"}]
  HostData,     \* [HostPaths -> Seq(Bytes)]: file contents or link target
  Default,      \* uid 0, gid 0, nlink 1, devmajor/minor 0 of build_entry_from_path
  FieldDigits,  \* hexadecimal digits of a header field
  ArchiveChoice,\* input archives: sequences of entries ending in the trailer
  TrailingChoice, \* bytes after the trailer entry
  CutChoice,    \* how many bytes an input file lacks at its end
  RenameChoice, \* [Names -> Names] partial functions (parse_mapping of --rename)
  ReplaceChoice,\* partial functions Names -> HostPaths
  RemoveChoice, \* sets of names (--remove)
  AddChoice     \* sequences of <<name, path>> as given on the command line

ALIGNMENT == 4
HeaderLen == 6 + 13 * FieldDigits

\* The header keeps the code's 110 bytes modulo the alignment.
ASSUME HeaderLen % ALIGNMENT = 110 % ALIGNMENT

Entries == [name : Names \cup {Trailer}, ino : Nat, mode : Ids \cup HostPaths,
            meta : Ids \cup {Default}, data : Seq(Bytes)]

-----------------------------------------------------------------------------
(* The stream format: write_cpio and read_cpio.                            *)

\* _align: the padding that takes length to the cpio boundary.
AlignRemainder(length) == length % ALIGNMENT
_align(length) == (ALIGNMENT - (length % ALIGNMENT)) % ALIGNMENT

Zeros(n) == [k \in 1..n |-> 0]

\* The hexadecimal digits of v, most significant first.
RECURSIVE Digits(_)
Digits(v) == IF v < 16 THEN <<v>> ELSE Digits(v \div 16) \o <<v % 16>>

\* Variant: f"{value:x}", without the zero padding.
HexUnpadded(v) == Digits(v)

\* f"{value:08x}": padded to the field width, longer when v does not fit.
Hex(v) == Zeros(FieldDigits - Len(Digits(v))) \o Digits(v)

HexValue(ds) == FoldLeft(LAMBDA acc, d : acc * 16 + d, 0, ds)

\* A carried field: its origin over the field's width.
Carried(o) == [k \in 1..FieldDigits |-> o]

CPIO_MAGIC == <<0, 7, 0, 7, 0, 1>>

\* A field as the newc format defines it: exactly FieldDigits digits.
NewcField(v) == [k \in 1..FieldDigits |-> (v \div 16 ^ (FieldDigits - k)) % 16]

\* The padding the newc format defines: the fewest NULs to a multiple of 4.
NewcPad(n) == CHOOSE p \in 0..ALIGNMENT - 1 : (n + p) % ALIGNMENT = 0

\* The archive bytes of entries es and the trailing bytes t.  With
\* newc = FALSE this is write_cpio: fields by f"{value:08x}" (Hex) and
\* padding by _align; with newc = TRUE it is the format's own layout.
Layout(es, t, newc) ==
  LET Num(v) == IF newc THEN NewcField(v) ELSE Hex(v)
      Pad(n) == IF newc THEN NewcPad(n) ELSE _align(n)
      Block(e) ==
        LET nameBytes == e.name \o <<0>>
        IN  CPIO_MAGIC \o Num(e.ino) \o Carried(e.mode) \o Carried(e.meta)
            \o Carried(e.meta) \o Carried(e.meta) \o Carried(e.mode)
            \o Num(Len(e.data)) \o Carried(e.meta) \o Carried(e.meta)
            \o Carried(e.mode) \o Carried(e.mode) \o Num(Len(nameBytes))
            \o Num(0) \o nameBytes \o Zeros(Pad(HeaderLen + Len(nameBytes)))
            \o e.data \o Zeros(Pad(Len(e.data)))
  IN  FlattenSeq([k \in DOMAIN es |-> Block(es[k])]) \o t

\* write_cpio
Write(es, t) == Layout(es, t, FALSE)

\* fp.read(n) at offset pos: at most n bytes, none past the end.
ReadAt(s, pos, n) == SubSeq(s, pos + 1, IF pos + n < Len(s) THEN pos + n ELSE Len(s))

\* read_cpio from offset pos, with the entries acc read so far:
\* [err |-> the error raised or "none", entries, trailing].
RECURSIVE ReadFrom(_, _, _)
ReadFrom(s, pos, acc) ==
  LET header == ReadAt(s, pos, HeaderLen)
      Field(k) == SubSeq(header, 7 + (k - 1) * FieldDigits, 6 + k * FieldDigits)
      Fail(err) == [err |-> err, entries |-> acc, trailing |-> <<>>]
  IN
  IF header = <<>>
    THEN IF acc # <<>> THEN Fail("no_trailer") ELSE Fail("empty")
  ELSE IF Len(header) # HeaderLen THEN Fail("truncated_header")
  ELSE IF SubSeq(header, 1, 6) # CPIO_MAGIC THEN Fail("format")
  ELSE IF \E k \in {1, 7, 12, 13} : \E d \in 1..FieldDigits :
            Field(k)[d] \notin 0..15
    THEN Fail("format")
  ELSE
    LET namesize == HexValue(Field(12))
        filesize == HexValue(Field(7))
        nameBytes == ReadAt(s, pos + HeaderLen, namesize)
        dataPos == pos + HeaderLen + namesize + _align(HeaderLen + namesize)
        data == ReadAt(s, dataPos, filesize)
        next == dataPos + filesize + _align(filesize)
        e == [name |-> Front(nameBytes), ino |-> HexValue(Field(1)),
              mode |-> Field(2)[1], meta |-> Field(3)[1], data |-> data]
    IN
    IF Len(nameBytes) # namesize \/ Len(data) # filesize THEN Fail("eof")
    ELSE IF e.name = Trailer
      THEN [err |-> "none", entries |-> Append(acc, e),
            trailing |-> ReadAt(s, next, Len(s))]
    ELSE ReadFrom(s, next, Append(acc, e))

Read(s) == ReadFrom(s, 0, <<>>)

\* parse_mapping: a dict keyed by the first occurrence of each key, holding
\* the value of the last.
ParseMapping(items) ==
  FoldLeft(LAMBDA acc, kv :
             [keys |-> IF kv[1] \in DOMAIN acc.val THEN acc.keys
                       ELSE Append(acc.keys, kv[1]),
              val |-> (kv[1] :> kv[2]) @@ acc.val],
           [keys |-> <<>>, val |-> [x \in {} |-> x]], items)

\* The file types build_entry_from_path accepts; any other raises.
Supported == {"reg", "lnk", "dir", "chr", "blk"}

\* build_entry_from_path(name, path, ino): contents for a regular file, the
\* link target for a symlink, nothing for a directory or a device.
BuildEntry(n, p, ino) ==
  [name |-> n, ino |-> ino, mode |-> p, meta |-> Default,
   data |-> IF HostKind[p] \in {"reg", "lnk"} THEN HostData[p] ELSE <<>>]

-----------------------------------------------------------------------------
(* main and process_archive.                                               *)

VARIABLES
  input,     \* the bytes of the input file
  rename, replace, remove, adds,  \* the parsed command-line mappings
  phase,     \* "read", "edit", "add", "done" or "error"
  archive,   \* the entries read_cpio returned
  trailing,  \* archive.trailing_padding
  i,         \* the entry of archive.without_trailer() the loop is at
  updated,   \* updated_entries
  nextIno,   \* next_ino
  j,         \* the add_map item the loop is at
  output     \* the bytes written

vars == <<input, rename, replace, remove, adds, phase, archive, trailing, i,
          updated, nextIno, j, output>>

\* A file lacking its last n bytes.
Cut(s, n) == SubSeq(s, 1, Len(s) - n)

Init ==
  \* an archive as another tool wrote it, whole or lacking its last bytes
  /\ input \in {Cut(Layout(a, t, TRUE), cut) :
                  a \in ArchiveChoice, t \in TrailingChoice, cut \in CutChoice}
  /\ rename \in RenameChoice
  /\ replace \in ReplaceChoice
  /\ remove \in RemoveChoice
  /\ adds \in {ParseMapping(items) : items \in AddChoice}
  /\ phase = "read"
  /\ archive = <<>>
  /\ trailing = <<>>
  /\ i = 1
  /\ updated = <<>>
  /\ nextIno = 0
  /\ j = 1
  /\ output = <<>>

ReadArchive ==
  /\ phase = "read"
  /\ LET r == Read(input)
     IN /\ phase' = IF r.err = "none" THEN "edit" ELSE "error"
        /\ archive' = r.entries
        /\ trailing' = r.trailing
  /\ UNCHANGED <<input, rename, replace, remove, adds, i, updated, nextIno, j,
                 output>>

\* An entry whose name is in remove_lookup is skipped.
RemoveEntry ==
  /\ phase = "edit"
  /\ i < Len(archive)
  /\ archive[i].name \in remove
  /\ i' = i + 1
  /\ UNCHANGED <<input, rename, replace, remove, adds, phase, archive, trailing,
                 updated, nextIno, j, output>>

\* The clone of entry e, renamed when its name is in rename_map.
Renamed(e) == IF e.name \in DOMAIN rename THEN [e EXCEPT !.name = rename[e.name]]
              ELSE e

\* Variant: the replacement named after the host path instead of the
\* entry's name.
ReplaceEntrySwapped(e, path) ==
  [BuildEntry(e.name, path, e.ino) EXCEPT !.meta = e.meta, !.name = path]

\* build_entry_from_path(target_name, path, ino) with uid, gid, nlink and
\* the device numbers taken over from the entry it replaces.
ReplaceEntry(e, path) == [BuildEntry(e.name, path, e.ino) EXCEPT !.meta = e.meta]

\* The clone is renamed, then replaced when its new name is in replace_map
\* by a file of a type build_entry_from_path accepts, then appended.
KeepEntry ==
  /\ phase = "edit"
  /\ i < Len(archive)
  /\ archive[i].name \notin remove
  /\ LET renamed == Renamed(archive[i])
     IN /\ renamed.name \in DOMAIN replace =>
              HostKind[replace[renamed.name]] \in Supported
        /\ updated' = Append(updated,
                        IF renamed.name \in DOMAIN replace
                          THEN ReplaceEntry(renamed, replace[renamed.name])
                          ELSE renamed)
  /\ i' = i + 1
  /\ UNCHANGED <<input, rename, replace, remove, adds, phase, archive, trailing,
                 nextIno, j, output>>

\* build_entry_from_path raises for the replacement (a FIFO, a socket, or
\* a path lstat cannot find), and main ends before writing anything.
ReplaceUnsupported ==
  /\ phase = "edit"
  /\ i < Len(archive)
  /\ archive[i].name \notin remove
  /\ LET renamed == Renamed(archive[i])
     IN /\ renamed.name \in DOMAIN replace
        /\ HostKind[replace[renamed.name]] \notin Supported
  /\ phase' = "error"
  /\ UNCHANGED <<input, rename, replace, remove, adds, archive, trailing, i,
                 updated, nextIno, j, output>>

\* Variant: max_ino, the largest inode in use.
NextInodeMax(es) == IF es = <<>> THEN 0 ELSE Max({es[k].ino : k \in DOMAIN es})

\* archive.next_inode(): one past the largest inode, 1 for no entries.
NextInode(es) == IF es = <<>> THEN 1 ELSE Max({es[k].ino : k \in DOMAIN es}) + 1

EndEdits ==
  /\ phase = "edit"
  /\ i = Len(archive)
  /\ nextIno' = NextInode(SubSeq(archive, 1, Len(archive) - 1))
  /\ phase' = "add"
  /\ UNCHANGED <<input, rename, replace, remove, adds, archive, trailing, i,
                 updated, j, output>>

\* One add_map item, in insertion order, with the next inode number.
AddEntry ==
  /\ phase = "add"
  /\ j <= Len(adds.keys)
  /\ HostKind[adds.val[adds.keys[j]]] \in Supported
  /\ updated' = Append(updated, BuildEntry(adds.keys[j], adds.val[adds.keys[j]],
                                           nextIno))
  /\ nextIno' = nextIno + 1
  /\ j' = j + 1
  /\ UNCHANGED <<input, rename, replace, remove, adds, phase, archive, trailing,
                 i, output>>

\* build_entry_from_path raises for an added path of another type.
AddUnsupported ==
  /\ phase = "add"
  /\ j <= Len(adds.keys)
  /\ HostKind[adds.val[adds.keys[j]]] \notin Supported
  /\ phase' = "error"
  /\ UNCHANGED <<input, rename, replace, remove, adds, archive, trailing, i,
                 updated, nextIno, j, output>>

\* The trailer is cloned to the end and write_cpio writes the archive with
\* the input's trailing bytes.
WriteArchive ==
  /\ phase = "add"
  /\ j = Len(adds.keys) + 1
  /\ updated' = Append(updated, archive[Len(archive)])
  /\ output' = Write(updated', trailing)
  /\ phase' = "done"
  /\ UNCHANGED <<input, rename, replace, remove, adds, archive, trailing, i,
                 nextIno, j>>

Next ==
  \/ ReadArchive \/ RemoveEntry \/ KeepEntry \/ ReplaceUnsupported
  \/ EndEdits \/ AddEntry \/ AddUnsupported \/ WriteArchive

\* One process without waiting: it runs until it writes or raises.
Spec == Init /\ [][Next]_vars /\ WF_vars(Next)

-----------------------------------------------------------------------------
(* Properties.                                                             *)

TypeOK ==
  /\ phase \in {"read", "edit", "add", "done", "error"}
  /\ archive \in Seq(Entries)
  /\ updated \in Seq(Entries)
  /\ nextIno \in Nat
  /\ i \in 1..Len(archive) + 1
  /\ j \in 1..Len(adds.keys) + 1

\* Added entries get inode numbers of their own (process_archive with
\* next_inode): no entry of the output that add_map created shares its
\* inode with another output entry, kept, replaced or added, so none is
\* taken for a hard link of another file.
FreshAddedInodes ==
  \A x, y \in 1..Len(updated) :
    x # y /\ updated[x].meta = Default => updated[x].ino # updated[y].ino

\* The written archive reads back (write_cpio then read_cpio): parsing the
\* output file gives back, without an error, exactly the entries
\* process_archive produced, ending at the trailer, and the input's
\* trailing bytes.
RoundTrip ==
  phase = "done" =>
    Read(output) = [err |-> "none", entries |-> updated, trailing |-> trailing]

\* The bytes of archive a and trailing bytes tt that read_cpio never has
\* to read: it skips padding with fp.seek, which succeeds past the end of
\* the file, and _read_exact of an empty trailer's data reads nothing, so
\* these are the trailing bytes, the padding after the trailer's data and,
\* when that data is empty, the padding after its name.
Slack(a, tt) ==
  LET last == a[Len(a)]
  IN  Len(tt) + NewcPad(Len(last.data))
      + IF last.data = <<>> THEN NewcPad(HeaderLen + Len(last.name) + 1) ELSE 0

\* read_cpio over an archive another tool wrote as the newc format defines
\* it (its _align padding, the header and name sizes, _read_exact and the
\* seeks): when the file lacks its last bytes, it returns every entry
\* intact exactly when only bytes it never has to read are missing, and
\* otherwise raises before returning them; a whole file is always read.
ReadKeepsEntries ==
  phase # "read" =>
    \A a \in ArchiveChoice, tt \in TrailingChoice, cut \in CutChoice :
      input = Cut(Layout(a, tt, TRUE), cut) =>
        (archive = a <=> cut <= Slack(a, tt))

=============================================================================
