# TLA+ models of the fundroid capsule and boot-image scripts

This directory holds TLA+ models of the Python tooling under `src/scripts/`, with the TLC configurations that check them:

- `_capsule_sync.py` copies a minimal set of Android service binaries, their shared libraries, their loader and configuration out of an extracted system image, and writes a manifest of what it copied.
- `cpio_edit.py` edits a newc cpio archive.
- `extract_ramdisk.py` cuts the ramdisk out of a boot image.

## The system

### Inventory

**`_capsule_sync.py`** runs as one single-threaded process: `main` calls `sync_artifacts`, then `write_manifest`. It has these parts:

| Part | Code | State | Operations |
|---|---|---|---|
| File-system tests | `resolve_read_path`, `os.path.exists/islink` | the source tree (read only) | existence and link tests; absolute links rewritten under the source root for reading |
| Library index | `build_library_index` (153-182) | `search_roots`, `index` | collect the search roots (`<partition>/lib64`, `lib`, then sorted `apex/*/lib64`, `lib`); `os.walk` each root; `setdefault` each `.so` |
| ELF parsing | `parse_elf_metadata` (41-150) | none (pure) | DT_NEEDED names, PT_INTERP, or a `ValueError`/`RuntimeError` |
| Closure engine | `sync_artifacts` (271-372) | `queue`, `seen`, `artifact_types`, `missing_libs`, `provided_externals`, `missing_required`, `optional_missing` | root selection per `BINARY_SPECS`; a breadth-first worklist; the aggregated missing-library error; copies of artifacts, `CONFIG_FILES` and `CONFIG_DIRS` |
| Manifest | `write_manifest` (375-429) | the destination tree | walk the destination and type each entry: symlink, classification, or config |

**`cpio_edit.py`** is also one sequential process:

- `main` parses the `--rename`, `--replace`, `--remove` and `--add` mappings (`parse_mapping`).
- `read_cpio` parses the input archive into entries, up to the `TRAILER!!!` entry.
- `process_archive` walks the entries. It skips removed names, renames, then replaces by the new name, and appends. It then adds the new entries with inode numbers counted up from `next_inode`, and appends the trailer.
- `write_cpio` writes every header field as eight hexadecimal digits, and pads the name (after the 110-byte header) and the data to 4 bytes with `_align`.

**`extract_ramdisk.py`** does these steps in order:

1. checks the `ANDROID!` magic;
2. unpacks nine 32-bit header words;
3. computes `ramdisk_offset = page_size * (1 + ceil(kernel_size / page_size))`;
4. reads `ramdisk_size` bytes there, exiting 1 on a short read;
5. writes them out.

### How the parts interact

The library index is built once, before the worklist, and the worklist resolves each DT_NEEDED name through it. Every file the worklist reads goes through `resolve_read_path`. The interpreter check does not: it uses `os.path.exists`. The copies run only after every check has passed. `write_manifest` reads the destination tree rather than the classification, so whatever is in the destination, including anything left from earlier runs, ends up in the manifest.

### The hard behaviours

- The worklist's result depends on the order of pops:
  - a path dropped as provided externally can be re-classified later;
  - library cycles must not loop forever.
- The run has three error points (missing required root, format or interpreter error, missing libraries). The missing libraries must be reported all at once, and every error must come before any copy.
- Symlinks resolve differently depending on which test reads them:
  - `exists` follows absolute links to the host;
  - `islink` sees dangling links;
  - `resolve_read_path` rewrites `/apex/...` under the source root.
- `os.walk` lists subdirectories in file-system order.
- The destination is reused between runs, and an interrupted run leaves a partial copy behind.
- cpio: fixed-width header fields against unbounded inode numbers, padding to 4 bytes after a 110-byte header, seeks that succeed past the end of a cut-short file, and a trailer entry identified only by its name.
- The boot header layout depends on `header_version`, which the extractor reads but never uses.

## Modules

| Module | Models | Composes |
|---|---|---|
| `CapsuleTree` | the source tree as variables chosen in `TreeInit`: a kind per path, needs, interp, malformed set, directories present. It also holds the file-system tests and the reference closure (`Reach`, RECURSIVE) | none |
| `CapsuleSync` | `sync_artifacts` and `write_manifest`, one action per branch of the code | extends `CapsuleTree` and instantiates `CapsuleClosure` |
| `CapsuleClosure` | the abstract promise: fail on a fault with nothing copied, or copy the readable closure and the configuration found | extends `CapsuleTree` |
| `ElfMetadata` | `parse_elf_metadata` and `virt_to_file`, step by step, with a declarative reference reading of the same tables | none |
| `LibraryIndex` | `build_library_index` | none |
| `CpioEdit` | `cpio_edit.py`: `main`, `process_archive`, `parse_mapping`, `build_entry_from_path`, and `read_cpio`/`write_cpio` over bytes with `_align` padding | none |
| `ExtractRamdisk` | `extract_ramdisk.py` | none |
| `MCCapsuleSync`, `MCElfMetadata`, `MCLibraryIndex`, `MCCpioEdit`, `MCExtractRamdisk` | the model constants for TLC | none |

### Path kinds

Each path of the tree has a kind that decides every file-system test:

| Kind | `exists` | `lexists` | `islink` | readable via `resolve_read_path` |
|---|---|---|---|---|
| `file` | yes | yes | no | yes |
| `rel_link` | yes | yes | yes | yes |
| `abs_link` | no | yes | yes | yes |
| `dangling` | no | yes | yes | no |
| `absent` | no | no | no | no |

### `CapsuleSync`

The variables are the locals of `sync_artifacts`, plus:

- `phase`, the position in the function;
- `dest0` and `dest`, the destination before and during the run;
- `manifest`;
- the history variable `written`.

The actions correspond to the code as follows:

| Action | Code |
|---|---|
| `SelectRoot`, `RequiredMissing`, `OptionalMissing` | one iteration of the `BINARY_SPECS` loop (289-305) |
| `StartTraversal`, `FailMissingRequired` | the `missing_required` check (307-311) |
| `PopSeen` | the `seen` branch (313-316) |
| `PopProvided` | the unreadable branch (317-323) |
| `PopMalformed` | `parse_elf_metadata` raising |
| `PopMissingInterp` | the interpreter raise (330-333) |
| `PopExpand` | the rest of the loop body. It does the interpreter classification, then a `FoldLeft` of `NeedStep` over the DT_NEEDED names (337-349), then `seen.add` |
| `LedgerClean`, `FailMissingLibs` | lines 352-358 |
| `CopyArtifacts`, `CopyConfigFiles`, `CopyConfigDirs` | the copy loops (360-370). A single copy is `CopyEntry` (`copy_entry`, 213-223): the destination becomes a link when the source is a link, or when a link is already there, because `shutil.copy2` writes through it. A directory copy is `TreeCopy` (`copytree(symlinks=True, dirs_exist_ok=True)`, 253): a source link whose destination entry already exists is not copied (`LinkClashes`), and the run fails with `CopyTreeError` |
| `WriteManifest` | `write_manifest` |
| `CrashAndRerun` | not code: the process is killed part-way through one of the copy loops (after any subset of its copies) and `sync_artifacts` starts again over the same tree and destination. At most `MaxCrashes` times |

Model-level choices:

- ELF metadata is abstracted to what the parser returns; `ElfMetadata` models the parser itself.
- Hashes and TOML output are left out.
- The library index is the constant `LibIndex`.

### `ElfMetadata`

A file is a record with these fields:

- the identification, as `magic`, `cls` and `enc`;
- `phdrs` and `phnum`, the program header table and the count `e_phnum` claims. The count may be one more than the table, which models a table running past the end of the file;
- `data`, the file's bytes.

Bytes are model values: `Nul` and the `Letters` of names. A dynamic entry is a record `[tag, val]` placed in one cell of `data`, so that a NUL cell reads as DT_NULL and a letter cell as a tag the parser ignores. Struct layout, endianness and the 32/64-bit entry sizes are abstracted to one cell per header or entry.

The variables are the locals of `parse_elf_metadata`. The actions follow its code in order:

- `BadIdent`, `ReadIdent`;
- the program header loop: `ScanPhdr`, then `PhdrOutOfFile` (`struct.error`) and `EndPhdrs`;
- the dynamic loop: `ScanDyn`, then `DynTruncated` (line 111), `DynNull` (line 117) and `EndDyn`;
- the STRTAB step: `NoStrtab`, `StrtabUnresolved` (the `RuntimeError`) and `StrtabResolved`;
- the name loop: `ReadName` and `EndNames`.

`VirtToFile` is `virt_to_file`: the first PT_LOAD segment whose half-open range holds the address. `NameAt` reads a name with `find`, and falls back to the byte scan when there is no NUL, or when DT_STRSZ is non-zero and the NUL lies at or past its bound.

The reference section reads the same file declaratively. It takes the last PT_INTERP and PT_DYNAMIC of the table, the dynamic entries up to the first DT_NULL or the end of the data, the last DT_STRTAB, and every DT_NEEDED name. `SpecFormatError` is the faults of spec section 4.1. Line 136 also fails when no DT_NEEDED entry exists, which is wider than spec 4.1 allows, so `ParseMatchesReference` states the code's condition: `SpecFormatError` or an unresolvable STRTAB.

### `LibraryIndex`

- `CollectRoots` builds `search_roots`.
- `WalkTop` and `WalkSub` are the steps of `os.walk`. `WalkSub` chooses any subdirectory not yet visited, because the listing order is not fixed.
- `NextRoot` and `Finish` advance through the search roots.
- `Record` is the `setdefault` loop.

A search root is modelled with one level of subdirectories.

### `CpioEdit`

An entry is a record with five fields:

- `name`, a sequence of letters;
- `ino`;
- `mode`: where the mode, mtime and rdev come from, an input entry or a `--replace`/`--add` host path;
- `meta`: where uid, gid, nlink and devmajor/devminor come from, an input entry or the defaults of `build_entry_from_path` (`Default`);
- `data`, the contents, a sequence of bytes.

The archive is a sequence of bytes: integers (hexadecimal digits, and 0 for NUL and padding) and model values (letters, content bytes). `Layout` writes each entry as `write_cpio` does:

- the magic `070701`;
- thirteen fields of `FieldDigits` bytes in the code's order. The inode, file size, name size and check fields are hexadecimal digits (`Hex`, i.e. `f"{value:08x}"`); the carried fields repeat their origin over the field's width;
- the name and its NUL, padded by `_align(110 + namesize)`;
- the data, padded by `_align(filesize)`;
- after the last entry, the input's trailing bytes.

`ReadFrom` is `read_cpio`:

- it reads a header and stops on an empty read, a short header, a bad magic or a non-hex number field;
- it reads the name and data with `_read_exact`'s EOF check;
- it skips padding the way `fp.seek` does, silently past the end;
- it stops at the first `TRAILER!!!` and keeps what follows as the trailing padding.

The input file is written as another tool would write it, with the format's own definitions: `NewcField` is exactly `FieldDigits` digits, and `NewcPad` is the fewest NULs up to a multiple of 4. It is then cut short (`Cut`) by 0, 1, 8 or 72 bytes. `Slack` is the number of bytes at the end that `read_cpio` never has to read. Those cuts land in the trailing bytes, the trailer's padding, its name, and before it.

`BuildEntry` is `build_entry_from_path`. Regular files and symlinks give their contents or target, directories and devices give none, and the other types (`fifo`, `missing`) raise.

The actions follow `main`:

- `ReadArchive`;
- one `RemoveEntry`, `KeepEntry` or `ReplaceUnsupported` per input entry. `KeepEntry` covers rename, then replace by the new name; `ReplaceUnsupported` is the raise;
- `EndEdits` (`next_inode`);
- one `AddEntry` per `add_map` key, in dict order, or `AddUnsupported`;
- `WriteArchive`, which appends the trailer and calls `write_cpio`.

`FieldDigits` is the field width: 8 in the code, 4 in the models. The largest field value (65535, standing for 0xffffffff) then fits in TLC's integers, and the header, 6 + 13 × 4 = 58 bytes, keeps the code's 110 bytes modulo the alignment (an `ASSUME`). Padding depends only on lengths modulo 4, so every padding the code meets occurs.

### `ExtractRamdisk`

The image is an input: its header version (0-4), page size, kernel size, ramdisk size, whether it is cut short, and whether its magic is right. `Image` lays the header words out as each version of the boot image format does:

- versions 0-2: kernel size/address, ramdisk size/address, second size/address, tags address, page size, header version;
- versions 3-4: kernel size, ramdisk size, OS version, header size, four reserved words, header version, with pages of 4096.

It places the ramdisk one page after the header, rounded up past the kernel. The actions are the script's steps, and `ZeroPage` is the uncaught `ZeroDivisionError`.

## Runs

| Run | cfg | Expect | What it shows |
|---|---|---|---|
| sync | `MCCapsuleSync.cfg` | pass | See below; includes one interruption and a rerun. |
| sync_refines_closure | `MCCapsuleSync_refine.cfg` | pass | The code implements `CapsuleClosure`: every run ends; it fails exactly on a fault and copies nothing when it does; otherwise it copies the required set and no more. |
| provided_copied | `MCCapsuleSync_ProvidedNeverCopied.cfg` | violation | A provided-external library is re-added by line 346 and copied (code bug). |
| interp_abs_link | `MCCapsuleSync_InterpreterErrorMeansAbsent.cfg` | violation | An absolute loader link resolvable in the tree still raises "missing interpreter" (line 330). |
| libindex | `MCLibraryIndex.cfg` | pass | `IndexPrecedence`: the first search root wins, and its top wins over its subdirectories. The check is relative to the model's root list: the tree has no `lib` directory, so the lib64-before-lib order itself is not exercised. |
| extract | `MCExtractRamdisk.cfg` | pass | `WritesOnlyRamdisk` for versions 0-4: the run writes exactly the ramdisk region of an intact image, or exits 1 on a bad magic or a cut-short image, or raises; in the last two cases it writes nothing. |
| extract_v3 | `MCExtractRamdisk_v3.cfg` | violation | Versions 3/4: the reserved word read as `page_size` is 0, so the script dies with `ZeroDivisionError`. `ExtractsRamdisk` (an intact image is always extracted) fails. |
| cpio | `MCCpioEdit.cfg` | pass | `FreshAddedInodes`: added entries never share an inode, including with hard-linked input entries. `RoundTrip`: the written archive reads back through `read_cpio` as the edited entries and the trailing bytes. `ReadKeepsEntries`: on an archive another tool wrote as the newc format defines it, `read_cpio` returns every entry intact exactly when the bytes a cut-short file lacks are ones it never reads. Those bytes are the trailing bytes and the trailer's padding, which `fp.seek` skips silently past the end. On any other cut it raises. A whole file is always read. Its mutant (`_align` returning the remainder) fails on every real archive, because the 11-byte `TRAILER!!!` name always needs padding. |
| rerun_config_link | `MCCapsuleSync_RerunConfigLink.cfg` | violation | `FailsOnlyOnTreeFault`: a rerun over the run's own output fails in `copytree` when the configuration directory holds a symlink (line 253, code bug). |
| stale_link | `MCCapsuleSync_StaleLink.cfg` | violation | `RerunIdempotent`: a link left where a regular library is copied is written through by `shutil.copy2` (line 223), and the manifest lists a symlink (code bug). |
| elf | `MCElfMetadata.cfg` | pass | `ParseMatchesReference`: for every file of the model, the parse ends with the reference's DT_NEEDED names and interpreter, or with an error exactly on a format fault or an unresolvable STRTAB. |
| cpio_inode_width | `MCCpioEdit_InodeWidth.cfg` | violation | `next_inode` past the field's range gives a longer field, and the archive no longer reads back. |

The sync run checks these invariants:

- `LedgerAggregatesAll`: once the queue drains, the ledger holds every unknown-library pair of the whole closure.
- `CopiesCoverClosure`: a successful run copies the readable closure, and nothing outside closure and configuration.
- `NoCopyBeforeCleanClosure`: nothing is copied unless the tree passes every check.
- `RerunIdempotent`: a completed run leaves every destination entry as this run copies it, or as it was before any run, whatever an interrupted run had copied.

Each property of a passing run has a mutant in `PROJECT.json`: a plausible bug in the mapped code that TLC shows the property catches. For example, `NeedStepOverwrite` replaces the ledger instead of appending to it, and `LedgerCleanUnchecked` starts copying without looking at the ledger.

### Bounds

`MCCapsuleSync` has:

- three binary specs, as in `BINARY_SPECS` (two required; one optional with two candidates);
- two indexed libraries, plus one name the index does not know;
- a loader;
- one optional configuration file, and one configuration directory holding one file.

The per-path kind and needs choices cover these cases:

- a missing required root, a dangling root, an absolute-link root;
- a dangling library, and a cycle (`l1` needs `n2`, `l2` needs `n1`);
- the loader absent, an absolute link, or a file;
- a malformed library;
- an absent or unknown library;
- a present or absent configuration directory.

This is the smallest tree in which every branch of the loop body runs and in which two pops can meet the same library in both orders: about 400k states. The refinement run fixes two paths' kinds to keep the `ENABLED` checks of the abstract fairness under five minutes.

`MCLibraryIndex` has:

- two partitions and one APEX entry;
- `lib64`/`lib`;
- two subdirectories;
- two `.so` names and one other name.

These are placed at a top, in one subdirectory, in both subdirectories, and in two roots.

The sync run uses these trees with `MaxCrashes = 1`. Its destinations are either empty, or hold a stale plain file where `hwservicemanager` may now be a link. That gives about 2.7M states in one minute. The other sync runs use `MaxCrashes = 0`. `rerun_config_link` starts from a destination holding this run's own output with the selinux entry a link; `stale_link` starts from a destination holding a link at `l2`.

`MCCpioEdit` has these inputs:

- archives of two entries and the trailer, with distinct inodes or one shared inode (a hard link). The names `a`, `b`, `c` and the ten-letter trailer have name sizes 2, 3, 4 and 11, so the name padding after the 58-byte header is 0, 3, 2 and 3. The contents of 1, 4, 2 and 0 bytes pad by 3, 0, 2 and 0;
- no trailing bytes, or four NULs;
- input files cut short by 0, 1, 8 or 72 bytes;
- renames onto a free name and onto a taken name, which change the padding;
- a replace by a kept name and by a renamed name, with a regular file, a directory or a FIFO;
- a remove;
- adds of a new name and an existing name, with a key repeated on the command line, and an add of a FIFO.

That is about 6,300 states. The violation run `cpio_inode_width` changes only the archive: its largest inode is 65535.

`MCElfMetadata` has:

- two letters and `Nul`;
- a string table `<<Nul, a, Nul, b>>` at offset 0, and three dynamic cells after it at offset 4. Each cell is one of: a DT_NEEDED at offset 0 (the empty name), 1 (`a`), 3 (`b`, with no NUL before the entries) or 9 (past the data); a DT_STRTAB of 10 or 20; a DT_STRSZ of 1; or NUL;
- PT_LOAD segment A, mapping vaddr 8..9 to the dynamic cells, and segment B, mapping vaddr 10..13 to the string table. DT_STRTAB 10 lies just past A's end and at B's start, so an inclusive upper bound would resolve it into A; 20 lies in no segment. The loads are both, B only, or none;
- a PT_DYNAMIC of 3 entries, or of 4, one more than the file holds; an optional PT_INTERP naming `a`; a PT_PHDR the parser ignores;
- `e_phnum` equal to the table's length or one more;
- one file for each of four bad identifications (magic, class, encoding) and one good file with class 1.

This is about 109k states. It reaches every exit of the parse, a STRTAB resolved or not, and a name ending inside, at or past the DT_STRSZ bound or at the end of the data.

`MCExtractRamdisk` has these inputs:

- kernel sizes 0, 1, 2048, 4096 and 4097, i.e. empty, exactly one or two pages, and one byte over;
- page sizes 2048 and 4096;
- ramdisk sizes 0 and 5;
- cut-short and intact images, with a good or a bad magic.

### Fairness

Every specification assumes weak fairness on `Next`. The code is one process with no blocking or waiting: it steps until it returns or raises. `CHECK_DEADLOCK FALSE` is set because the final states (`done`, `failed`, `error`, `exit1`, `crash`) are where the process exits.

## Not modelled yet, and the plan

1. **Composition, deliberately not done.** `CapsuleSync` takes the library index as the constant `LibIndex`, and `LibraryIndex` checks how the index is built on its own run. Composing the two would multiply the sync run's 2.7M states by the `os.walk` orders, and no property spans both. The one hazard that joins them is lib64 being searched before lib whatever the ELF class (line 156), and spec 4.2 calls that order a policy to preserve. `ElfMetadata` stays separate for the same reason: `CapsuleSync` uses its result per file (`PopMalformed`, the needs and interpreter of `CapsuleTree`).
2. **Duplicates.** Duplicate names from rename or add, and replace looked up after rename, are modelled but have no property. Nothing in the code or the spec says which behaviour is intended.
3. **Observed, not checked by a run.** Six behaviours are recorded as hazards in `PROJECT.json` rather than as runs:
   - `os.walk` listing order decides which subdirectory's copy of a library name wins (`WalkSub` allows any order);
   - `copy_config_file` skips a configuration file that is an absolute link (line 235), the same cause as `interp_abs_link`;
   - a rename or add onto `TRAILER!!!` ends the archive early when it is read (`ReadFrom` models the stop, but no rename or add choice targets the trailer's name);
   - a second archive concatenated after the first trailer is carried into the output verbatim, without the edits (line 159);
   - a selected root that is a dangling link is popped as provided externally (lines 293, 318), and the run succeeds without it;
   - `write_manifest` lists every entry of a reused destination, unknown ones as config (line 394), which spec section 5 asks for.
4. **Out of scope.** The CLI mains' argument parsing, the summary `main` prints, hashing and TOML formatting are I/O with no state and stay out. `main` of `_capsule_sync.py` is otherwise the phase order of `CapsuleSync`'s `Spec`: `sync_artifacts`, then `write_manifest`, with any exception ending the process before the manifest. The carried cpio header fields (mode, uid, gid, nlink, mtime, devices) are abstracted to where they come from.
