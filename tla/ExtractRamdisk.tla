---------------------------- MODULE ExtractRamdisk ----------------------------
(***************************************************************************)
(* scripts/extract_ramdisk.py: read the boot image header, compute where   *)
(* the ramdisk starts from the kernel size and the page size, read the     *)
(* ramdisk and write it out.                                               *)
(*                                                                         *)
(* The image is an input chosen in Init: its header version, the sizes in *)
(* it, and whether it is cut short.  Its header is the sequence of the     *)
(* little-endian 32-bit words that follow the 8-byte magic, laid out as    *)
(* the boot image format of that version lays them out; the kernel and    *)
(* the ramdisk are regions of the file, each starting on a page boundary.  *)
(* Contents are abstracted to the region a read returns.                   *)
(***************************************************************************)
EXTENDS Integers, Sequences

CONSTANTS
  Versions,      \* header versions of the images considered
  PageSizes,     \* page sizes a version 0-2 header may carry
  KernelSizes,   \* kernel sizes
  RamdiskSizes,  \* ramdisk sizes
  HeaderSizeV3   \* header_size field of a version 3/4 header

\* Version 3 and later fix the page size and drop it from the header.
FixedPage == 4096

\* Smallest q with q * b >= a: the reference for rounding up to pages.
CeilDiv(a, b) == CHOOSE q \in 0..a : q * b >= a /\ (q = 0 \/ (q - 1) * b < a)

\* The image as the boot image format lays it out: header page(s), then
\* the kernel, then the ramdisk, each padded to a page.
Image(v, pg, k, r, cut, magicOk) ==
  LET page == IF v >= 3 THEN FixedPage ELSE pg
      rdStart == page * (1 + CeilDiv(k, page))
      words == IF v >= 3
                 \* kernel_size, ramdisk_size, os_version, header_size,
                 \* reserved[4], header_version
                 THEN <<k, r, 0, HeaderSizeV3, 0, 0, 0, 0, v>>
                 \* kernel_size/addr, ramdisk_size/addr, second_size/addr,
                 \* tags_addr, page_size, header_version
                 ELSE <<k, 0, r, 0, 0, 0, 0, page, v>>
  IN [magicOk |-> magicOk, words |-> words, rdStart |-> rdStart,
      rdSize |-> r, len |-> rdStart + r - (IF cut /\ r > 0 THEN 1 ELSE 0)]

Images ==
  {Image(v, pg, k, r, cut, m) :
     v \in Versions, pg \in PageSizes, k \in KernelSizes, r \in RamdiskSizes,
     cut \in BOOLEAN, m \in BOOLEAN}

VARIABLES
  img,    \* the boot image being read
  pc,     \* "magic", "header", "compute", "read", "write", "done",
          \* "exit1" (sys.exit(1)) or "crash" (an uncaught exception)
  hdr,    \* the header fields as unpacked
  offset, \* ramdisk_offset
  out     \* <<first byte, length>> of the file region written out

vars == <<img, pc, hdr, offset, out>>

Final == {"done", "exit1", "crash"}

Init ==
  /\ img \in Images
  /\ pc = "magic"
  /\ hdr = <<>>
  /\ offset = 0
  /\ out = <<>>

\* f.read(8) != b'ANDROID!': an error and sys.exit(1).
BadMagic ==
  /\ pc = "magic"
  /\ ~img.magicOk
  /\ pc' = "exit1"
  /\ UNCHANGED <<img, hdr, offset, out>>

\* The nine struct.unpack('<I') reads, in the order the code names them.
ReadHeader ==
  /\ pc = "magic"
  /\ img.magicOk
  /\ hdr' = [kernel_size |-> img.words[1], ramdisk_size |-> img.words[3],
             page_size |-> img.words[8], header_version |-> img.words[9]]
  /\ pc' = "compute"
  /\ UNCHANGED <<img, offset, out>>

\* Variant: (kernel_size + page_size) // page_size, one page too many when
\* the kernel fills its last page.
KernelPagesUp(k, pg) == (k + pg) \div pg

\* kernel_pages and ramdisk_offset, as the code computes them.
KernelPages(k, pg) == (k + pg - 1) \div pg

\* A page size of 0 raises ZeroDivisionError, which nothing catches.
ZeroPage ==
  /\ pc = "compute"
  /\ hdr.page_size = 0
  /\ pc' = "crash"
  /\ UNCHANGED <<img, hdr, offset, out>>

ComputeOffset ==
  /\ pc = "compute"
  /\ hdr.page_size # 0
  /\ offset' = hdr.page_size * (1 + KernelPages(hdr.kernel_size, hdr.page_size))
  /\ pc' = "read"
  /\ UNCHANGED <<img, hdr, out>>

\* f.seek(offset); f.read(ramdisk_size) returns what the file still holds.
Got == IF img.len > offset THEN IF img.len - offset < hdr.ramdisk_size
                                  THEN img.len - offset ELSE hdr.ramdisk_size
       ELSE 0

\* A short read is reported and exits 1.
ShortRead ==
  /\ pc = "read"
  /\ Got # hdr.ramdisk_size
  /\ pc' = "exit1"
  /\ UNCHANGED <<img, hdr, offset, out>>

ReadRamdisk ==
  /\ pc = "read"
  /\ Got = hdr.ramdisk_size
  /\ out' = <<offset, hdr.ramdisk_size>>
  /\ pc' = "write"
  /\ UNCHANGED <<img, hdr, offset>>

\* The ramdisk is written to the output path and the run ends.
WriteOutput ==
  /\ pc = "write"
  /\ pc' = "done"
  /\ UNCHANGED <<img, hdr, offset, out>>

Next ==
  \/ BadMagic \/ ReadHeader \/ ZeroPage \/ ComputeOffset
  \/ ShortRead \/ ReadRamdisk \/ WriteOutput

\* One process, no waiting: it runs until it exits.
Spec == Init /\ [][Next]_vars /\ WF_vars(Next)

-----------------------------------------------------------------------------
(* Properties.                                                             *)

\* Nothing wrong is written (extract_ramdisk): a run that stops has either
\* written exactly the ramdisk region the image format places after the
\* kernel, from an intact image with the boot magic, or exited 1 on a bad
\* magic or a short read, or raised; in the last two cases it wrote
\* nothing.  An intact image is never rejected as short.
WritesOnlyRamdisk ==
  LET intact == img.magicOk /\ img.len = img.rdStart + img.rdSize
  IN pc \in Final =>
       \/ pc = "done" /\ intact /\ out = <<img.rdStart, img.rdSize>>
       \/ pc = "exit1" /\ ~intact /\ out = <<>>
       \/ pc = "crash" /\ out = <<>>

\* Extraction is correct (extract_ramdisk): when the script stops, a run
\* over an image with the boot magic that is not cut short has written
\* exactly the ramdisk region the image format places after the kernel;
\* any other run has exited 1 with an error and written nothing.
ExtractsRamdisk ==
  pc \in Final =>
    IF img.magicOk /\ img.len = img.rdStart + img.rdSize
      THEN pc = "done" /\ out = <<img.rdStart, img.rdSize>>
      ELSE pc = "exit1" /\ out = <<>>

=============================================================================
