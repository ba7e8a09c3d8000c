--------------------------- MODULE MCExtractRamdisk ---------------------------
(* Kernels that are empty, fill a page exactly, or spill one byte into the *)
(* next; the common page sizes; empty and non-empty ramdisks.              *)
EXTENDS ExtractRamdisk

MCKernelSizes == {0, 1, 2048, 4096, 4097}
MCRamdiskSizes == {0, 5}
MCPageSizes == {2048, 4096}
MCVersions == 0..4
MCVersions34 == 3..4
=============================================================================
