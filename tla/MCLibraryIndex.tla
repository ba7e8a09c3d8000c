---------------------------- MODULE MCLibraryIndex ----------------------------
(* Two partitions and one APEX entry, lib64 and lib, two subdirectories    *)
(* below a search root, two ".so" names and one name that is not a         *)
(* library.                                                                *)
EXTENDS LibraryIndex

CONSTANTS sys, ven, art, lib64, lib, hw, egl, top, libc, libgl, readme

MCPartitions == <<sys, ven>>
MCLibDirs == <<lib64, lib>>
MCApexEntries == <<art>>
MCSubdirs == {hw, egl}
MCNames == {libc, libgl, readme}
MCSoNames == {libc, libgl}

\* The library directories that exist: system/lib64 always, vendor/lib64
\* and the APEX entry's lib64 or not; no lib directories.
MCDirChoice ==
  {[c \in Candidates |-> c \in {<<sys, lib64>>} \cup X] :
     X \in SUBSET {<<ven, lib64>>, <<art, lib64>>}}

\* Where each name lies: at a top, in one subdirectory, or in both
\* subdirectories of one search root, in one or in two search roots.
MCPlaceChoice ==
  (libc :> {{<<<<sys, lib64>>, top>>},
            {<<<<sys, lib64>>, hw>>, <<<<sys, lib64>>, egl>>},
            {<<<<ven, lib64>>, top>>, <<<<sys, lib64>>, hw>>},
            {<<<<art, lib64>>, hw>>}})
  @@ (libgl :> {{}, {<<<<ven, lib64>>, egl>>, <<<<ven, lib64>>, hw>>},
                {<<<<ven, lib64>>, egl>>, <<<<sys, lib>>, top>>}})
  @@ (readme :> {{}, {<<<<sys, lib64>>, top>>}})
=============================================================================
