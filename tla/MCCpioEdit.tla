------------------------------ MODULE MCCpioEdit ------------------------------
(* Archives of two entries and the trailer, with distinct inodes or one    *)
(* inode shared as a hard link.  The names a, b, c and the trailer's ten   *)
(* letters give name sizes of 2, 3, 4 and 11 bytes, so that the padding    *)
(* after a 58-byte header is 0, 3, 2 and 3; contents of 1, 4, 2 and 0      *)
(* bytes give data padding of 3, 0, 2 and 0.  Edits rename onto a free or  *)
(* a taken name (changing the padding), replace by the old or the new name *)
(* with a regular file, a directory or a FIFO, remove, and add a new or an *)
(* existing name, with a key repeated on the command line.  Input files    *)
(* are whole, or lack the last byte, part of the trailer's name, or the    *)
(* trailer.                                                                *)
EXTENDS CpioEdit

CONSTANTS x, y, t, d, h, e1, e2, et, p1, p2, p3, dflt

a == <<x>>
b == <<x, y>>
c == <<y, y, x>>
tr == [k \in 1..10 |-> t]

E(id, n, ino, data) == [name |-> n, ino |-> ino, mode |-> id, meta |-> id,
                        data |-> data]

MCLetters == {x, y, t}
MCBytes == {d, h}
MCNames == {a, b, c}
MCIds == {e1, e2, et}
MCHostPaths == {p1, p2, p3}
MCHostKind == (p1 :> "reg") @@ (p2 :> "dir") @@ (p3 :> "fifo")
MCHostData == (p1 :> <<h, h>>) @@ (p2 :> <<>>) @@ (p3 :> <<>>)

MCArchiveChoice ==
  {<<E(e1, a, 1, <<d>>), E(e2, b, 2, <<d, d, d, d>>), E(et, tr, 0, <<>>)>>,
   <<E(e1, a, 1, <<d>>), E(e2, b, 1, <<d, d, d, d>>), E(et, tr, 0, <<>>)>>}

\* An archive whose largest inode fills the header field.
MCArchiveChoiceFull ==
  {<<E(e1, a, 16 ^ FieldDigits - 1, <<d>>), E(e2, b, 2, <<d, d, d, d>>),
     E(et, tr, 0, <<>>)>>}

MCTrailingChoice == {<<>>, <<0, 0, 0, 0>>}
MCCutChoice == {0, 1, 8, 72}

NoMap == [n \in {} |-> n]
MCRenameChoice == {NoMap, a :> c, a :> b}
MCReplaceChoice == {NoMap, b :> p1, c :> p2, b :> p3}
MCRemoveChoice == {{}, {b}}
MCAddChoice == {<<>>, << <<c, p1>> >>, << <<c, p1>>, <<b, p2>>, <<c, p2>> >>,
                << <<c, p3>> >>}
=============================================================================
