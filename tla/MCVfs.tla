------------------------------- MODULE MCVfs --------------------------------
(***************************************************************************)
(* Vfs for TLC: one file that existed before and one name that may be      *)
(* created, renamed to or renamed from.                                    *)
(***************************************************************************)
EXTENDS Vfs, TLC

MCFirstDir == [n \in Names |-> IF n = "a" THEN "i1" ELSE NoFile]

\* Opens whose path openat knows and that are backed up at once.
PlainModes == {{"WR"}, {"WR", "CREAT"}, {"WR", "CREAT", "TRUNC"}}

\* Opens that leave the backup to the first pwrite or ftruncate.
DeferringModes == PlainModes \cup {{"WR", "APPEND"}, {"WR", "PROC"}}

\* The workers are alike.
WorkerSymmetry == Permutations(Workers)

WriteMode == {{"WR"}}
CreateMode == {{"WR", "CREAT"}}
=============================================================================
