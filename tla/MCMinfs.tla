------------------------------ MODULE MCMinfs -------------------------------
(***************************************************************************)
(* Minfs for TLC.  Three inodes and three entries: one create fills the    *)
(* bitmap, two fill the directory.                                         *)
(***************************************************************************)
EXTENDS Minfs, TLC

\* mkfs.minfs has created FirstName; the other names are alike.
NameSymmetry == Permutations(Names \ {FirstName})
=============================================================================
