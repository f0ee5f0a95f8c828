---------------------------- MODULE MCFileStore -----------------------------
(***************************************************************************)
(* Instances of FileStore for TLC.                                         *)
(***************************************************************************)
EXTENDS FileStore, TLC

CONSTANTS p1, p2, v1, v2, i1, i2, i3, i4

FileSymmetry == Permutations(Procs) \cup Permutations(Values) \cup Permutations(Inodes)

=============================================================================
