---------------------------- MODULE MCChainStore ----------------------------
(***************************************************************************)
(* Instances of ChainStore for TLC.                                        *)
(***************************************************************************)
EXTENDS ChainStore, TLC

CONSTANTS p1, p2, v1, v2

ChainSymmetry == Permutations(Procs) \cup Permutations(Values)

=============================================================================
