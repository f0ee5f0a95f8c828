------------------------- MODULE MCLoopbackCallback -------------------------
(***************************************************************************)
(* Instances of LoopbackCallback for TLC.                                  *)
(***************************************************************************)
EXTENDS LoopbackCallback

CONSTANTS f1, f2, port1, c1, c2

=============================================================================
