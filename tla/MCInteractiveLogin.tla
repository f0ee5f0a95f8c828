------------------------- MODULE MCInteractiveLogin -------------------------
(***************************************************************************)
(* The instance of InteractiveLogin for TLC: expiries around every limit.  *)
(***************************************************************************)
EXTENDS InteractiveLogin

MCExpiries == {0, 1, 4, 5, 6, 14, 15, 16, 30}

=============================================================================
