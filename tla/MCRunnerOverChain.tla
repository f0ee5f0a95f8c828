------------------------- MODULE MCRunnerOverChain -------------------------
(***************************************************************************)
(* The instance of RunnerOverChain for TLC.                                *)
(***************************************************************************)
EXTENDS RunnerOverChain, TLC

CONSTANTS r1, r2, o1

RunSymmetry == Permutations({r1, r2})

Entry(t, e) == [at |-> TRUE, idt |-> "none", rt |-> t, exp |-> e]

MCPriorEntries == {NoEntry, Entry(0, "none"), Entry(1, "future"), Entry(1, "none")}

MCAnswers == {[idt |-> "none", newRT |-> n, exp |-> "future"] : n \in BOOLEAN}

=============================================================================
