--------------------------- MODULE MCTimedRunner ---------------------------
(***************************************************************************)
(* The instance of TimedRunner for TLC.                                    *)
(***************************************************************************)
EXTENDS TimedRunner

CONSTANTS r1, r2, r3

MCRuns == {r1, r2, r3}

Entry(e) == [at |-> TRUE, idt |-> "none", rt |-> 1, exp |-> e]

MCPriorEntries == {Entry("none"), Entry("past")}

\* An issuer that rotates, one that does not, and one that names no expiry.
MCAnswers == {[idt |-> "none", newRT |-> TRUE, exp |-> "future"],
              [idt |-> "none", newRT |-> FALSE, exp |-> "future"],
              [idt |-> "none", newRT |-> TRUE, exp |-> "none"]}

MCLoginAnswers == {a \in MCAnswers : a.newRT}

=============================================================================
