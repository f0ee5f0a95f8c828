--------------------------- MODULE MCTokenRunner ---------------------------
(***************************************************************************)
(* Instances of TokenRunner for TLC.                                       *)
(***************************************************************************)
EXTENDS TokenRunner

CONSTANTS r1, r2, o1

TwoRuns == {r1, r2}
OneLogout == {o1}
FirstRun == {r1}
Nobody == {}

Answer(i, n, e) == [idt |-> i, newRT |-> n, exp |-> e]

\* Everything the response may be, but for the expiry of a bad id_token.
AllAnswers == {Answer(i, n, e) : i \in {"none", "good"}, n \in BOOLEAN,
                                 e \in {"none", "future"}}
                \cup {Answer("bad", n, "future") : n \in BOOLEAN}

UsualAnswers == {Answer("good", n, e) : n \in BOOLEAN, e \in {"none", "future"}}

Entry(a, i, t, e) == [at |-> a, idt |-> i, rt |-> t, exp |-> e]

\* Absent, holding no token at all, without a refresh token, and with one.
AnyPrior == {NoEntry, Entry(FALSE, "none", 0, "none"),
             Entry(TRUE, "good", 0, "none"), Entry(TRUE, "none", 0, "future"),
             Entry(TRUE, "good", 1, "none"), Entry(TRUE, "good", 1, "past"),
             Entry(TRUE, "none", 1, "future")}

NoPrior == {NoEntry}

\* Logins bring an id_token, refreshes do not (OIDC Core 12.2 allows both).
IDTokenAnswers == {Answer("good", TRUE, "future")}
BareAnswers == {Answer("none", TRUE, "future")}

AllFaults == FaultKinds

=============================================================================
