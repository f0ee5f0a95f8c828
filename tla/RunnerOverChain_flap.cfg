SPECIFICATION Spec
CONSTANTS
    r1 = r1
    r2 = r2
    o1 = o1
    NoEntry = NoEntry
    Runs = {r1, r2}
    Logouts = {o1}
    Answers <- MCAnswers
    LoginAnswers <- MCAnswers
    PriorEntries <- MCPriorEntries
    Faults = {"crash", "read", "save", "lock", "refresh", "login", "delete"}
SYMMETRY RunSymmetry
INVARIANTS IInv SpentTokenOnlyAfterStraddling LogoutIsFinal
