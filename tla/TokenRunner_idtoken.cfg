SPECIFICATION Spec
CONSTANTS
    r1 = r1
    r2 = r2
    o1 = o1
    NoEntry = NoEntry
    Runs <- TwoRuns
    Logouts <- Nobody
    IDRuns <- FirstRun
    Backend = "file"
    Answers <- BareAnswers
    LoginAnswers <- IDTokenAnswers
    PriorEntries <- NoPrior
    Faults = {}
INVARIANT EveryRunYieldsAToken
