SPECIFICATION FairSpec
CONSTANTS
    r1 = r1
    r2 = r2
    o1 = o1
    NoEntry = NoEntry
    Runs <- TwoRuns
    Logouts <- OneLogout
    IDRuns <- FirstRun
    Backend = "file"
    Answers <- AllAnswers
    LoginAnswers <- AllAnswers
    PriorEntries <- AnyPrior
    Faults <- AllFaults
INVARIANT IInv
PROPERTY OnlyLoginDropsRefreshToken
INVARIANT CriticalSectionExclusive
INVARIANT SpentTokenIsBeingReplacedOrLost
PROPERTY EveryInvocationEnds
