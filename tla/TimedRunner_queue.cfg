SPECIFICATION TimedFairSpec
CONSTANTS
    r1 = r1
    r2 = r2
    r3 = r3
    NoEntry = NoEntry
    Runs <- MCRuns
    Logouts = {}
    IDRuns = {}
    Backend = "file"
    Answers <- MCAnswers
    LoginAnswers <- MCLoginAnswers
    PriorEntries <- MCPriorEntries
    Faults = {"lock"}
    lockAcquireTimeout = 3
    refreshTimeout = 3
INVARIANT ConcurrentRunsConverge
PROPERTIES GivesUpOnlyOnSlowSections WaitersMoveOn
