SPECIFICATION Spec
CONSTANTS
    None = None
    Answers <- MCAnswers
    Misspelt <- MCMisspelt
INVARIANTS
    IInv
    UnverifiedOnlyMisspelt
    PrintedIsStored
    ZeroMeansAToken
