SPECIFICATION Spec
CONSTANTS
    p1 = p1
    p2 = p2
    v1 = v1
    v2 = v2
    NoEntry = NoEntry
    Nothing = Nothing
    Procs = {p1, p2}
    Values = {v1, v2}
    Faults = {"flap", "keychain", "file", "crash"}
SYMMETRY ChainSymmetry
INVARIANT IInv
PROPERTY ImplementsProfileStore
INVARIANT LogoutClearsWhatItReached
