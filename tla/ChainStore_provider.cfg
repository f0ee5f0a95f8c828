SPECIFICATION Spec
CONSTANTS
    p1 = p1
    p2 = p2
    v1 = v1
    v2 = v2
    NoEntry = NoEntry
    Nothing = Nothing
    Procs = {p1}
    Values = {v1, v2}
    Faults = {"flap"}
PROPERTY NoProviderIsUnavailable
