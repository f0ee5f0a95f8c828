SPECIFICATION Spec
CONSTANTS
    p1 = p1
    p2 = p2
    v1 = v1
    v2 = v2
    i1 = i1
    i2 = i2
    i3 = i3
    i4 = i4
    NoEntry = NoEntry
    Nothing = Nothing
    NoFile = NoFile
    Partial = Partial
    Procs = {p1, p2}
    Values = {v1, v2}
    Inodes = {i1, i2, i3, i4}
    Faults = {"io", "crash"}
SYMMETRY FileSymmetry
INVARIANT IInv
PROPERTY ImplementsProfileStore
