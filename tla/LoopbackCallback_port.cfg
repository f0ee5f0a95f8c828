SPECIFICATION FairSpec
CONSTANTS
    f1 = f1
    f2 = f2
    port1 = port1
    c1 = c1
    c2 = c2
    Flows = {f1, f2}
    Ports = {port1}
    Conns = {c1, c2}
    NoPort = NoPort
    Free = Free
    Stray = Stray
    None = None
INVARIANTS
    IInv
    AnswerIsForThisLogin
    FirstAnswerDecides
PROPERTY BindFailsOnlyBesideAWaitingLogin
PROPERTY EveryLoginEnds
