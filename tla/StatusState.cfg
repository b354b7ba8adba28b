SPECIFICATION Spec
CONSTANTS
    c1 = c1
    c2 = c2
    Conns = {c1}
    N = 2
    Reasons = {"timeout", "exception"}
    ChanCap = 2
INVARIANTS
    TypeOK
    CatchesUp
    ApplyTellsChanges
