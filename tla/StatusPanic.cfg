SPECIFICATION Spec
CONSTANTS
    c1 = c1
    c2 = c2
    Conns = {c1}
    N = 2
    Reasons = {"timeout"}
    ChanCap = 4
INVARIANT
    UnknownUntilPolled
