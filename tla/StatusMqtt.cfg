SPECIFICATION FairSpec
CONSTANTS
    c1 = c1
    c2 = c2
    Conns = {c1}
    N = 1
    Reasons = {"timeout"}
    ChanCap = 1
PROPERTY
    BrokerShown
