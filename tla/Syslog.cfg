SPECIFICATION FairSpec
CONSTANTS
    t1 = t1
    t2 = t2
    t3 = t3
    Threads = {t1, t2, t3}
    Min = 1
    Max = 5
    MaxLag = 2
INVARIANT
    TypeOK
PROPERTIES
    AttemptsOnSchedule
    EmitReturns
    Recovers
