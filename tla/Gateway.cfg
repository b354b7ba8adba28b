SPECIFICATION FairSpec
CONSTANTS
    c1 = c1
    Conns = {c1}
    ReadingCap = 1
    BatchCap = 1
    QueueCap = 1
    StatusCap = 1
    MaxBatches = 2
INVARIANTS
    TypeOK
    
    GracefulStop
PROPERTIES
    ReturnsAnyway
    DrainsByItself
