SPECIFICATION FairSpec
CONSTANTS
    MaxBatches = 2
    QueueCap = 2
    InflightCap = 2
    MaxConnects = 3
INVARIANTS
    TypeOK
    BatchesInOrder
    NothingLeftBehind
    RetainedIsTrue
PROPERTIES
    ReturnsIfReachable
    OnlineAnnounced
