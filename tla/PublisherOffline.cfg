SPECIFICATION Spec
CONSTANTS
    MaxBatches = 3
    QueueCap = 2
    InflightCap = 2
    MaxConnects = 2
INVARIANT
    OfflineAfterCleanStop
