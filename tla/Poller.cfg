SPECIFICATION FairSpec
CONSTANTS
    N = 3
    Blocks <- MCBlocks
    MinDelay = 1
    MaxDelay = 5
    MaxCount = 4
INVARIANTS
    TypeOK
    DelaysGrow
    EveryDeviceEveryTick
    ReportsMatchReads
PROPERTIES
    FollowsProtocol
    KeepsServing
