SPECIFICATION FairSpec
CONSTANTS
    ChanCap = 2
    Debounce = 2
    Heartbeat = 3
INVARIANTS
    TypeOK
    NoChangeForgotten
    NeverTorn
PROPERTIES
    WritesSpaced
    ChangeIsWritten
    WriterReturns
