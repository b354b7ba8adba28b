\* Validation of every configuration of the families, and for the accepted ones two reads
\* of any of their blocks and two windows.
SPECIFICATION Spec
CONSTANTS
    Configs <- MCConfigs
    Radix <- MCRadix
    Float32 <- MCFloat32
    Samples <- MCSamples
    BaseNamePrefix = "urn:dev:gw:"
    Filler = 2
    MaxReads = 2
    MaxFlushes = 2
INVARIANTS
    TypeOK
    AcceptedIsSound
    PackTellsMeans
CHECK_DEADLOCK FALSE
