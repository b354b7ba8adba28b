SPECIFICATION Spec
CONSTANTS
    N = 3
    Blocks <- MCBlocks
    MinDelay = 3
    MaxDelay = 2
    MaxCount = 4
INVARIANT
    RetryWithinMax
