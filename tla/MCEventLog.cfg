SPECIFICATION FairSpec
CONSTANTS
    Depth = 1
    MaxRetries = 2
    MaxLedger = 5
    MaxFaults = 3
INVARIANTS
    NothingSkipped
    NothingRepeated
PROPERTY KeepsUp
CHECK_DEADLOCK FALSE
