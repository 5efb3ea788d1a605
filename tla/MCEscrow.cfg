SPECIFICATION FairSpec
CONSTANTS
    a1 = a1
    a2 = a2
    Arbiter <- MCArbiter
    MaxEscrows = 2
    Amount <- MCAmount
    Grace = 1
    MaxTime = 2
INVARIANTS
    Solvent
    ReleaseCleared
PROPERTIES
    ImplementsLedger
    EscapeHatchWorks
CHECK_DEADLOCK FALSE
