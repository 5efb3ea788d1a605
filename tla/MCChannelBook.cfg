SPECIFICATION Spec
CONSTANTS
    r1 = r1
    r2 = r2
    Job = Job
    Request <- MCRequest
    Amount <- MCAmount
    Deposit = 1
    MaxSeq = 3
    MaxDeposits = 2
    MaxFailed = 1
INVARIANTS
    Balanced
    SettledOnce
PROPERTIES
    SequenceRises
    FrozenOnceClosing
CHECK_DEADLOCK FALSE
SYMMETRY MCSymmetry
