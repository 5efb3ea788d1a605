SPECIFICATION FairSpec
CONSTANTS
    i1 = i1
    i2 = i2
    a = a
    b = b
    c = c
    Instances = {i1, i2}
    Calls = {a, b, c}
    Inst <- MCInst
    Reliable = {i2}
    Duration = 2
    MaxWait = 1
    MaxNonce = 2
    MaxRows = 2
INVARIANTS
    UniqueNonce
PROPERTIES
    NoTakeoverBeforeExpiry
    ImplementsService
    CrashedHolderReplaced
CHECK_DEADLOCK FALSE
