SPECIFICATION Spec
CONSTANTS
    u1 = u1
    u2 = u2
    u3 = u3
    u4 = u4
    NoAddr = NoAddr
    n1 = n1
    n2 = n2
    Addr <- MCAddr
    MaxChannels = 1
    Balance <- MCBalance
    Amount <- MCAmount
    Windows <- MCWindows
    Nonce <- MCNonce
    Skew = 1
    MaxBounty = 1
    MaxBalance = 2
    MaxSeq = 2
    MaxTime = 2
INVARIANTS
    SettlementExact
    BountyPaidOnce
PROPERTIES
    ClosedIsFinal
    SameSequenceKeepsFunds
    FrozenAfterWindow
    AtMostOneDebitPerNonce
SYMMETRY MCSymmetry
CHECK_DEADLOCK FALSE
