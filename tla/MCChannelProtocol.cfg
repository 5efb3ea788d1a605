SPECIFICATION FairSpec
CONSTANTS
    alice = alice
    bob = bob
    tower = tower
    NoAddr = NoAddr
    n1 = n1
    Addr <- MCAddr
    Alice = alice
    Bob = bob
    Tower = tower
    MaxChannels = 2
    Balance <- MCBalance
    Amount <- MCAmount
    Windows <- MCWindows
    Nonce <- MCNonce
    Skew = 1
    MaxBounty = 1
    MaxBalance = 2
    Quiesced = TRUE
    OneSided = {2}
    MaxSeq = 2
    MaxTime = 2
    Lifetime = 2
INVARIANTS
    Conserved
    Solvent
PROPERTIES
    ExecutorNeverLoses
    ImplementsLedger
    ClosingEnds
CHECK_DEADLOCK FALSE
