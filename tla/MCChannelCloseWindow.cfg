SPECIFICATION ProtocolSpec
CONSTANTS
    alice = alice
    bob = bob
    tower = tower
    NoAddr = NoAddr
    n1 = n1
    Addr <- MCAddr
    Alice = alice
    Bob = bob
    Tower = tower
    MaxChannels = 1
    Balance <- MCAmount
    Amount <- MCAmount
    Windows <- MCWindows
    Nonce <- MCNonce
    Skew = 1
    MaxBounty = 1
    MaxBalance = 2
    Quiesced = TRUE
    OneSided = {1}
    MaxSeq = 3
    MaxTime = 3
    Lifetime = 3
INVARIANT CloseStartsWindow
CHECK_DEADLOCK FALSE
