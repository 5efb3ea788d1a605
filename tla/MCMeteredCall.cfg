SPECIFICATION FairSpec
CONSTANTS
    c1 = c1
    c2 = c2
    ch1 = ch1
    ch2 = ch2
    n1 = n1
    n2 = n2
    Calls = {c1, c2}
    Channels = {ch1, ch2}
    Nonces = {n1, n2}
    MaxSeq = 2
    UpperBound = 3
    ActualPrice = 2
    ChainCap = 7
    MaxRestarts = 1
INVARIANTS
    OvershootBounded
    NoDrift
    ProofPaysOnce
    ReservationsSettledOnce
PROPERTY ReservationEnds
