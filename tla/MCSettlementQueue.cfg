SPECIFICATION FairSpec
CONSTANTS
    e1 = e1
    e2 = e2
    r1 = r1
    r2 = r2
    Enqueuers = {e1, e2}
    Runs = {r1, r2}
    MinBatch = 2
    MaxBatch = 2
    MaxDepth = 2
    MaxInFlight = 2
    MaxRows = 3
    MaxFaults = 1
INVARIANTS
    DepthBounded
    NoOvertaking
    SendsBounded
PROPERTY Flushed
