SPECIFICATION FairSpec
CONSTANTS
    c1 = c1
    c2 = c2
    k1 = k1
    k2 = k2
    Nobody = Nobody
    Caller <- MCCaller
    Key <- MCKey
    KeysOf <- MCKeysOf
    MaxAttempts = 2
    MaxRestarts = 1
INVARIANTS
    LandsBounded
    ReportedTrue
PROPERTY SubmissionEnds
CHECK_DEADLOCK FALSE
