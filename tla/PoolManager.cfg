CONSTANTS
    Keys = {k1, k2}
    Specs = {s1, s2}
    MaxEdits = 5
    None = None
SPECIFICATION FairSpec
INVARIANT TypeOK
INVARIANT DefaultIsRegistered
PROPERTY PoolsConverge
CHECK_DEADLOCK FALSE
