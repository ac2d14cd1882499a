SPECIFICATION MCSpec
CONSTANTS
    k1 = k1
    k2 = k2
    k3 = k3
    k4 = k4
    r1 = r1
    r2 = r2
    Global = Global
    Miss = Miss
    Keys <- MCKeys
    Repos <- MCRepos
    KeyScope <- MCKeyScope
    v1 = v1
    v2 = v2
    Values <- MCValues
    TTLs <- MCTTLs
    MaxEntries = 3
    MaxTick = 5
    MaxNow = 1
SYMMETRY MCSymmetry
INVARIANTS
    Bounded
    WorkingSetKept
PROPERTIES
    LossyStoreSpec
