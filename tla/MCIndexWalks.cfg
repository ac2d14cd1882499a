SPECIFICATION MCSpec
CONSTANTS
    Procs = {p1, p2}
    MaxName = 2
    PageSize = 1
    MaxCatalogEntries = 9
    CacheTTL = 1
    Timeout = 1
    None = None
    Repo = repo
    Global = global
    MaxChanges = 3
    Faults = TRUE
    MaxNow = 1
SYMMETRY MCSymmetry
INVARIANT ListComplete
INVARIANT OneWalkWhenCold
INVARIANT StaleBeatsError
INVARIANT GhostsAreRaced
