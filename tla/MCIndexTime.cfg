SPECIFICATION MCFairSpec
CONSTANTS
    Procs = {p1, p2}
    MaxName = 1
    PageSize = 1
    MaxCatalogEntries = 9
    CacheTTL = 1
    Timeout = 1
    None = None
    Repo = repo
    Global = global
    MaxChanges = 1
    Faults = TRUE
    MaxNow = 5
INVARIANT AgeBounded
PROPERTY RequestsReturn
