SPECIFICATION MCFairSpec
CONSTANTS
    p1 = p1
    p2 = p2
    p3 = p3
    repo = repo
    catalog = catalog
    pull = pull
    delete = delete
    list = list
    None = None
    Procs = {p1, p2}
    Kinds <- MCKinds
    ResourceOf <- MCResourceOf
    ScopeOf <- MCScopeOf
    Policy <- MCBearer
    Entitled <- PullAndList
    Lifetimes = {1}
    Silent = FALSE
    DefaultLifetime = 1
    Margin = 0
    Timeout = 1
    MaxTokenEntries = 1
    MaxChallengeEntries = 1
    MaxEpoch = 1
    Faults = FALSE
    MaxEvents = 1
INVARIANTS
    CachesBounded
    EffortBounded
PROPERTIES
    RefusalRenegotiated
    EntitledNotRefused
    CallsReturn
