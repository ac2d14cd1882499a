SPECIFICATION MCSpec
CONSTANTS
    p1 = p1
    p2 = p2
    p3 = p3
    repo = repo
    catalog = catalog
    pull = pull
    delete = delete
    list = list
    None = None
    Procs = {p1}
    Kinds <- GetOnly
    ResourceOf <- GetResource
    ScopeOf <- GetScope
    Policy <- GetBearer
    Entitled <- PullAndList
    Lifetimes = {3}
    Silent = FALSE
    DefaultLifetime = 2
    Margin = 1
    Timeout = 1
    MaxTokenEntries = 1
    MaxChallengeEntries = 1
    MaxEpoch = 1
    Faults = FALSE
    MaxEvents = 3
INVARIANTS
    RevokedNotRepeated
