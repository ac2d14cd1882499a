SPECIFICATION MCSpec
CONSTANTS
    p1 = p1
    p2 = p2
    p3 = p3
    repo = repo
    catalog = catalog
    pull = pull
    delete = delete
    list = list
    None = None
    Procs = {p1, p2, p3}
    Kinds <- GetOnly
    ResourceOf <- GetResource
    ScopeOf <- GetScope
    Policy <- GetBearer
    Entitled <- PullAndList
    Lifetimes = {2}
    Silent = TRUE
    DefaultLifetime = 1
    Margin = 1
    Timeout = 2
    MaxTokenEntries = 1
    MaxChallengeEntries = 1
    MaxEpoch = 0
    Faults = TRUE
    MaxEvents = 3
SYMMETRY MCSymmetry
INVARIANTS
    SingleFlight
    NoRedundantTokenRequest
    OverrunBounded
