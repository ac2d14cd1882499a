SPECIFICATION MCSpec
CONSTANTS
    Procs = {p1, p2}
    Tags = {v1}
    Manifests = {m1, m2}
    Blobs = {}
    TagList = taglist
    Repo = repo
    Global = global
    None = None
    CacheTTL = 1
    ImmutableTTL = 2
    Timeout = 1
    MaxPushes = 2
    Faults = TRUE
    Lies = TRUE
    QuietSuccess = TRUE
    MaxNow = 2
SYMMETRY MCSymmetry
INVARIANT AgeBounded
INVARIANT GhostsAreRaced
INVARIANT DigestsFaithful
