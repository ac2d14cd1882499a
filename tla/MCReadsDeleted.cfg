SPECIFICATION MCSpec
CONSTANTS
    Procs = {p1, p2}
    Tags = {v1}
    Manifests = {m1}
    Blobs = {b1}
    TagList = taglist
    Repo = repo
    Global = global
    None = None
    CacheTTL = 2
    ImmutableTTL = 3
    Timeout = 1
    MaxPushes = 1
    Faults = FALSE
    Lies = FALSE
    QuietSuccess = FALSE
    MaxNow = 3
SYMMETRY MCSymmetry
INVARIANT DeletedNotServed
