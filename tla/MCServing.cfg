SPECIFICATION MCSpec
CONSTANTS
    Unset = Unset
    Slug <- MCSlug
    Visitors = {v1, v2}
    Documents <- MCDocuments
    Environments <- MCEnvironments
    HealthTTL = 2
    ProbeTimeout = 1
    ShutdownTimeout = 2
    Requests = {p1, p2}
    Encoders = {e1, e2}
    None = None
    MinSize = 2
    AssetSizes = {1, 2, 3}
INVARIANT ConfigUsable
INVARIANT VerdictHonest
INVARIANT ResponseCoherent
INVARIANT ErrorsHaveErrorStatus
INVARIANT EncodersExclusive
INVARIANT LogTellsStatus
PROPERTY StopsGracefully
