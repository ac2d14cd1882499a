SPECIFICATION MCSpec
CONSTANTS
    LastRepo = 3
    LastTag = 4
    Shown <- DisplayOrder
    Queries <- TwoQueries
    CatalogPageSize = 1
    TagPageSize = 3
    TagCountLimit = 2
    DefaultPageSize = 1
    MaxCatalogPageSize = 2
    Starts = {0, 2}
    None = None
    Absent = Absent
    Error = Error
    Unusable = Unusable
    Documents <- MCDocuments
    TagNames <- MCTagNames
    Latest <- MCLatest
    MaxListed = 3
    MaxChanges = 1
    MaxRows = 6
INVARIANT TagsComplete
INVARIANT NoTagTwice
INVARIANT CountExact
INVARIANT CatalogComplete
INVARIANT IndexSizeIsUnion
INVARIANT CommandsFitHistory
INVARIANT LayersOfAPlatform
INVARIANT PlatformsAgree
INVARIANT NewestFirst
