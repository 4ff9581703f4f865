SPECIFICATION Spec
CONSTANTS
    h1 = h1
    p1 = p1
    p2 = p2
    None = None
    PropertyType = {p1, p2}
    Href = {h1}
    Status = {200, 404}
    Fallthrough = {TRUE}
    MaxElements = 8
SYMMETRY Symmetry
INVARIANT TypeOK
INVARIANT ObjectOrError
INVARIANT ErrorSetOnce
INVARIANT QueriesMatchDocument
INVARIANT CollectTypesComplete
