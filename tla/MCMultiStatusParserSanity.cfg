SPECIFICATION Spec
CONSTANTS
    h1 = h1
    p1 = p1
    None = None
    PropertyType = {p1}
    Href = {h1}
    Status = {200}
    Fallthrough = {TRUE, FALSE}
    MaxElements = 4
INVARIANT ObjectOrError
