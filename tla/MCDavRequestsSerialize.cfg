SPECIFICATION Spec
CONSTANTS
    None = None
    Dav = Dav
    Caldav = Caldav
    Other = Other
    p1 = p1
    p2 = p2
    p3 = p3
    D = D
    C = C
    PropertyType = {p1}
    Namespace = {Dav, Caldav}
    NsOf <- MCNsOf
    Prefix = {D, C}
    FirstPrefixes <- MCFirstPrefixes
    Uninitialised = {TRUE}
    MaxTokens = 2
INVARIANT SerializeReturns
