SPECIFICATION ObjectsSpec
CONSTANTS
    A = A
    B = B
    Null = Null
    Text = {"t1"}
    MaxInt = 1
    Used = {"lock_root", "lock_scope", "timeout"}
    MaxCalls = 2
    MaxFreeze = 1
    d1 = d1
    Datum = {d1}
    Empty = Empty
    Nothing = Nothing
    Transformable <- MCTransformable
    Undefined = {TRUE, FALSE}
    Named = {"displayname", "getcontenttype"}
INVARIANT TypeOK
INVARIANT PeersAgree
INVARIANT RootKnown
INVARIANT TimeoutMeaning
INVARIANT PropertiesTypeOK
INVARIANT FlagsOfElement
INVARIANT LookupStable
PROPERTY NotificationsEnd
