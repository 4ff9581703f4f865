SPECIFICATION LoopSpec
CONSTANTS
    u1 = u1
    u2 = u2
    bad = bad
    NoUri = NoUri
    Uri = {u1, u2, bad}
    Unparsable = {bad}
    Headers <- MCHeaders
    MaxAuth = 2
    MaxWords = 3
INVARIANT AllowOfServer
CHECK_DEADLOCK FALSE
