SPECIFICATION FairLoopSpec
CONSTANTS
    u1 = u1
    u2 = u2
    bad = bad
    NoUri = NoUri
    Uri = {u1, u2, bad}
    Unparsable = {bad}
    Headers <- MCHeaders
    MaxAuth = 2
    MaxWords = 3
INVARIANT TypeOK
INVARIANT PromptConsistent
INVARIANT LaxOnlyAccepted
INVARIANT OptionsOfServer
INVARIANT HistoryOfLines
PROPERTY LinesReturn
CHECK_DEADLOCK FALSE
