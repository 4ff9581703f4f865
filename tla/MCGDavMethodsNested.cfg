SPECIFICATION FairSpec
CONSTANTS
    t1 = t1
    c1 = c1
    c2 = c2
    None = None
    Thread = {t1}
    Call = {c1, c2}
    Kind = {"options", "propfind"}
    Cancellable = {c1}
    ParseOutcome = {"object", "error"}
INVARIANT ReferencesBalanced
INVARIANT Isolation
INVARIANT ContextsNested
INVARIANT SourcesReachable
INVARIANT NeverStuck
PROPERTY CallbackOnce
PROPERTY CallsFinish
PROPERTY ThreadsReturn
