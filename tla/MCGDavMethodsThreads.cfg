SPECIFICATION Spec
CONSTANTS
    t1 = t1
    t2 = t2
    c1 = c1
    c2 = c2
    None = None
    Thread = {t1, t2}
    Call = {c1, c2}
    Kind = {"options", "propfind"}
    Cancellable = {c1, c2}
    ParseOutcome = {"object", "error", "nothing"}
SYMMETRY Symmetry
INVARIANT TypeOK
INVARIANT MessageOwned
INVARIANT ResultsConsistent
INVARIANT MessageDelivered
PROPERTY GioConventions
