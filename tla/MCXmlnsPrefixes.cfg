SPECIFICATION Spec
CONSTANTS
    t1 = t1
    t2 = t2
    t3 = t3
    None = None
    Dav = Dav
    Caldav = Caldav
    D = D
    C = C
    Thread = {t1, t2, t3}
    Href = {Dav, Caldav}
    Prefix = {D, C}
SYMMETRY Symmetry
INVARIANT WaitsForWorker
INVARIANT NoRace
PROPERTY Linearizable
