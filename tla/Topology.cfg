\* Two pods that are created, changed and created again.
SPECIFICATION Spec
CONSTANTS
    a = a
    b = b
    c = c
    p1 = p1
    p2 = p2
    s1 = s1
    PodIds = {p1, p2}
    StationIds = {s1}
    Dids = {a, b, c}
    NoStation = NoStation
    DirectEdits = TRUE
SYMMETRY Symmetry
INVARIANT
    TypeOK
PROPERTIES
    UnknownByEditOnly
    MisplacedByEditOnly
