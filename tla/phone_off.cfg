SPECIFICATION Spec
CONSTANTS
    Scripts = {s1, s2}
    Pids = {p1, p2, p3}
    AtOnce = 2
    NoPid = NoPid
SYMMETRY Symmetry
INVARIANTS
    OffMeansOff
CHECK_DEADLOCK FALSE
