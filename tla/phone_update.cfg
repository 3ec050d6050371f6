SPECIFICATION Spec
CONSTANTS
    Scripts = {s1, s2}
    Pids = {p1, p2, p3}
    AtOnce = 1
    NoPid = NoPid
SYMMETRY Symmetry
INVARIANTS
    UpdateReloads
CHECK_DEADLOCK FALSE
