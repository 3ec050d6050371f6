SPECIFICATION Spec
CONSTANTS
    Scripts = {s1, s2, s3}
    Pids = {p1, p2, p3, p4}
    AtOnce = 1
    NoPid = NoPid
SYMMETRY Symmetry
INVARIANTS
    PhoneTypeOK
    OneOfEach
    OffMeansOff
    OnUnlessTaken
CHECK_DEADLOCK FALSE
