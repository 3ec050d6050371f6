SPECIFICATION Spec
CONSTANTS
    Domains = {"a.com", "A.com", "b.com", "c.com"}
    Lower <- MCLower
    QueryTypes = {"A"}
    Bodies = {"x"}
    AnswerTtls = {0, 2}
    Capacity = 2
    MinTtl = 1
    MaxTtl = 2
    DefaultTtl = 3
    Second = 2
    U32 = 3
    Instants = {0, 1, 2, 3, 5}
    MaxOps = 5
INVARIANTS
    CacheTypeOK
    LifetimeWithinBounds
    OrderMatchesMap
    BooksBalance
PROPERTIES
    KeepsPromise
    EvictsLeastRecentlyUsed
CHECK_DEADLOCK FALSE
