SPECIFICATION Spec
CONSTANTS
    Pushers = {s1, s2}
    Poppers = {r1, r2}
    Nodes = {m1, m2, m3}
    NULL = NULL
INVARIANTS
    TypeOK
    LockHeldInside
    ListIntact
    FifoOrder
    NoLostWakeup
PROPERTY ImplementsChannel
