SPECIFICATION Spec
CONSTANTS
    MAX_T = 3
    SPX_D = 5
    BUFFER_SIZE = 3
    Stale = 4
    Parties <- MCParties
    Conns <- MCConns
INVARIANTS
    CompleteUnlessTroubled
    ServedInPhase
PROPERTY SessionEnds
CHECK_DEADLOCK FALSE
