SPECIFICATION Spec
CONSTANTS
    PLAYERS = 3
    Parties <- MCParties
    Conns <- MCConns
INVARIANTS
    KeyAgreed
    NoConnectionReset
PROPERTY KeygenEnds
CHECK_DEADLOCK FALSE
