SPECIFICATION SharingSpec
CONSTANTS
    PLAYERS = 4
    THRESHOLD = 3
    prime = 11
    Drawn <- MCDrawn
INVARIANTS
    SharesOnOnePolynomial
    SameSecret
