SPECIFICATION FairSpec
CONSTANTS
    SPX_D = 4
    Workers = 3
    Scenarios <- MCScenarios
INVARIANTS
    OwnParameters
    SignatureSaved
PROPERTIES
    RequestsAnswered
CHECK_DEADLOCK FALSE
