SPECIFICATION Spec
CONSTANTS
    Connections = 3
    MaxThreads = 3
INVARIANTS
    CountersExact
    TasksInOrder
    NobodyOutlivesPool
    NoTaskForgotten
PROPERTY CompletesInTime
CHECK_DEADLOCK FALSE
