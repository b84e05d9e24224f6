SPECIFICATION Spec
CONSTANTS
    Connections = 2
    MaxThreads = 2
INVARIANT AllTasksDone
CHECK_DEADLOCK FALSE
