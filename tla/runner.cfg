CONSTANTS
    Capacity = 1
    MaxLine = 2
    MaxChunks = 4
SPECIFICATION Spec
CHECK_DEADLOCK FALSE
INVARIANTS
    RunnerInv
    WholeStream
PROPERTIES
    NeverBlocked
    Ends
