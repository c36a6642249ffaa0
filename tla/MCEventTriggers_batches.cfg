CONSTANTS
    a1 = a1
    a2 = a2
    f1 = f1
    none = none
    None = none
    Agent <- OneAgent
    Urgent <- NoAgent
    Task <- TwoTasks
    Flusher <- OneFlusher
    MaxChainDepth = 0
    MaxBatch = 2
    Capacity = 1
    StreakLimit = 2
    MaxRoots = 3
    MaxSwitches = 1
SPECIFICATION Spec
CHECK_DEADLOCK FALSE
INVARIANT TypeOK
INVARIANT OneReaction
INVARIANT NoBatchForgotten
PROPERTY BatchesFlush
