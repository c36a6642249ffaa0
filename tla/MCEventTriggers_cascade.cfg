CONSTANTS
    a1 = a1
    a2 = a2
    f1 = f1
    none = none
    None = none
    Agent <- TwoAgents
    Urgent <- UrgentOne
    Task <- TwoTasks
    Flusher <- OneFlusher
    MaxChainDepth = 1
    MaxBatch = 2
    Capacity = 1
    StreakLimit = 0
    MaxRoots = 1
    MaxSwitches = 0
SPECIFICATION Spec
CHECK_DEADLOCK FALSE
PROPERTY CascadesEnd
