\* One call at a time: a cap of one queued task, a checkpointed task, two agents, a crash.
CONSTANTS
    t1 = t1
    t2 = t2
    t3 = t3
    a1 = a1
    a2 = a2
    Task <- ThreeTasks
    Agent = {a1, a2}
    AgentOf <- TwoAgents
    Rank <- ThreeRanks
    MaxQueuedPerAgent = 1
    Proc = {p1}
    Resumable = {t2}
    None = None
    MaxLoops = 1
    MaxEntries = 1
    MaxCommands = 1
    MaxRestarts = 1
SPECIFICATION Spec
INVARIANTS
    EveryQueuedTaskReachable
PROPERTIES
    CrashKeepsWork
