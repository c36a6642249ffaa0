\* Two callers whose calls overlap, two tasks of one agent.
CONSTANTS
    t1 = t1
    t2 = t2
    t3 = t3
    a1 = a1
    a2 = a2
    Task <- TwoTasks
    Agent = {a1}
    AgentOf <- OneAgent
    Rank <- TwoRanks
    MaxQueuedPerAgent = 0
    Proc = {p1, p2}
    Resumable = {}
    None = None
    MaxLoops = 1
    MaxEntries = 1
    MaxCommands = 2
    MaxRestarts = 0
SYMMETRY ProcSymmetry
SPECIFICATION Spec
INVARIANTS
    TypeOK
    NoLostTask
    NoUnrecordedTask
    NoDanglingEdge
