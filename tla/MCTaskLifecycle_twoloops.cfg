SPECIFICATION Spec
CONSTANTS
    Task = {1, 2, 3}
    a = a
    b = b
    Agent = {a, b}
    AgentOf <- MCAgentOf
    Rank <- MCRank
    MaxQueuedPerAgent = 0
    Slot = {1, 2, 3}
    None = None
    MaxConcurrent = 2
    MaxCalls = 2
    MaxRoots = 1
    MaxCancels = 0
    MaxTimeouts = 0
INVARIANTS OneActiveLoop
