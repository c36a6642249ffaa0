SPECIFICATION Spec
CONSTANTS
    Task = {1, 2}
    a = a
    b = b
    Agent = {a, b}
    AgentOf <- MCAgentOf
    Rank <- MCRank
    MaxQueuedPerAgent = 1
    Slot = {1, 2, 3}
    None = None
    MaxConcurrent = 2
    MaxCalls = 1
    MaxRoots = 1
    MaxCancels = 1
    MaxTimeouts = 1
PROPERTIES ImplementsLedger AcceptedTasksSettle CallersReturn
