SPECIFICATION Spec
CONSTANTS
    Task = {1, 2, 3}
    a = a
    b = b
    Agent = {a, b}
    AgentOf <- MCAgentOf
    Rank <- MCRank
    MaxQueuedPerAgent = 1
    Slot = {1, 2}
    None = None
    MaxConcurrent = 2
    MaxCalls = 1
    MaxRoots = 1
    MaxCancels = 1
    MaxTimeouts = 0
INVARIANTS TypeOK OneActiveLoop FailureIsKnown
PROPERTIES FollowsLedger
