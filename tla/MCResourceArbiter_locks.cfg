\* Two agents take two resources in either order, under leases and with
\* priorities; one waiting call may be dropped.
CONSTANTS
    a1 = a1
    a2 = a2
    r1 = r1
    r2 = r2
    c1 = c1
    c2 = c2
    none = none
    None = none
    Agent <- TwoAgents
    Resource <- TwoResources
    Call <- TwoCalls
    AgentOf <- OneEach
    Mode <- AllModes
    Leased <- Timed
    Priority = {1}
    MaxRequests = 4
    MaxAbandons = 1
SPECIFICATION FairSpec
CHECK_DEADLOCK FALSE
INVARIANTS
    TypeOK
    Exclusion
    WaitersHaveAHolder
    WaitGraphAcyclic

    
