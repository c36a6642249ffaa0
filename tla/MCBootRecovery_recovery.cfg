CONSTANTS
    t1 = t1
    t2 = t2
    none = none
    None = none
    Task <- OneTask
    Slot <- TwoSlots
    MaxBootResumes = 1
    Calls = 1
    MaxCrashes = 3
    MaxResumes = 1
    MaxEnds = 1
SPECIFICATION Spec
INVARIANT TypeOK
INVARIANT PoisonStops
 
PROPERTY AcceptedWorkEnds
PROPERTY CheckoutsEnd
CHECK_DEADLOCK FALSE
