\* Two calls of the model, two days, a disconnection and a crash.
CONSTANTS
    c1 = c1
    c2 = c2
    op = op
    none = none
    Caller <- TwoCallers
    Operator = op
    None = none
    Limit = 1
    MaxUsage = 1
    MaxVersion = 8
    MaxPeriod = 1
    MaxConnects = 1
    MaxCrashes = 1
SPECIFICATION FairSpec
CHECK_DEADLOCK FALSE
INVARIANTS
    TypeOK
    
    SpendBound
PROPERTIES
    LimitLifts
