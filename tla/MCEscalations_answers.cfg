\* One task that asks and says what it does, an operator on every surface.
CONSTANTS
    Task = {t1}
    Operator = {o1}
    Sweeper = Sweeper
    None = None
    Kinds = {"tool", "soft"}
    Surfaces = {"command", "channel"}
    MaxPerTask = 1
    MaxId = 2
    MaxRestarts = 0
SPECIFICATION FairSpec
PROPERTIES
    
    QuestionsAreDecided
