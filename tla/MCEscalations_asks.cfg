\* One task, every kind of question, two operators and a crash.
CONSTANTS
    Task = {t1}
    Operator = {o1, o2}
    Sweeper = Sweeper
    None = None
    Kinds = {"tool", "gate", "park", "soft"}
    Surfaces = {"command"}
    MaxPerTask = 1
    MaxId = 2
    MaxRestarts = 1
SYMMETRY ActorSymmetry
SPECIFICATION Spec
INVARIANTS
    TypeOK
    OnlyApprovalsRun
    AnnouncedIdsStayTaken
    GateListens
    CancelClosesQuestions
PROPERTIES
    FirstDecisionStands
