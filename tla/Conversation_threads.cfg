SPECIFICATION Spec
CONSTANTS
    Bot = bot
    Person = {ann}
    Line <- MCLine
    Status = {"resolved", "outstanding"}
    Shapes = {"azure", "github", "flat"}
    Quoting = FALSE
    MaxComments = 5
INVARIANTS
    TypeOK
    ConversationIsTrue
    OnlyOwnThreads
PROPERTY
    VerdictReachesItsThread
