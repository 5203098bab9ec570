SPECIFICATION Spec
CONSTANTS
    Bot = bot
    Person = {ann}
    Line <- MCLine
    Status = {"resolved", "outstanding"}
    Shapes = {"azure", "github", "flat"}
    Quoting = TRUE
    MaxComments = 4
INVARIANT
    QuoterKeepsTheirThreads
