SPECIFICATION Spec
CONSTANTS
    r1 = r1
    r2 = r2
    r3 = r3
    x = x
    y = y
    p1 = p1
    p2 = p2
    Request = {r1, r2, r3}
    PR = {x}
    prOf <- MCThree
    Mention = {r2, r3}
    Mortal = {r1}
    Closable = {}
    Calm = {r3}
    Replica = {p1, p2}
    entry <- MCAnywhere
    MaxConcurrent = 2
    MaxCrashes <- MCOneInTrouble
    Trouble = {TRUE, FALSE}
    Poll = Poll
    None = None
    Dead = Dead
CHECK_DEADLOCK FALSE
SYMMETRY Symmetry
INVARIANT ToldOnce
INVARIANT NoDuplicateJobs
INVARIANT MentionReadsNewest
INVARIANT StartsInOrder
PROPERTY Implements
