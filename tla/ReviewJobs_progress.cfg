SPECIFICATION FairSpec
CONSTANTS
    r1 = r1
    r2 = r2
    r3 = r3
    x = x
    y = y
    p1 = p1
    p2 = p2
    Request = {r1, r2}
    PR = {x, y}
    prOf <- MCTwo
    Mention = {r2}
    Mortal = {r1}
    Closable = {x}
    Replica = {p1, p2}
    entry <- MCFirstFixed
    MaxConcurrent = 1
    MaxCrashes <- MCOne
    Trouble = {FALSE}
    Calm = {}
    Poll = Poll
    None = None
    Dead = Dead
CHECK_DEADLOCK FALSE
INVARIANT TypeOK
PROPERTIES ReviewsHappen NoneLeftWaiting
