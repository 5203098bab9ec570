SPECIFICATION Spec
CONSTANTS
    p1 = p1
    p2 = p2
    p3 = p3
    p4 = p4
    m1 = m1
    m2 = m2
    a1 = a1
    b1 = b1
    Push = {p1, p2, p3, p4}
    Mention = {m1, m2}
    Comment = {a1, b1}
    lineOf <- MCLine
    fileOf <- MCFile
    Worlds <- MCWorlds
CHECK_DEADLOCK FALSE
INVARIANT TypeOK
INVARIANT ReviewedOnce
INVARIANT TwinsOnlyFromOverlap
INVARIANT NoRepeatedVerdict
PROPERTY SettledIsClosed
PROPERTY SettledByItsClass
