SPECIFICATION FairSpec
CONSTANTS
    d1 = d1
    d2 = d2
    d3 = d3
    k1 = k1
    k2 = k2
    Delivery = {d1, d2, d3}
    Key = {k1, k2}
    keyOf <- MCKeyOf
    Worker = {w1, w2}
    QueueSize = 1
    None = None
CHECK_DEADLOCK FALSE
INVARIANTS RecordHasJob CleanDrain
PROPERTIES ShutdownEnds AcceptedIsHandled
