SPECIFICATION Spec
CONSTANTS
    d1 = d1
    d2 = d2
    d3 = d3
    k1 = k1
    k2 = k2
    Delivery = {d1, d2}
    Key = {k1, k2}
    keyOf <- MCSameKey
    Worker = {w1}
    QueueSize = 1
    None = None
CHECK_DEADLOCK FALSE
INVARIANT NoLeaseOrphanedOnExit
