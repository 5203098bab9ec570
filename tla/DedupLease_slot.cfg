SPECIFICATION FairSpec
CONSTANTS
    Delivery = {d1, d2, d3}
    None = None
    Stale = Stale
    Duration = 6
    Interval = 2
    MaxWait = 1
    MaxMissed = 1
    Faults = {{}, {d1}}
INVARIANTS
    OneReviewAtATime
    NoOrphanLease
PROPERTIES
    Implements
    CrashedLeaseLapses
