SPECIFICATION Spec
CONSTANTS
    Delivery = {d1, d2}
    None = None
    Stale = Stale
    Duration = 4
    Interval = 2
    MaxWait = 0
    MaxMissed = 1
    Faults = {{}}
PROPERTY TakeoverSparesRenewed
