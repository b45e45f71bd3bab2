SPECIFICATION FairSpec
CONSTANTS
    d1 = d1
    d2 = d2
    r1 = r1
    None = None
    Maint = Maint
    Digests = {d1, d2}
    Expiring = {d1}
    Requests = {r1}
    Kinds = {"post"}
    MaxAttempts = 1
    MaxRecords = 1
    MaxSlots = 2
    MaxPerTick = 1
    MaxCrashes = 0
    MaxFaults = 1
PROPERTY Settles
CHECK_DEADLOCK FALSE
