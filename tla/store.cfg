SPECIFICATION Spec
CONSTANTS
    Keys = {k1, k2}
    Values = {v1, v2}
    Nil = Nil
    NoFile = NoFile
    None = None
    MaxRecords = 1
    FaultModes = {"before"}
    MaxRevision = 3
    MaxFaults = 1
    MaxCrashes = 2
INVARIANT ErrLeavesNoTrace
INVARIANT RefusedOnlyAfterWipe
PROPERTY ImplementsDurableRecords
CHECK_DEADLOCK FALSE
