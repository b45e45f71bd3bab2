SPECIFICATION Spec
CONSTANTS
    d1 = d1
    d2 = d2
    r1 = r1
    None = None
    Maint = Maint
    Digests = {d1, d2}
    Expiring = {d1, d2}
    Requests = {r1}
    Kinds = {"post", "attachment", "commit"}
    MaxAttempts = 1
    MaxRecords = 2
    MaxSlots = 2
    MaxPerTick = 1
    MaxCrashes = 1
    MaxFaults = 1
SYMMETRY DigestSymmetry
INVARIANT TypeOK
INVARIANT AcceptedHasEvidence
INVARIANT CancelReleasesWire
INVARIANT OnlyExhaustionBreaksRestore
PROPERTY NoFreshPostAfterCancel
PROPERTY StoredFailureIsFinal
PROPERTY LateResultKeepsState
CHECK_DEADLOCK FALSE
