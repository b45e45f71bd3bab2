SPECIFICATION Spec
CONSTANTS
    h = h
    g = g
    c1 = c1
    c2 = c2
    o = o
    Daemons <- MCDaemons
    Codes <- MCCodes
    Others <- MCOthers
    NoSession = NoSession
    None = None
    MaxResponses = 2
    Profiles <- MCProfiles
SYMMETRY Symmetry
CHECK_DEADLOCK FALSE
INVARIANT CodeOpensOnce
INVARIANT RatchetNeverReused
INVARIANT MessageReadOnce
INVARIANT HandedOutOutlivesRestart
INVARIANT UnsavedOnlyAfterError
PROPERTY RevokedLeavesEveryConversation
