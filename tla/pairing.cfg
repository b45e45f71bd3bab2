SPECIFICATION Spec
CONSTANTS
    Invites <- MCInvites
    Expiring <- MCExpiring
    LocalAccount = "me"
    NoPeer = NoPeer
    MaxCrashes = 1
    MaxFaults = 2
INVARIANT OpenOnlyAfterComparison
INVARIANT RejectedNotReused
INVARIANT OnlyReplacedInviteBreaksRestore
PROPERTY ContactKeepsDevice
CHECK_DEADLOCK FALSE
