SPECIFICATION Spec
CHECK_DEADLOCK FALSE
CONSTANTS
    Processes = 4
    NoFile = NoFile
    MaxRevision = 6
    Profiles <- MCProfiles
INVARIANT ProfileOutlivesCommands
INVARIANT OneHolder
PROPERTY PendingOutlivesFailure
PROPERTY OnlyStagedBackupRefusesServe
PROPERTY SetupLeavesUnlockable
