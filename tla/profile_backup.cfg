SPECIFICATION Spec
CHECK_DEADLOCK FALSE
CONSTANTS
    Processes = 4
    NoFile = NoFile
    MaxRevision = 6
    Profiles <- MCProfiles
INVARIANT BackupOpens
