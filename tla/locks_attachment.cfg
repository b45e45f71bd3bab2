SPECIFICATION FairSpec
CONSTANTS
    Slots = {s1, s2}
    Loop = loop
    Nobody = nobody
    Paths <- MCWithAttachmentSend
    MaxUpgrades = 2
PROPERTY BusyEnds
CHECK_DEADLOCK FALSE
