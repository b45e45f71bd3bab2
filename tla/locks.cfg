SPECIFICATION FairSpec
CONSTANTS
    Slots = {s1, s2}
    Loop = loop
    Nobody = nobody
    Paths <- OrderedPaths
    MaxUpgrades = 2
INVARIANT NoCircularWait
INVARIANT OnlyDeviceChangeFreezesLoop
PROPERTY BusyEnds
