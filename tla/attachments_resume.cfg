SPECIFICATION Spec
CONSTANTS
    b1 = b1
    b2 = b2
    k1 = k1
    k2 = k2
    k3 = k3
    s1 = s1
    s2 = s2
    BrowserKey = BrowserKey
    Idle = Idle
    NoFile = NoFile
    Blobs = {b1, b2}
    Keys = {k1, k2, k3}
    Slots = {s1, s2}
    Chunk = 3
    Tag = 1
    MaxAttachment = 7
    MaxBlob = 7
    Profiles <- MCProfiles
    MaxCompleted = 2
    MaxCompletedBytes = 14
SYMMETRY Symmetry
CHECK_DEADLOCK FALSE
PROPERTY AcceptedPieceCounts
