SPECIFICATION FairSpec
CONSTANTS
    c1 = c1
    c2 = c2
    Nobody = Nobody
    Envelopes = {e1, e2}
    Conversations = {c1, c2}
    ConversationOf <- MCConversationOf
    Expiring = {e2}
    MaxItems = 2
    MaxFetch = 2
    LedgerRestores = TRUE
    MaxRelayFaults = 1
    MaxCrashes = 1
    MaxFaults = 1
INVARIANT StoredTogether
INVARIANT AcceptedIsHeld
INVARIANT AckedIsStored
PROPERTY AcceptedIsDelivered
CHECK_DEADLOCK FALSE
