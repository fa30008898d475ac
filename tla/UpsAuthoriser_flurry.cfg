SPECIFICATION FairSpec
CONSTANTS
    p1 = p1
    p2 = p2
    p3 = p3
    s1 = s1
    s2 = s2
    k1 = k1
    k2 = k2
    Subsessions = {p1, p2, p3}
    Sessions = {s1, s2}
    SessionOf <- MCSessionOf
    Keys = {k1, k2}
    Fingerprints <- MCFingerprints
    MaxRecordId = 1
    DbEvents = {}
    NoRequest = NoRequest
    NoRecord = NoRecord
    NoSession = NoSession
INVARIANTS
    TypeOK
    OneDialog
    QueuedOnce
    NoStrandedRequest
    DisputesOwned
    ForcedRecordMatched
PROPERTIES
    NoRedundantPrompt
    ImplementsService
    EveryPromptEnds
