SPECIFICATION Spec
CONSTANTS
    Sessions = {s1, s2}
    Labels = {l1, l2}
    PassStreams = {q1, q2}
    MaxKeyId = 2
    RomStore <- MCRomStore
    l1 = l1
    q1 = q1
    NoSession = NoSession
    NoLabel = NoLabel
    NullStream = NullStream
INVARIANTS
    TypeOK
    RestartFindsKeys
    MemoryMatchesFile
    OnePassphrase
    KeysDistinct
    OpenKeysAlive
PROPERTIES
    ImplementsKeyChain
