SPECIFICATION FairSpec
CONSTANTS
    s1 = s1
    s2 = s2
    Sessions = {s1, s2}
    Requests <- MCRequests
    NoSession = NoSession
INVARIANTS
    TypeOK
    RegisteredAlive
    EveryViewWatched
    CallbackAlive
    EvaluatorHasView
PROPERTIES
    AllAnswered
