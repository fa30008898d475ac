SPECIFICATION FairSpec
CONSTANTS
    Clients = {c1, c2}
    Subsessions = {}
    Functions = {f1}
    NoSubsession = NoSubsession
    Transient = TRUE
INVARIANTS
    TypeOK
    ConnectedServed
    TimerIffIdle
    NothingLeftAtExit
PROPERTIES
    ConnectReturns
    IdleServerStops
