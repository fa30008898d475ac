SPECIFICATION Spec
CONSTANTS
    Clients = {c1}
    Subsessions = {u1, u2}
    Functions = {f1}
    NoSubsession = NoSubsession
    Transient = FALSE
INVARIANTS
    HeldOnce
    SessionOutlivesRequests
    ClosedAnswered
