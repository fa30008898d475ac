SPECIFICATION Spec
CONSTANTS
    Prompts = {p1, p2}
    Changes = {e1, e2}
    Containers = {d1, d2, d3, d4, d5}
    Server = Server
    NoContainer = NoContainer
    NoChange = NoChange
    MaxVersion = 2
SYMMETRY MCSymmetry
INVARIANTS
    TypeOK
    ReferencesExact
    WaiterAlive
    PolicyKept
    QuietMeansClean
PROPERTIES
    NobodyJoinsOldCache
