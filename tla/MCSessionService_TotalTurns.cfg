SPECIFICATION Spec
CONSTANTS
    Sessions = {s1}
    Clients = {c1, c2}
    Objects = {o1, o2, o3}
    NoObject = NoObject
    NoRecord = NoRecord
    NoSession = NoSession
    OneAtATime = FALSE
    StoreMayFail = FALSE
    MaxClarifications = 1
    MaxRetries = 1
    MaxRequests = 3
SYMMETRY MCSymmetry
INVARIANTS
    TotalTurns
