SPECIFICATION Spec
CONSTANTS
    Sessions = {s1, s2}
    Clients = {c1, c2}
    Objects = {o1, o2, o3}
    NoObject = NoObject
    NoRecord = NoRecord
    NoSession = NoSession
    OneAtATime = TRUE
    StoreMayFail = TRUE
    MaxClarifications = 1
    MaxRetries = 1
    MaxRequests = 3
SYMMETRY MCSymmetry
INVARIANTS
    NothingLost
    OneObject
PROPERTIES
    VoiceAnswersItsTurn
    
