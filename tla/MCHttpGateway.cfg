SPECIFICATION GatewaySpec
CONSTANTS
    Clients = {c1, c2}
    Callers = {k1, k2}
    NoThread = NoThread
    NoCaller = NoCaller
    Limit = 2
    Window = 1
    MaxTime = 4
    MaxRequests = 5
    MaxTimeouts = 1
SYMMETRY MCSymmetry
INVARIANTS
    TypeOK
    WindowLimit
    OvershootIsBounded
    RefusedWhenFull
    
    OverlapNeedsTimeout
CHECK_DEADLOCK FALSE
