SPECIFICATION Spec
CONSTANTS
    CallIds = {i1, i2}
    Calls = {o1, o2}
    Clients = {c1, c2, c3}
    NoCall = NoCall
    MaxRequests = 6
SYMMETRY MCSymmetry
INVARIANTS
    TypeOK
    HoldIsShown
    HoldIsObeyed
    FirstFailureNamed
    FailoverAtTwo
    FailuresCounted
    FoundCallHasContext
