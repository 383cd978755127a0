SPECIFICATION FairSpec
CONSTANTS
    Turns = {t1, t2}
    Processes = {p1, p2}
    Backends = {"sqlite", "postgres"}
    StoreMayFail = TRUE
    KeepsRest = FALSE
INVARIANTS
    TypeOK
    NoTurnDisappears
    NeverInBoth
    
PROPERTIES
    OldTurnsLeave
