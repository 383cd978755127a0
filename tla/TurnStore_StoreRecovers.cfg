SPECIFICATION FairSpec
CONSTANTS
    Turns = {t1}
    Processes = {p1}
    Backends = {"postgres"}
    StoreMayFail = TRUE
    KeepsRest = FALSE
PROPERTIES
    StoreRecovers
