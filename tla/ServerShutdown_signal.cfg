SPECIFICATION Spec
CONSTANTS
    Requests = {r1}
    InHandler = TRUE
PROPERTIES
    ShutdownEnds
CHECK_DEADLOCK FALSE
