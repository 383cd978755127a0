SPECIFICATION Spec
CONSTANTS
    Rows = {r1, r2, r3, r4}
    Confidences = {20, 35, 40, 62, 85, 99}
INVARIANTS
    BestIsChosen
    RaisedByMistakes
CHECK_DEADLOCK FALSE
SYMMETRY MCSymmetry
