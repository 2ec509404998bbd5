SPECIFICATION Spec
CONSTANTS
    Digit = {"1"}
    Other = {"x"}
    Density = {0, 2}
    TAIL = 5
    MaxLen = 6
INVARIANTS
    OutermostBoxes
    WrapHarmless
    TailDecides
    PositionCalibrated
CHECK_DEADLOCK FALSE
