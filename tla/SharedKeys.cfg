CONSTANTS
    Contents = {k1, k2, bad}
    Invalid = {bad}
    MaxEdits = 2
SPECIFICATION Spec
PROPERTY SharedCatchesUp
CHECK_DEADLOCK FALSE
