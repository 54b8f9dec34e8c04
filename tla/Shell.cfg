SPECIFICATION Spec
CONSTANTS
    w1 = w1
    w2 = w2
    near = near
    far = far
    none = none
    Worlds = {w1, w2}
    Contexts <- MCContexts
    ContextOf <- MCContextOf
    MaxActions = 2
    OUTPUT_QUEUE = 3
    Chatty = FALSE
    MaxOutside = 1
INVARIANTS
    SessionsAligned
    ListingNeverStale
    FinishNeverRefused
PROPERTIES
    ActionsInOrder
CHECK_DEADLOCK TRUE
