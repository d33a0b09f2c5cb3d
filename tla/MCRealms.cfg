CONSTANTS
    A = A
    B = B
    W = W
    R = R
    Sessions = {A, B, W}
    Root = R
    Parent <- MCParent
    Slow = B
    MaxTasks = 4
    Workers = {W}
    Pausing = TRUE
    Asks = {A}
    MaxFaults = 1
SPECIFICATION RealmsSpec
INVARIANTS
    OrderWithinSession
    AttachFirst
    BundleFirst
PROPERTIES
    PagesAreIndependent
    PausedTargetsRun
CHECK_DEADLOCK FALSE
