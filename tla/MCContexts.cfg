SPECIFICATION FairSpec
CONSTANTS
    Main = Main
    a = a
    b = b
    None = None
    Subs <- MCSubs
    MaxLoads = 4
    MaxFaults = 1
INVARIANTS
    NoGhosts
    SettlesRight
PROPERTIES
    ContextsArrive
CHECK_DEADLOCK FALSE
