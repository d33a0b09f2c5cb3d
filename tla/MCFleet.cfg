SPECIFICATION Spec
CONSTANTS
    Size = 2
    MaxProxies = 2
    Launchers = {l1, l2, l3}
    Stoppers = {d1, d2}
INVARIANTS
    NoOrphans
    ServesItsOwn
PROPERTY CallsEnd
CHECK_DEADLOCK FALSE
