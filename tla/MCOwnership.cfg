CONSTANTS
    c1 = c1
    c2 = c2
    Connections = {c1, c2}
    Contexts = {x1}
    Targets = {t1, t2}
    Default = Default
    Nobody = Nobody
SPECIFICATION Spec
INVARIANTS
    HiddenWhileOwned
    DetachMatchesAttach
PROPERTIES
    PagesStart
CHECK_DEADLOCK FALSE
