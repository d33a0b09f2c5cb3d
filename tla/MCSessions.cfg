CONSTANTS
    p = p
    q = q
    s1 = s1
    s2 = s2
    Tokens = {p, q}
    Anonymous = Anonymous
    Slots <- MCSlots
    Fits <- MCFits
    Clients = {c1, c2, c3}
    MaxConcurrent = 2
    None = None
SPECIFICATION Spec
INVARIANTS
    SlotsAreCounted
    BrowserOutlivesConnections
    PromotedIsAlone
    DialsWhatItFound
    StraysWereOutrun
PROPERTIES
    ShutdownEnds
CHECK_DEADLOCK FALSE
