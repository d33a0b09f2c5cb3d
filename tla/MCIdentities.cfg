SPECIFICATION IdentitiesSpec
CONSTANTS
    Points = 12
    Latest = 150
    Free = Free
    Nothing = Nothing
    s0 = s0
    Slots <- MCSlots
    Sessions = {a, b}
    Asks <- MCAsks
    Chains <- MCChains
    Kits = {"none", "window", "lang", "dir"}
    Authored <- MCAuthored
    Finds <- MCFinds
    Clamped <- MCClamped
    Captured <- MCCaptured
    Streams <- MCStreams
    Binary = 149
INVARIANTS
    SealedIsCoherent
    AgreesWithProcess
    DirKeepsPersona
CHECK_DEADLOCK FALSE
