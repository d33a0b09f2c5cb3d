SPECIFICATION CorpusSpec
CONSTANTS
    Sessions = {a, b}
    r1 = r1
    Rows = {r1}
    Made = Made
    Wants <- MCWants
    Attempts = 2
    MaxLines = 2
    MaxCrashes = 2
INVARIANTS
    OneLostPerCut
PROPERTIES
    BurntStaysOut
CHECK_DEADLOCK FALSE
