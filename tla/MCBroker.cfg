CONSTANTS
    s1 = s1
    s2 = s2
    lang = lang
    other = other
    Sessions = {s1, s2}
    Targets = {t1, t2}
    Root = Root
    Names = {lang}
    Claimed = {lang}
    Patterns = {p1}
    All = All
    None = None
    MaxCommands = 2
SPECIFICATION Spec
INVARIANTS
    ViewportKept
    MonitorHolds
PROPERTIES
    RequestsContinue
    TargetsStart
CHECK_DEADLOCK FALSE
