CONSTANTS
    ClientIds <- MCClientIds
    Sends = {s1, s2}
    Swallows = {k1}
SPECIFICATION FairSpec
INVARIANTS
    RepliesGoHome
    OnlyLateRepliesLeak
PROPERTIES
    StartupEnds
    CommandsAnswered
    SendsSettle
CHECK_DEADLOCK FALSE
