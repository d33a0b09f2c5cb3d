CONSTANTS
    ClientIds <- MCClientIds
    Sends = {s1, s2}
    Swallows = {k1}
SPECIFICATION Spec
INVARIANT ReapedHoldsNoSocket
CHECK_DEADLOCK FALSE
