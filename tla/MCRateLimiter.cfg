SPECIFICATION LimiterSpec
CONSTANTS
    c1 = c1
    c2 = c2
    Callers = {c1, c2}
    Limit = 2
    Window = 5
    Lag <- MCLag
    MaxAge = 2
    MaxFaults = 1
INVARIANTS LimiterInv PassedIsLimited
PROPERTY RefusedWasOver
