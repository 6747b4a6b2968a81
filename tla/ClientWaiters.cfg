SPECIFICATION Spec
CONSTANTS
    x = x
    y = y
    r = r
    None = None
    Callers = {x, y}
    Resetters = {r}
    Attempts = 2
    MaxClients = 3
    MaxCreds = 1
INVARIANTS
    WaitersNotCancelled
CHECK_DEADLOCK FALSE
