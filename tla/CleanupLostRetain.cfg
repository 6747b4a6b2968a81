SPECIFICATION Spec
CONSTANTS
    p1 = p1
    p2 = p2
    None = None
    Processes = {p1, p2}
    Mortal = {}
    Switchers = {}
    Timely = TRUE
    Faults = FALSE
INVARIANTS
    RetainHonoured
CHECK_DEADLOCK FALSE
