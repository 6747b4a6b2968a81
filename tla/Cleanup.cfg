SPECIFICATION Spec
CONSTANTS
    p1 = p1
    p2 = p2
    None = None
    Processes = {p1, p2}
    Mortal = {p1, p2}
    Switchers = {p1, p2}
    Timely = FALSE
    Faults = TRUE
INVARIANTS
    TypeOK
    CompletedIsAbsent
PROPERTIES
    KeepsPromise
VIEW ButTimers
SYMMETRY Interchangeable
CHECK_DEADLOCK FALSE
