SPECIFICATION FairSpec
CONSTANTS
    p1 = p1
    p2 = p2
    None = None
    Processes = {p1, p2}
    Mortal = {p1}
    Switchers = {p2}
    Timely = TRUE
    Faults = FALSE
INVARIANTS
    OneDeleter
PROPERTIES
    RetainedIsQuiet
    NoStrandedJob
CHECK_DEADLOCK FALSE
