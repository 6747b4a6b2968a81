SPECIFICATION Spec
CONSTANTS
    r1 = r1
    Readers = {r1}
INVARIANTS
    ReadsConverge
CHECK_DEADLOCK FALSE
