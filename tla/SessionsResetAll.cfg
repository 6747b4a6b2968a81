SPECIFICATION Spec
CONSTANTS
    a = a
    b = b
    x = x
    y = y
    None = None
    Sessions = {a, b}
    Callers = {x, y}
    Senders = {x, y}
    Resetters = {x, y}
    Clearers = {x, y}
    Removers = {}
    MaxGen = 1
INVARIANTS
    OldChatStaysOut
SYMMETRY Interchangeable
CHECK_DEADLOCK FALSE
