SPECIFICATION Spec
CONSTANTS
    a = a
    b = b
    x = x
    y = y
    None = None
    Sessions = {a, b}
    Callers = {x, y}
    Senders = {x, y}
    Resetters = {x, y}
    Clearers = {x, y}
    Removers = {x, y}
    MaxGen = 1
INVARIANTS
    TypeOK
    SendingIsKept
    SourceAccountedFor
    OneDisposer
    DetachedStaysInAccount
SYMMETRY Interchangeable
CHECK_DEADLOCK FALSE
