SPECIFICATION FairSpec
CONSTANTS
    s1 = s1
    s2 = s2
    r1 = r1
    r2 = r2
    c1 = c1
    o1 = o1
    chat = chat
    file = file
    other = other
    None = None
    Starters = {s1}
    Compat = {}
    Readers = {}
    Cancellers = {c1}
    Observers = {}
    Chats = {chat}
    Artifacts = {}
    ResultStates = {"failed"}
    Lease = 2
    Retention = 3
    Attempts = 2
    Timely = TRUE
    MaxOps = 1
    MaxClock = 1
PROPERTIES
    CancelBeforeStartResolves
CHECK_DEADLOCK FALSE
