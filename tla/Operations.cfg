SPECIFICATION CastSpec
CONSTANTS
    s1 = s1
    s2 = s2
    r1 = r1
    c1 = c1
    o1 = o1
    chat = chat
    file = file
    None = None
    Starters = {s1, s2}
    Compat = {s2}
    Readers = {r1}
    Cancellers = {c1}
    Observers = {o1}
    Chats = {chat}
    Artifacts = {file}
    ResultStates = {"completed", "failed", "cancelled"}
    Lease = 1
    Retention = 2
    Attempts = 2
    Timely = FALSE
    MaxOps = 2
    MaxClock = 2
INVARIANTS
    TypeOK
    CompletedIsUsable
    OfferedIsDurable
    LocalCancelNeverLaunched
    OneGenerationPerKey
    NoLeaseLeak
PROPERTIES
    TerminalSticky
    LocatorsMonotonic
    OnlyHolderCompletes
CHECK_DEADLOCK FALSE
