SPECIFICATION FairSpec
CONSTANTS
    x = x
    y = y
    r = r
    None = None
    Callers = {x, y}
    Resetters = {r}
    Attempts = 2
    MaxClients = 3
    MaxCreds = 1
INVARIANTS
    TypeOK
    PublishedIsReady
    OneInitialization
    CredentialsFresh
PROPERTIES
    WaitersReturn
CHECK_DEADLOCK FALSE
