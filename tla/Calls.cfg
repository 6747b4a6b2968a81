SPECIFICATION Spec
CONSTANTS
    t1 = t1
    t2 = t2
    t3 = t3
    r1 = r1
    r2 = r2
    NoValue = NoValue
    None = NoValue
    Tasks = {t1, t2, t3}
    Updaters = {t1, t2}
    Requests = {r1, r2}
    Readers = {r1, r2}
    Accounts = {"a", "b"}
    Chats = {"a", "b"}
    Answer <- Text
    NChats = 3
    PageMin = 1
    PageMax = 2
    MaxPages = 2
    MaxTarget = 2
    ReadBackTarget = 2
    Limit = 1
    MaxChanges = 1
    MaxRecoveries = 2
    MaxIndex = 3
    MaxFrames = 3
    Configured = 1
    MaxMessages = 1
    MaxEdits = 1
    Identities = {"x", "y"}
    Listings <- Lists
    MaxDeviations = 2
    MaxVersions = 3
    CanvasPages = 3
    CanvasPageMax = 2
    Limits = {1, 2}
    CreateLimit = 2
    MaxRuns = 3
    MaxRows = 3
    MaxChats = 2
    MaxCallers = 2
    MaxWorkers = 2
    MaxDecisions = 1
    MaxSwitches = 1
    MaxTime = 1
INVARIANTS
    DownloadsAreKept
    RepliesAreAccounted
    RequestsAreScoped
    WritesAreTrue
    CredentialsStayTogether
    AnswersAreEvidence
    ReceiptsLeadBack
PROPERTIES
    HistoryIsTrue
    ReportIsSafe
    OwnerEnds
    OutputIsSafe
    CanvasIsTrue
    DeletionsAreMeant
CHECK_DEADLOCK FALSE
