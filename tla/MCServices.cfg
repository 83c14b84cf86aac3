\* Nine services side by side, each on one or two instances of its own.
CONSTANTS
    x = x
    y = y
    x1 = x1
    x2 = x2
    y1 = y1
    t1 = t1
    t2 = t2
    h1 = h1
    a1 = a1
    d1 = d1
    d2 = d2
    r1 = r1
    r2 = r2
    m1 = m1
    m2 = m2
    e1 = e1
    e2 = e2
    Clients = {x, y}
    Cargos = {x1, x2, y1}
    Owner <- LoopOwner
    Imported = {x1, y1}
    Deletable = {x1}
    Campaigns = {t1}
    Hands = {h1}
    MaxRetries = 2
    Recipients = {x, y}
    Drafts <- OneDraft
    MaxBroadcasts = 1
    SaveEvery = 2
    Seconds = 1
    MaxRequests = 2
    Kinds <- TwoKinds
    Approvals = {a1}
    People = {x, y}
    OldCodes <- OneOldCode
    Typed = {3}
    Desks = {d1, d2}
    MaxCode = 5
    Rows = {r1}
    Marks = {m1, m2}
    Fresh = {m2}
    Debts = {e1, e2}
    Debtor <- OneDebtor
    Deadline <- TwoDeadlines
    Day = 2
    Recheck = 1
    Horizon = 6
    Fingerprints = {e1, e2}
    QueueSize = 1
    RateLimit = 1
    Window = 2
    ReportEvery = 2
    MaxEmits = 3
    LastTime = 4
    Checks = {d1, d2}
    Editors = {t1, t2}
    Askers = {d1, d2}
    Changers = {t1, t2}
SPECIFICATION ServicesSpec
INVARIANTS
    TypesOK
    OneDebtRow
    BilledByOneCampaign
    NobodyForgotten
    CompletedCoversAll
    StopIsHeard
    BookedAsAsked
    GeneratedIsDistinct
    GeneratedIsFree
    ProofsSound
    EvidenceKept
    RemindedOnce
    LogAccounted
    IdentityFresh
    PermissionsFresh
PROPERTIES
    IsReportBook
    IsCodeRegister
    CampaignsEnd
    BroadcastsEnd
    ShutdownEnds
CHECK_DEADLOCK FALSE
