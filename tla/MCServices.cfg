SPECIFICATION ServicesSpec
CONSTANTS
    r1 = r1
    r2 = r2
    h1 = h1
    hostA = hostA
    q1 = q1
    q2 = q2
    NoClaim = NoClaim
    NoBeat = NoBeat
    Idle = Idle
    Runners = {r1, r2}
    Heads = {h1}
    Hosts = {hostA}
    Beats <- NoBeats
    Policies <- NoPolicy
    Requests = {q1, q2}
    Ttl = 2
    Retention = 1
    MaxClaims = 1
    MaxRunners = 2
    ReadFails = FALSE
    MaxRead = 2
    t1 = t1
    t2 = t2
    t3 = t3
    root = root
    ada = ada
    old = old
    new = new
    c1 = c1
    c2 = c2
    c3 = c3
    NoOne = NoOne
    Absent = Absent
    NoCall = NoCall
    NoCommit = NoCommit
    Todos = {t1, t2, t3}
    Cards = {}
    Logins = {root, ada}
    Texts = {old, new}
    Clients = {c1, c2}
    LeaseLength = 1
    FirstTree <- TwoTodos
    TodoAsks <- SomeRequests
    CasAttempts = 2
    MaxPushes = 1
    MaxTime = 1
    Steps = {"publish"}
    ReleaseHosts = {hostA, h1}
    NotBusy = NotBusy
    NoAsk = NoAsk
    PENDING_TTL = 1
    CLAIMED_TTL = 1
    MAX_ACTIONS = 2
    MaxAsks = 3
    Viewers = {c1, c2, c3}
    NoViewer = NoViewer
    TTY_RING_CAP = 1
    TTY_BROADCAST_CAP = 1
    MAX_VIEWERS_PER_RUN = 2
    Cursors = {0, 1}
    MaxEvents = 2
    MaxTakes = 2
    Tags = {t1}
    TagOids = {1, 2}
    NoTag = NoTag
    NoTip = NoTip
    NoPass = NoPass
    NoReport = NoReport
    NoPush = NoPush
    Due = Due
    MaxMerges = 2
    MaxTheirs = 1
    MaxRetags = 2
    MaxMirrorFaults = 1
    MaxHeads = 2
    NoPull = NoPull
    NoImport = NoImport
    Importers = {"poll", "hook"}
CHECK_DEADLOCK FALSE
INVARIANTS
    ReworksEnd
    
    
    ToldMergedIsLanded
PROPERTIES
    DeadHoldersHeadIsTaken
    
    LiveClaimIsTakenByForce
    RequestIsAnswered
    AskEnds
    
    
    
    
    
