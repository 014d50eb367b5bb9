SPECIFICATION RecordsSpec
CONSTANTS
    r1 = r1
    r2 = r2
    h1 = h1
    h2 = h2
    h3 = h3
    hostA = hostA
    hostB = hostB
    q1 = q1
    hostCi = hostCi
    NoClaim = NoClaim
    NoBeat = NoBeat
    Idle = Idle
    Runners = {r1, r2}
    Heads = {h1, h2}
    Hosts <- TwoHosts
    Beats <- SomeBeats
    Policies <- HostCiPolicies
    Requests = {q1}
    Ttl = 2
    Retention = 1
    MaxClaims = 1
    MaxRunners = 1
    ReadFails = TRUE
    MaxRead = 1
    Writers = {r1, r2}
    Callers = {ada, bob}
    Keys = {h1, h2}
    Bodies = {plain, token}
    Secrets = {token}
    MaxEntries = 2
    MaxFaults = 1
    None = None
    Machines = {h1, h2, h3}
    MaxAdmitted = 2
    MaxLives = 3
    MaxWall = 3
    NoLife = NoLife
    Proposals = {r1, r2}
    Stacked = {s1}
    MaxPushes = 3
    Pulls = {1, 2, 3}
    Siblings = {1, 2, 3}
    OwnText <- ThirdReplacesFirst
    Closers = {r1, r2}
    MaxChain = 3
    MaxMishaps = 1
    Nothing = Nothing
SYMMETRY Symmetry
INVARIANTS
    RecordsTypeOK
    StoreIsBounded
    
    ReplayIsOwn
    ReservationIsFreed
PROPERTIES
    RunningGateKeepsItsLease
    StaleRecordIsKept
    
    KeptWriteIsNotRepeated
    CellIsOfALiveLifetime
    
    
CHECK_DEADLOCK FALSE
