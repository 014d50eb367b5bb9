SPECIFICATION FairSpec
CONSTANTS
    p1 = p1
    q = q
    pull = pull
    entry = entry
    w1 = w1
    lower = lower
    other = other
    None = None
    NoBase = NoBase
    Heads = {p1, q}
    Branches = {pull, entry}
    Branch <- BranchOf
    QueueBranches = {entry}
    Bases = {0}
    FirstBase <- Unrelated
    Narrowing = {}
    Runners = {other}
    Gates = {}
    Barred <- LowerAuthor
    Pullers = {w1}
    Capacity = 1
    Batch = 1
    Verdicts = {"pass", "none"}
    MaxFaults = 1
PROPERTIES
    RunningAuditKeepsItsTicket
    QueueProofCompletes
    PendingHeadIsRestored
