SPECIFICATION Spec
CONSTANTS
    p1 = p1
    q = q
    pull = pull
    entry = entry
    w1 = w1
    lower = lower
    other = other
    None = None
    NoBase = NoBase
    Heads = {q}
    Branches = {pull, entry}
    Branch <- BranchOf
    QueueBranches = {entry}
    Bases = {0, 1}
    FirstBase <- Unrelated
    Narrowing = {q}
    Runners = {lower, other}
    Gates = {other}
    Barred <- LowerAuthor
    Pullers = {w1}
    Capacity = 1
    Batch = 1
    Verdicts = {"pass", "none"}
    MaxFaults = 1

    
PROPERTIES
    ProofIsEarned
