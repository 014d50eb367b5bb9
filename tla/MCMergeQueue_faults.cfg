SPECIFICATION FairSpec
CONSTANTS
    ci = ci
    proof = proof
    None = None
    PRs = {1, 2}
    Contexts = {ci}
    Required <- OnlyCi
    BaseRequired = {ci}
    Direct = {}
    Pushed = {1}
    Closed = {}
    Reviewed = {1}
    Faults = {"unreadable", "replay", "write", "git", "record"}
    MaxAttempts = 2
    MaxVersion = 2
    MaxEnqueues = 2
    MaxFaults = 1
    MaxCrashes = 1
CHECK_DEADLOCK FALSE
INVARIANTS MergedCarriesHead 
PROPERTIES BaseIsProtected EveryEntryLeaves
