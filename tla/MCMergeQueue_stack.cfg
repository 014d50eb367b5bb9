SPECIFICATION Spec
CONSTANTS
    ci = ci
    proof = proof
    None = None
    PRs = {1, 2, 3}
    Contexts = {ci}
    Required <- OnlyCi
    BaseRequired = {ci}
    Direct = {}
    Pushed = {}
    Closed = {2}
    Reviewed = {}
    Faults = {}
    MaxAttempts = 2
    MaxVersion = 1
    MaxEnqueues = 3
    MaxFaults = 0
    MaxCrashes = 0
CHECK_DEADLOCK FALSE
INVARIANTS RetryIsSpentOnRedGates
PROPERTIES OnlyQueuedChangesLand
