SPECIFICATION Spec
CONSTANTS
    ci = ci
    proof = proof
    None = None
    PRs = {1, 2}
    Contexts = {ci, proof}
    Required <- MoreThanBase
    BaseRequired = {ci}
    Direct = {1}
    Pushed = {}
    Closed = {}
    Reviewed = {}
    Faults = {}
    MaxAttempts = 2
    MaxVersion = 1
    MaxEnqueues = 2
    MaxFaults = 0
    MaxCrashes = 1
CHECK_DEADLOCK FALSE
INVARIANTS TypeOK NoDoubleLanding
PROPERTIES BaseIsProtected
