SPECIFICATION Spec
CONSTANTS
    ci = ci
    proof = proof
    None = None
    PRs = {1, 2}
    Contexts = {ci}
    Required <- OnlyCi
    BaseRequired = {ci}
    Direct = {1}
    Pushed = {1}
    Closed = {}
    Reviewed = {}
    Faults = {}
    MaxAttempts = 2
    MaxVersion = 2
    MaxEnqueues = 1
    MaxFaults = 0
    MaxCrashes = 0
CHECK_DEADLOCK FALSE
PROPERTIES BaseIsProtected
