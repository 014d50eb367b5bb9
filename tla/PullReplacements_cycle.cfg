SPECIFICATION ReplacedSpec
CONSTANTS
    Pulls = {1, 2, 3}
    Siblings = {1, 2, 3}
    OwnText = {}
    Closers = {c1, c2}
    MaxChain = 3
    MaxMishaps = 0
    Nothing = Nothing
INVARIANTS
    ChainsEnd
CHECK_DEADLOCK FALSE
