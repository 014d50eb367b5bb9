SPECIFICATION PollSpec
CONSTANTS
    Tags = {}
    TagOids = {1}
    NoTag = NoTag
    NoTip = NoTip
    NoPass = NoPass
    NoReport = NoReport
    NoPush = NoPush
    Due = Due
    MaxMerges = 0
    MaxTheirs = 0
    MaxRetags = 0
    MaxMirrorFaults = 0
    MaxHeads = 2
    NoPull = NoPull
    NoImport = NoImport
    Importers = {"poll"}
CHECK_DEADLOCK FALSE
PROPERTY HeadShowsTheGate
