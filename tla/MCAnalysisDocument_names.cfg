SPECIFICATION FairAnalysisSpec
CONSTANTS
    Trace <- Pair
    Stored = {}
    MaxTags = 1
    BlockSize = 2
    Ids = {1}
    MarkIds = {1}
    Names = {"n", "bad"}
    Colors = {}
    BadText = "bad"
    None = "none"
    Off = "off"
    Modes = {"dim"}
    MaxRevision = 1
    MaxDirect = 1
PROPERTY NamesReachMap
