SPECIFICATION AnalysisSpec
CONSTANTS
    Trace <- Chain
    Stored <- MCStored
    MaxTags = 2
    BlockSize = 2
    Ids = {1, 2, 3}
    MarkIds = {1}
    Names = {"n", "bad"}
    Colors = {}
    BadText = "bad"
    None = "none"
    Off = "off"
    Modes = {"dim"}
    MaxRevision = 1
    MaxDirect = 1
INVARIANTS
    DerivedExact ListsCurrent RowsCurrent DocumentRestorable ProjectionExact
