\* Reused ids, double frees, reallocs and thinned snapshots; missing, clamped and
\* mis-numbered records and flawed lines; overlaps, and blocks at both ends of the
\* address space; and every sequence of seeks over every trace of three events.
CONSTANTS
    null = null  i1 = i1  i2 = i2  absent = absent
    Ids <- MCIds
    NullId = null
    Absent = absent
    Addrs <- Ends
    Sizes = {0, 1, 2}
    Usables = {0, 3}
    Times = {1, 2}
    SeqFaults = {FALSE, TRUE}
    HdrWidths = {}
    Top = 4
    FirstInterval = 1
    SnapMax = 2
    WarnCap = 3
    MaxEvents = 4
    MaxFlaws = 1
    RowWidths = {}
    FirstRowBytes = 2
    MinRowBytes = 2
    RowCap = 1
SPECIFICATION InputsSpec
INVARIANTS TypeOK TimeSorted LinksInverse KillsLatestNamed LiveMapExact
    BytesExact OverlapExact AmbiguityFlagged SnapshotsExact PictureExact
PROPERTIES SeekCostBounded SeekArrives ImplementsHistory
CHECK_DEADLOCK FALSE
