\* Every sequence of seeks, settings, marks and scrolls over a few traces whose
\* blocks lie far apart, span rows, are freed and moved.
CONSTANTS
    null = null  i1 = i1  absent = absent  none = none
    Ids <- OneId
    NullId = null
    Absent = absent
    Addrs = {0, 8}
    Sizes = {1}
    Usables = {0, 3}
    Times = {1}
    SeqFaults = {FALSE}
    HdrWidths = {1}
    Top = 15
    FirstInterval = 1
    SnapMax = 4
    WarnCap = 0
    MaxEvents = 3
    MaxFlaws = 1
    RowWidths = {3}
    FirstRowBytes = 2
    MinRowBytes = 2
    RowCap = 1
    MarkSets <- Marks
    RowLimits = {5}
    ByteLimits = {3}
    FirstLimit = 5
    RowPx = 2
    GapPx = 1
    Height = 3
    Scrolls = {2}
    ScrollCap = 8
    None = none
CONSTRAINT OnlyChosen
SPECIFICATION LayoutSpec
INVARIANTS TalliesExact BaseBelowAll LayoutExact PixelsHitRows
PROPERTIES AnchorHeld
CHECK_DEADLOCK FALSE
