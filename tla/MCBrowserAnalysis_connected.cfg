\* Any order of connecting, changing, following and leaving; analysis of the page's own
\* from the moment the last connection is left.
CONSTANTS
    NoDocument = NoDocument
    Retained = 2
    OwnEarly = FALSE
    MaxOthers = 1
    MaxConnects = 2
    MaxChanges = 2
    MaxFaults = 1
SPECIFICATION FairBrowserSpec
INVARIANTS FollowsServer LeavesServer
PROPERTY CatchesUp
CHECK_DEADLOCK FALSE
