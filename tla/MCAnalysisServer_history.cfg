\* Two writers and a follower share one history; the follower catches up.
CONSTANTS
    w1 = w1  w2 = w2  f1 = f1  f2 = f2  a = a  b = b
    Writers = {w1, w2}
    Followers = {f1}
    Nobody = nobody
    Changes = {a, b}
    Bulk = {b}
    RequestIds = {}
    NoId = noid
    NoContent = nocontent
    JournalCap = 2
    PageCap = 1
    IdemCap = 0
    RollbackMayFail = TRUE
    PowerMayFail = FALSE
    MaxRevision = 3
    MaxFaults = 2
SPECIFICATION FairServerSpec
INVARIANTS JournalExact NoLostWakeup
PROPERTIES ImplementsHistory FollowersCatchUp
CHECK_DEADLOCK FALSE
