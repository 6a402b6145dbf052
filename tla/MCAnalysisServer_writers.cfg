\* Two writers, retries, failing disks, crashes and losses of power.
CONSTANTS
    w1 = w1  w2 = w2  f1 = f1  f2 = f2  a = a  b = b
    Writers = {w1, w2}
    Followers = {}
    Nobody = nobody
    Changes = {a, b}
    Bulk = {}
    RequestIds = {q, r}
    NoId = noid
    NoContent = nocontent
    JournalCap = 1
    PageCap = 1
    IdemCap = 3
    RollbackMayFail = FALSE
    PowerMayFail = TRUE
    MaxRevision = 4
    MaxFaults = 2
SPECIFICATION ServerSpec
INVARIANTS ServerTypeOK AnswersStand RequestIdsUnique FileIsEngine
SYMMETRY WriterSymmetry
CHECK_DEADLOCK FALSE
