\* ARCH-009: a connected page follows the committed analysis, whatever it had of its own.
CONSTANTS
    NoDocument = NoDocument
    Retained = 2
    OwnEarly = TRUE
    MaxOthers = 1
    MaxConnects = 2
    MaxChanges = 1
    MaxFaults = 0
SPECIFICATION BrowserSpec
INVARIANT ShowsCommitted
CHECK_DEADLOCK FALSE
