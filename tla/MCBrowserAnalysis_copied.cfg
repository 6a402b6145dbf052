\* spec/08-architecture.md:173: nothing of the server's is copied into the standalone analysis.
CONSTANTS
    NoDocument = NoDocument
    Retained = 2
    OwnEarly = FALSE
    MaxOthers = 2
    MaxConnects = 1
    MaxChanges = 1
    MaxFaults = 0
SPECIFICATION BrowserSpec
INVARIANT NothingCopied
CHECK_DEADLOCK FALSE
