CONSTANTS
    fPool = fPool
    fLogger = fLogger
    fUtil = fUtil
    fNotes = fNotes
    Root = Root
    Missing = Missing
    NoBackup = NoBackup
    Tree <- MCTree
    BaseName <- MCBaseName
    InitialContent <- MCInitialContent
    Unreadable = {fUtil}
    Eols = {"LF", "CRLF"}
    MaxRuns = 3
    MaxInterrupts = 1
    MaxIOErrors = 0
SPECIFICATION Spec
CHECK_DEADLOCK FALSE
INVARIANT AtomicWrite
