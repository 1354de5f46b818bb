CONSTANTS
    Names <- MCNames
    Contents <- MCContents
    MaxPasses = 2
SPECIFICATION Spec
CHECK_DEADLOCK FALSE
INVARIANTS
    TypeOK
    ReportedChangesExact
    IncludeSingleShot
