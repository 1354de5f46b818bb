CONSTANTS
    b1 = b1
    b2 = b2
    BenchNames = {b1, b2}
    Times = {0, 94, 100, 105, 106}
    NoTime = NoTime
    Missing = Missing
    Corrupt = Corrupt
    Threshold = 5
    Docs <- MCDocs
SPECIFICATION Spec
CHECK_DEADLOCK FALSE
INVARIANTS
    TypeOK
    ReportExact
    ExitZeroMeansNoRegression
