CONSTANTS
    f1 = f1
    f2 = f2
    f3 = f3
    fTop = fTop
    Files <- MCTopFiles
    Top = fTop
    NoTop = NoTop
    Absent = Absent
    Date <- MCTopDate
    Docs <- MCTopDocs
    Corrupt = Corrupt
    HistoryWindow = 2
SPECIFICATION FairSpec
CHECK_DEADLOCK FALSE
INVARIANTS
    TypeOK
    ThroughputFilesDated
PROPERTY
    DashboardWrittenUnlessLatestCorrupt
