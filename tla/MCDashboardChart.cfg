CONSTANTS
    f1 = f1
    f2 = f2
    f3 = f3
    fTop = fTop
    Absent = Absent
    Files <- MCFiles
    Top = NoTop
    NoTop = NoTop
    Date <- MCDate
    Docs <- MCDocs
    Corrupt = Corrupt
    HistoryWindow = 2
SPECIFICATION Spec
CHECK_DEADLOCK FALSE
INVARIANT ChartSeriesAligned
