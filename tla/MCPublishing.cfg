CONSTANTS
    Docs <- MCDocs
    Baselines <- MCBaselines
    Missing = Missing
    Readmes <- MCReadmes
    MaxRuns = 2
    MaxDays = 2
SPECIFICATION Spec
CHECK_DEADLOCK FALSE
INVARIANTS
    ReportVerdictsAgree
    ReadmeAgreesWithReport
    UpdateIdempotent
    ProseUnchanged
