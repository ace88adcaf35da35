SPECIFICATION Spec
CONSTANTS
    Matrix <- MCMatrix
    Documents <- MCDocuments
    Elsewhere <- MCElsewhere
    Collected <- MCCollected
    Listings <- MCListings
    MaxChanges = 2
INVARIANTS
    VerdictIsReference
    SourcesAreClean
    ReportMatchesOutcome
CHECK_DEADLOCK FALSE
