SPECIFICATION Spec
CONSTANTS
    Matrix <- MCMatrix
    Documents <- MCDocuments
    Elsewhere <- MCElsewhere
    Collected <- MCCollected
    Listings <- MCListings
    MaxChanges = 1
INVARIANTS
    PassIsExact
CHECK_DEADLOCK FALSE
