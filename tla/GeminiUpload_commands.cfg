SPECIFICATION Spec
CONSTANTS
    Sessions = {s1, s2}
    InputLengths = {2, 3, 5}
    LateRequests = TRUE
    MaxFaults = 2
    Endless = FALSE
    None = None
    ChunkSize = 2
    Granular = TRUE
    MaxAttempts = 2
    FinalizeRepeats = FALSE
SYMMETRY Symmetry
INVARIANTS
    AlignedContinuation
    AcceptedRowIsTrue
    LiveFileIsReachable
    PassIsClean
PROPERTIES
    LedgerSpec
