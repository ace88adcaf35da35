SPECIFICATION FairSpec
CONSTANTS
    Sessions = {s1}
    InputLengths = {2, 3, 5}
    LateRequests = FALSE
    MaxFaults = 1
    Endless = TRUE
    None = None
    ChunkSize = 2
    Granular = FALSE
    MaxAttempts = 3
    FinalizeRepeats = TRUE
INVARIANTS
    NoStaleReplay
    HintIsLowerBound
PROPERTIES
    CommandTerminates
    LiveFileEventuallyDeleted
