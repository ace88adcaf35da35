SPECIFICATION Spec
CONSTANTS
    Sessions = {s1}
    InputLengths = {3}
    LateRequests = FALSE
    MaxFaults = 1
    Endless = FALSE
    None = None
    ChunkSize = 2
    Granular = TRUE
    MaxAttempts = 2
    FinalizeRepeats = TRUE
INVARIANT EveryEndAttemptsDeletion
