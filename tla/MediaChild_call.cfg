SPECIFICATION CallSpec
CONSTANTS
    PipeCapacity = 2
    StdoutLimit = 2
    MaxOutput = 4
    BusyRetries = 2
INVARIANTS
    ReturnedIsReaped
    NothingIsCut
PROPERTIES
    DrainsToTheEnd
    DeadlineHolds
CHECK_DEADLOCK FALSE
