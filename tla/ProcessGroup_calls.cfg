SPECIFICATION CallSpec
CONSTANTS
    HoldStderr = TRUE
INVARIANTS
    NoSurvivors
    ReturnsAreTrue
    AcceptedMeansDead
PROPERTIES
    CallsReturn
    DroppedLeavesNothing
CHECK_DEADLOCK FALSE
