SPECIFICATION Spec
CONSTANTS
    HoldStderr = TRUE
INVARIANTS
    EveryEndKills
CHECK_DEADLOCK FALSE
