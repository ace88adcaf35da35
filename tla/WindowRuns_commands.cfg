SPECIFICATION WindowSpec
CONSTANTS
    RequestedSeconds = 120
    MaxFrames = 3
INVARIANTS
    EachFrameOnce
    NoStrandedFrame
    NoChildLeftBehind
    JudgesAgree
    TrayPassIsEarned
    TrayFailureHasACause
    TrayProofAndVerdict
PROPERTIES
    RunEnds
    DisplaySpec
    TrayRunEnds
CHECK_DEADLOCK FALSE
