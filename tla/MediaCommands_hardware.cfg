SPECIFICATION Spec
CONSTANTS
    Hardware = {videotoolbox}
    Cpu = cpu
    None = none
    MaxRuns = 2
INVARIANT
    WorkingHardwarePasses
CHECK_DEADLOCK FALSE
