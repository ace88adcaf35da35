SPECIFICATION Spec
CONSTANTS
    Processes = {p1, p2, p3}
    None = None
    Upload = Upload
SYMMETRY Symmetry
INVARIANTS
    CheckpointsOpen
    AcceptedLeavesNothing
CHECK_DEADLOCK FALSE
