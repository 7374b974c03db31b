SPECIFICATION Spec
CONSTANTS
    Cmds = {c1, c2, c3}
    Ports = {p1, p2}
    None = None
    QueueCap = 1
    MaxCaptured = 3
SYMMETRY Symmetry
CHECK_DEADLOCK FALSE
INVARIANTS
    RestartWorks
