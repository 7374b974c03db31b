SPECIFICATION MCSpec
CONSTANTS
    Cmds = {c1, c2, c3}
    Ports = {p1, p2}
    None = None
    QueueCap = 1
    MaxCaptured = 2
    NoScreen = NoScreen
    Cols = 3
    Rows = 2
    MaxTiles = 3
    Names <- MCNames
    FirstTiles <- MCFirst
    NewName <- MCName
SYMMETRY Symmetry
CHECK_DEADLOCK FALSE
INVARIANTS
    AppTypeOK
    GrabHasOwner
    GrabKept
    CurrentIsOnly
    GridIsLayout
