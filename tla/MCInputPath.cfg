SPECIFICATION PathSpec
CONSTANTS
    Local = srv
    Remotes = {r1, r2}
    SeqLimit = 1
    QueueCap = 2
    PipeCap = 1
    MaxCaptured = 5
    MaxConns = 2
    Keys <- MCKeys
    Modifiers <- MCModifiers
    ModBit <- MCModBit
    Masks <- MCMasks
SYMMETRY MCSymmetry
CHECK_DEADLOCK FALSE
INVARIANTS
    PathTypeOK
    KeysReleased
    GrabFollowsControl
    OneOwner
PROPERTIES
    QuietKeyOnce
    SentUnderGrab
    EnterClaimsHeld
