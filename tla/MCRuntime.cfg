SPECIFICATION RuntimeSpec
CONSTANTS
    srv = srv
    lap = lap
    tab = tab
    c1 = c1
    c2 = c2
    NoConn = NoConn
    Local = srv
    Remotes = {lap, tab}
    SeqLimit = 2
    Conns = {c1, c2}
    Setups <- MCSetups
    Borders <- MCBorders
    Events = {}
    CtlCap = 2
    OutCap = 1
    WireCap = 1
    BackCap = 1
    MaxEvents = 3
    MaxTicks = 0
    Keys = {}
    Modifiers = {}
    ModBit <- MCNoBits
    Masks = {}
CHECK_DEADLOCK FALSE
SYMMETRY MCConnSymmetry
INVARIANTS
    RuntimeTypeOK
    Agreement
    ForwardedIsInjected
    SoleServedIsReachable
