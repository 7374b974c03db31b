SPECIFICATION ServerFairSpec
CONSTANTS
    srv = srv
    lap = lap
    tab = tab
    c1 = c1
    c2 = c2
    NoConn = NoConn
    Local = srv
    Remotes = {lap}
    SeqLimit = 2
    Conns = {c1}
    Setups <- MCOneClient
    Borders <- MCOneBorders
    Events <- MCEvents
    CtlCap = 2
    OutCap = 1
    WireCap = 4
    BackCap = 1
    MaxEvents = 0
    MaxTicks = 3
    Keys = {}
    Modifiers = {}
    ModBit <- MCNoBits
    Masks = {}
CHECK_DEADLOCK FALSE
PROPERTIES
    SilentPeerDropped
