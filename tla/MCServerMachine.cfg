SPECIFICATION Spec
CONSTANTS
    srv = srv
    lap = lap
    tab = tab
    NoScreen = NoScreen
    Local = srv
    Remotes = {lap, tab}
    SeqLimit = 2
    Layouts <- MCLayouts
    Sizes <- MCSizes
    AbsPoints <- MCAbs
    Deltas <- MCDeltas
    MaxCoord = 6
    CoordLimit = 4
    Keys <- MCKeys
    Modifiers <- MCModifiers
    ModBit <- MCModBit
    Masks <- MCMasks
INVARIANTS
    TypeOK
    SentInside
PROPERTIES
    ImplementsSwitch
    NoBounce
    CanTravelBack
