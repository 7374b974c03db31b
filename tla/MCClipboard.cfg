SPECIFICATION Spec
CONSTANTS
    Clients = {c1}
    Texts = {"a", "b", "large"}
    Large = {"large"}
    NoText = ""
    Sessions = 2
    MaxCopies = 2
    MaxPushes = 1
INVARIANTS
    ClipTypeOK
    InStep
PROPERTIES
    NoEcho
    Spreads
CHECK_DEADLOCK FALSE
