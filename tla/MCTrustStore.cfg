SPECIFICATION Spec
CONSTANTS
    Attempts = {a1, a2}
    Hosts = {h1, h2}
    NoPin = NoPin
    Torn = Torn
    MaxStarts = 2
SYMMETRY MCSymmetry
INVARIANTS
    TrustTypeOK
    OneFingerprint
    UnchangedIsAccepted
PROPERTIES
    PinKept
