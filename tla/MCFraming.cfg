SPECIFICATION FramingSpec
CONSTANTS
    MaxField = 24
    MaxFrame = 24
    Sendable <- MCSendable
INVARIANTS
    EndsForReason
PROPERTIES
    ImplementsChannel
    Arrives
CHECK_DEADLOCK FALSE
