SPECIFICATION LiveSpec
CONSTANTS
    Connections = {1, 2, 3}
    PathOf <- PathByNumber
    Apps = {a, b}
    None = None
    MaxGeneration = 2
INVARIANT OpenIsOwned
INVARIANT TakeoverIsAnnounced
PROPERTY LeaseKeepsCarrier
PROPERTY FallbackRestored
CHECK_DEADLOCK FALSE
