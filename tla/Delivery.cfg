SPECIFICATION FairSpec
CONSTANTS
    Carriers = {c1, c2}
    None = None
    Window = 1
    MaximumFrame = 2
    InitiatorBytes = 1
    ResponderBytes = 0
    HalfClosers = {}
    Closers = {}
    Aborters = {}
    MaxLinkFailures = 1
    EventBuffer = 16
    SingleCoordinator = TRUE
PROPERTY WrittenIsDelivered
PROPERTY TransitionsEnd
CHECK_DEADLOCK FALSE
