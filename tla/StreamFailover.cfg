SPECIFICATION Spec
CONSTANTS
    Carriers = {c1, c2}
    None = None
    Window = 2
    MaximumFrame = 2
    InitiatorBytes = 2
    ResponderBytes = 0
    HalfClosers = {}
    Closers = {}
    Aborters = {}
    MaxLinkFailures = 1
    EventBuffer = 16
    SingleCoordinator = TRUE
INVARIANT TypeOK
INVARIANT NoProtocolFailure
INVARIANT DeliveredInOrder
INVARIANT AckedWasConsumed
SYMMETRY CarrierSymmetry
CHECK_DEADLOCK FALSE
