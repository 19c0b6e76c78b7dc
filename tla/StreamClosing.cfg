SPECIFICATION Spec
CONSTANTS
    Carriers = {c1, c2}
    None = None
    Window = 1
    MaximumFrame = 2
    InitiatorBytes = 1
    ResponderBytes = 0
    HalfClosers = {"initiator"}
    Closers = {"initiator"}
    Aborters = {"responder"}
    MaxLinkFailures = 1
    EventBuffer = 16
    SingleCoordinator = TRUE
INVARIANT EofIsTheEnd
INVARIANT NoResetAfterFinAck
PROPERTY ImplementsByteStream
SYMMETRY CarrierSymmetry
CHECK_DEADLOCK FALSE
