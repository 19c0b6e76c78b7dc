SPECIFICATION Spec
CONSTANTS
    Carriers = {c1, c2, c3}
    None = None
    Window = 1
    MaximumFrame = 2
    InitiatorBytes = 0
    ResponderBytes = 0
    HalfClosers = {}
    Closers = {}
    Aborters = {}
    MaxLinkFailures = 1
    EventBuffer = 4
    SingleCoordinator = FALSE
INVARIANT ActiveIsAccepted
INVARIANT CommitAgreement
PROPERTY EpochsAdvance
SYMMETRY CarrierSymmetry
CHECK_DEADLOCK FALSE
