SPECIFICATION LiveSpec
CONSTANTS
    Attachments = {a, b}
    MaxAttachments = 2
    HistoryBytes = 2
    AttachmentBytes = 3
    MaxChunk = 2
    MaxSequence = 5
INVARIANT InStep
INVARIANT Restorable
PROPERTY WaitersWake
PROPERTY OutputIsPersisted
CHECK_DEADLOCK FALSE
