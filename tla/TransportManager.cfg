SPECIFICATION LiveSpec
CONSTANTS
    Consumers = {a, b, c}
    Keys = {k1, k2}
    Scopes <- AllScopes
    MaxEntries = 2
INVARIANT RefsExact
INVARIANT ClosedOnce
PROPERTY WaitersReturn
PROPERTY PoolsReclaimed
CHECK_DEADLOCK FALSE
