SPECIFICATION LiveSpec
CONSTANTS
    Versions = {1, 2, 3}
    HostdVersion = 1
    MaxLeases = 6
    MaxHostdCrashes = 1
    MaxCrashes = 1
    MaxFaults = 1
INVARIANT ActiveReleaseKept
INVARIANT CutoverIsJournaled
INVARIANT LedgerAgrees
PROPERTY CutoverIsResolved
CHECK_DEADLOCK FALSE
