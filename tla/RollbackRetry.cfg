SPECIFICATION LiveSpec
CONSTANTS
    Versions = {1, 2}
    HostdVersion = 1
    MaxLeases = 6
    MaxHostdCrashes = 0
    MaxCrashes = 0
    MaxFaults = 2
PROPERTY RollbackIsRetried
CHECK_DEADLOCK FALSE
