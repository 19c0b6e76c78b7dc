SPECIFICATION LiveSpec
CONSTANTS
    MaxLaunches = 2
    MaxInputs = 1
    MaxDecisions = 2
    MaxOutput = 1
    MaxCrashes = 1
    MaxFaults = 1
INVARIANT NoOrphan
INVARIANT RowFollows
INVARIANT InputsAreTruthful
PROPERTY EndsAreSettled
CHECK_DEADLOCK FALSE
