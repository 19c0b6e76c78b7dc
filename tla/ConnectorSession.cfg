SPECIFICATION FairSpec
CONSTANTS
    MaxSession = 2
    MaxGeneration = 3
    MaxEvents = 3
    MaxHeartbeats = 1
INVARIANT ServedIsApplied
INVARIANT SettledOffersAgree
PROPERTY StaleSessionsAreFenced
PROPERTY OffersSettle
CHECK_DEADLOCK FALSE
