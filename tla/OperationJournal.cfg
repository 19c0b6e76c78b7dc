SPECIFICATION LiveSpec
CONSTANTS
    Callers = {a, b}
    Operations = {o1, o2, o3}
    Hashes = {1, 2}
    MaxTable = 2
    MaxCrashes = 1
    MaxFaults = 1
    MaxExpiries = 1
INVARIANT AtMostOnce
INVARIANT AnswersAreDurable
PROPERTY WaitersReturn
CHECK_DEADLOCK FALSE
