SPECIFICATION Spec
CONSTANTS
    Limit = 2
    MaxIdle = 2
    MaxEvents = 3
    MaxFaults = 2
INVARIANT FeedComplete
PROPERTY EndTold
CHECK_DEADLOCK FALSE
