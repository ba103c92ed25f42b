SPECIFICATION Spec
CONSTANTS
    Clients = {"c1", "c2"}
    Instructions = {"i1", "i2"}
    MaxConstraints = 1
    MaxPosts = 3
INVARIANTS TypeOK NoConstraintLost
PROPERTIES ControlHonoured StopTakesEffect
CHECK_DEADLOCK FALSE
