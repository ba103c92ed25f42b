SPECIFICATION Spec
CONSTANTS
    Ids = {"s1", "s2", "s3"}
    Plans <- ChangePlans
    Goals <- ChangeGoals
    Signatures = {"x", "y"}
    ReplanLimit = 1
    MaxSteers = 1
    MaxPauses = 1
INVARIANTS TypeOK BuiltOnAccepted CompletedMeansAccepted ReworkLimited
PROPERTY Terminates
CHECK_DEADLOCK FALSE
