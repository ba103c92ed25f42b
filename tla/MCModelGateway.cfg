SPECIFICATION Spec
CONSTANTS
    Branches = {"b1", "b2"}
    Roles = {"executor", "supervisor"}
    Fallback = {"supervisor"}
    RoleLimit <- MCRoleLimit
    Complex = FALSE
    RecoveryAt = 3
    MaxCalls = 4
    Budget = 5
    Usages <- MCUsages
    MaxRetries = 1
    MaxResumes = 1
    MaxCrashes = 1
INVARIANTS TypeOK RoleLimitsHold BudgetHolds
CHECK_DEADLOCK FALSE
