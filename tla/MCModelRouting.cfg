SPECIFICATION RoutingSpec
CONSTANTS
    p1 = p1
    p2 = p2
    b1 = b1
    b2 = b2
    c1 = c1
    c2 = c2
    Providers <- MCProviders
    Builtin = {b1, b2}
    Clients <- MCClients
    Roles = {planner}
    RouteChoices <- MCRoutes
    InProject <- MCInProject
    Diagnostic <- MCDiagnostic
    Price <- MCPrice
    Estimated = {b1, b2}
    CostBudget = 1
    Reports <- MCReports
    Estimate <- MCEstimate
    Unknown = Unknown
    MaxRetries = 1
    MaxRequests = 4
    MaxTime = 1
    MaxDeaths = 1
INVARIANTS
    RoleBudgetHolds
    AccountsAgree
    RegistryConsistent
CHECK_DEADLOCK FALSE
SYMMETRY Symmetry
CONSTRAINT OneDisturbance
