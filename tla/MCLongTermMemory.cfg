SPECIFICATION Spec
CONSTANTS
    Subjects = {"s"}
    Values = {"v"}
    Projects = {"P"}
    Global = "global"
    Wiped = ""
    Tasks = {"t1", "t2"}
    SettingsInputs <- MCSettings
    c1 = c1
    c2 = c2
    Callers = {c1, c2}
    SignalsNeeded = 2
    Cooldown = 1
    MaxProposals = 2
    MaxMemories = 2
    MaxRuns = 1
    MaxCalls = 5
    MaxTime = 1
SYMMETRY CallerSymmetry
INVARIANTS StoreConsistent DecidedOnce NoStaleMemory
CHECK_DEADLOCK FALSE
