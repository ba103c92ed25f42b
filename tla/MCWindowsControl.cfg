SPECIFICATION Spec
CONSTANTS
    Intents = {"observe_windows", "open_notepad"}
    Proposals <- Plans
    MaxSessions = 2
    MaxTasks = 2
    MaxEvents = 2
INVARIANTS TypeOK InOrder WritesApproved
PROPERTIES CallReturns Supervised
CHECK_DEADLOCK FALSE
