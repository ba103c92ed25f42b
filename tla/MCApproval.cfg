CONSTANTS
    Calls = {run, c1, c2}
    FirstRun = run
    Diffs <- MCDiffs
    MaxReqs = 2
    MaxReworks = 2
    MaxCrashes = 1
SPECIFICATION Spec
INVARIANTS AppliedAsApproved PendingDecidable
PROPERTIES RefusalIsFinal
CHECK_DEADLOCK FALSE
