CONSTANTS
    f1 = f1
    f2 = f2
    Paths = {f1, f2}
    Approvals = {a1, a2}
    Procs = {p1, p2}
    Absent = Absent
    Fail = Fail
    None = None
    Lines <- MCLines
    InitTrees <- MCTrees
    Patches <- MCPatches
    MaxRuns = 3
    MaxFaults = 1
SYMMETRY MCSymmetry
SPECIFICATION PatchSpec
INVARIANTS ReplacesApprovedBase Recoverable
CHECK_DEADLOCK FALSE
