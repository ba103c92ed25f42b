SPECIFICATION Spec
CONSTANTS
    Subtasks = {"r", "e"}
    Executors = {"e"}
    Reads = {"x", "y", "z"}
    Writes = {"w", "f"}
    Governed = {"w", "z"}
    Forbidden = {"f"}
    Contents = {"c", "d", "large"}
    ContentOf <- ResultOf
    Size <- Lengths
    Budget = 1
    MaxEvidence = 2
    MaxBytes = 2
    MaxCalls = 2
    MaxReworks = 1
    MaxResumes = 1
INVARIANTS TypeOK CitedEvidenceSaved HandlersWithinQuota DoneOnce
CHECK_DEADLOCK FALSE
