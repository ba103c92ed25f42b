SPECIFICATION JarvisSpec
CONSTANTS
    Clients = {c1, c2}
    MaxRequests = 3
    Dirs = {d0, d1, d2}
    Default = d0
    Projects = {p}
    Tasks = {t1}
    None = None
    MaxWrites = 1
    MaxStorageFaults = 1
    KeptTurns = 2
INVARIANTS
    StorageKept
    ConversationKept
SYMMETRY Symmetry
CHECK_DEADLOCK FALSE
