\* Three threads lock, destroy and re-initialise mutexes, nest callbacks and nap.
SPECIFICATION Spec
CONSTANTS
    MaxThreads = 3
    MaxMutexes = 2
    MaxRecursion = 2
    MaxDepth = 4
    Conds = {}
    Sems = {}
    MaxSem = 0
    Uses = {"sleep"}
    Handles = {h1}
    InitTypes = {"NORMAL", "RECURSIVE"}
INVARIANTS
    TypeOK
    LocksOwned
    WaitingCountExact
    ExecutionExact
    NoInternalPanic
