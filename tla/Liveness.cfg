\* Fair runs of two threads with callbacks, a semaphore and joins.
SPECIFICATION FairSpec
CONSTANTS
    MaxThreads = 2
    MaxMutexes = 1
    MaxRecursion = 2
    MaxDepth = 3
    Conds = {}
    Sems = {1}
    MaxSem = 1
    Uses = {"sleep", "join"}
    Handles = {}
    InitTypes = {"NORMAL", "RECURSIVE"}
PROPERTIES
    ThreadsGoOn
