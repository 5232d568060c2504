\* A woken waiter owns its mutex.
SPECIFICATION Spec
CONSTANTS
    MaxThreads = 3
    MaxMutexes = 1
    MaxRecursion = 2
    MaxDepth = 1
    Conds = {1}
    Sems = {}
    MaxSem = 0
    Uses = {}
    Handles = {h1}
    InitTypes = {"NORMAL"}
INVARIANTS
    OwnerIsLocker
